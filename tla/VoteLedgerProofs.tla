--------------------------- MODULE VoteLedgerProofs ---------------------------
(* Theorems about VoteLedger, for any hours, horizons, windows and limits. *)
EXTENDS VoteLedger, FiniteSetTheorems, TLAPS

Newer(rows, k) == {l \in Kept(rows) : l > k}

(* Nothing in the ledger is of the future. *)
OfThePast ==
    /\ \A v \in waiting : v <= now
    /\ \A k \in Kept(table) :
          /\ table[k].at <= now /\ table[k].written <= now
          /\ \A h \in Horizon :
                table[k].returns[h] # Null => table[k].returns[h].bar < now
    /\ \A s \in Settler : settling[s] # Idle =>
          /\ settling[s].upTo < now
          /\ \A v \in settling[s].votes : v <= now

(* What a settlement has listed is still the vote of its hour, or an older one
   than the row's, which then came after the bars the settlement knows; or the
   hour is trimmed and cannot come back. *)
ListedIsRowOrOlder ==
    \A s \in Settler : settling[s] # Idle =>
        \A v \in settling[s].votes :
            LET k == BucketOf(v) IN
            /\ k \notin Kept(table) => Cardinality(Newer(table, k)) >= MaxEntries
            /\ k \in Kept(table) /\ table[k].at # v =>
                  v < table[k].at /\ table[k].written > settling[s].upTo

IInv ==
    /\ TypeOK
    /\ OfThePast
    /\ ListedIsRowOrOlder
    /\ MeasuredAtItsHorizon

(***************************************************************************)
(* Lemmas about the operators.                                             *)
(***************************************************************************)

LEMMA BucketOfTime == \A t \in Time : BucketOf(t) \in Bucket
BY LedgerAssumption DEF Time, Bucket, BucketOf

LEMMA NullIsNoReturn == \A t, b \in Time : [of |-> t, bar |-> b] # Null
BY LedgerAssumption DEF Time, Null

LEMMA EmptyIsNoRow ==
    \A r : r \in Rows /\ r # Empty <=>
           r \in [at : Time, written : Time, returns : [Horizon -> Return]]
<1>1. Empty \notin [at : Time, written : Time, returns : [Horizon -> Return]]
    BY LedgerAssumption DEF Empty, Time
<1> QED
    BY <1>1 DEF Rows

(* A finite set of naturals has a first and a last element: the elements on one
   side of each form a set of their own, and strict inclusion orders those
   well. *)
LEMMA FirstAndLast ==
    ASSUME NEW S \in SUBSET Nat, IsFiniteSet(S), S # {}
    PROVE  /\ \E b \in S : \A c \in S : b <= c
           /\ \E b \in S : \A c \in S : c <= b
<1> DEFINE Under(n) == {m \in S : m < n}
           Over(n) == {m \in S : m > n}
<1>1. /\ IsWellFoundedOn(StrictSubsetOrdering(S), FiniteSubsetsOf(S))
      /\ {Under(n) : n \in S} \subseteq FiniteSubsetsOf(S)
      /\ {Over(n) : n \in S} \subseteq FiniteSubsetsOf(S)
    BY FS_StrictSubsetOrderingWellFounded, FS_Subset DEF FiniteSubsetsOf
<1>2. \E b \in S : \A c \in S : b <= c
    <2> DEFINE T == {Under(n) : n \in S}
    <2>1. T # {}
        OBVIOUS
    <2>2. \E x \in T : \A y \in T : <<y, x>> \notin StrictSubsetOrdering(S)
        <3> HIDE DEF T
        <3> QED BY <1>1, <2>1, WFMin DEF T
    <2>3. PICK b \in S : \A c \in S : <<Under(c), Under(b)>> \notin StrictSubsetOrdering(S)
        BY <2>2
    <2>4. ASSUME NEW c \in S, c < b PROVE FALSE
        <3>1. /\ c \in Nat /\ b \in Nat
              /\ \A m \in S : m \in Nat /\ (m < c => m < b)
            BY <2>4
        <3>2. c \in Under(b) /\ c \notin Under(c)
            BY <2>4, <3>1
        <3>3. \A m \in Under(c) : m \in Under(b)
            BY <3>1
        <3> QED BY <2>3, <3>2, <3>3 DEF StrictSubsetOrdering
    <2> QED BY <2>4
<1>3. \E b \in S : \A c \in S : c <= b
    <2> DEFINE T == {Over(n) : n \in S}
    <2>1. T # {}
        OBVIOUS
    <2>2. \E x \in T : \A y \in T : <<y, x>> \notin StrictSubsetOrdering(S)
        <3> HIDE DEF T
        <3> QED BY <1>1, <2>1, WFMin DEF T
    <2>3. PICK b \in S : \A c \in S : <<Over(c), Over(b)>> \notin StrictSubsetOrdering(S)
        BY <2>2
    <2>4. ASSUME NEW c \in S, b < c PROVE FALSE
        <3>1. /\ c \in Nat /\ b \in Nat
              /\ \A m \in S : m \in Nat /\ (m > c => m > b)
            BY <2>4
        <3>2. c \in Over(b) /\ c \notin Over(c)
            BY <2>4, <3>1
        <3>3. \A m \in Over(c) : m \in Over(b)
            BY <3>1
        <3> QED BY <2>3, <3>2, <3>3 DEF StrictSubsetOrdering
    <2> QED BY <2>4
<1> QED BY <1>2, <1>3

LEMMA KeptIsFinite ==
    ASSUME NEW rows
    PROVE  /\ Kept(rows) \in SUBSET Nat /\ IsFiniteSet(Kept(rows))
           /\ Cardinality(Kept(rows)) \in Nat
           /\ \A k \in Bucket : /\ IsFiniteSet(Newer(rows, k))
                                /\ Cardinality(Newer(rows, k)) \in Nat
<1>1. LastTime \div Hour \in Nat /\ 0 \in Int
    BY LedgerAssumption
<1>2. IsFiniteSet(Bucket) /\ Bucket \in SUBSET Nat
    BY <1>1, FS_Interval DEF Bucket
<1>3. Kept(rows) \in SUBSET Bucket /\ \A k \in Bucket : Newer(rows, k) \in SUBSET Bucket
    BY DEF Kept, Newer
<1> QED
    BY <1>2, <1>3, FS_Subset, FS_CardinalityType

(* The trim leaves at most the entries the limit allows, changes none of them,
   and an hour it removed has a full table of newer ones. *)
LEMMA TrimKeepsNewest ==
    ASSUME NEW rows
    PROVE  /\ Kept(Trim(rows)) \subseteq Kept(rows)
           /\ \A k \in Kept(Trim(rows)) : Trim(rows)[k] = rows[k]
           /\ \A k \in Bucket : Trim(rows)[k] \in {rows[k], Empty}
           /\ Cardinality(Kept(Trim(rows))) <= MaxEntries
           /\ \A k \in Bucket : Cardinality(Newer(rows, k)) >= MaxEntries
                                    => Cardinality(Newer(Trim(rows), k)) >= MaxEntries
           /\ \A k \in Kept(rows) : k \notin Kept(Trim(rows))
                                    => Cardinality(Newer(Trim(rows), k)) >= MaxEntries
<1> DEFINE kept == Kept(Trim(rows))
<1>1. \A k \in Bucket : Trim(rows)[k] =
            IF Cardinality(Newer(rows, k)) < MaxEntries THEN rows[k] ELSE Empty
    BY DEF Trim, Newer
<1>2. kept = {k \in Kept(rows) : Cardinality(Newer(rows, k)) < MaxEntries}
    BY <1>1 DEF Kept
<1>3. Cardinality(kept) <= MaxEntries
    <2>1. CASE kept = {}
        BY <2>1, FS_EmptySet, LedgerAssumption
    <2>2. CASE kept # {}
        <3>1. kept \in SUBSET Nat /\ IsFiniteSet(kept) /\ Cardinality(kept) \in Nat
            BY KeptIsFinite
        <3>2. PICK first \in kept : \A k \in kept : first <= k
            BY <2>2, <3>1, FirstAndLast
        <3>3. first \in Bucket /\ first \in Nat /\ Cardinality(Newer(rows, first)) < MaxEntries
            BY <1>2, <3>1, <3>2 DEF Kept
        <3>4. /\ IsFiniteSet(Newer(rows, first)) /\ Cardinality(Newer(rows, first)) \in Nat
              /\ first \notin Newer(rows, first)
            BY <3>3, KeptIsFinite DEF Newer
        <3>0. kept \in SUBSET (Newer(rows, first) \cup {first})
            <4> SUFFICES ASSUME NEW k \in kept PROVE k = first \/ k \in Newer(rows, first)
                OBVIOUS
            <4>1. k \in Kept(rows) /\ k \in Nat /\ first <= k
                BY <1>2, <3>1, <3>2
            <4> QED BY <3>3, <4>1 DEF Newer
        <3>5. /\ IsFiniteSet(Newer(rows, first) \cup {first})
              /\ Cardinality(Newer(rows, first) \cup {first}) = Cardinality(Newer(rows, first)) + 1
            BY <3>4, FS_AddElement
        <3>6. Cardinality(kept) <= Cardinality(Newer(rows, first) \cup {first})
            BY <3>0, <3>5, FS_Subset
        <3> QED
            BY <3>1, <3>3, <3>4, <3>5, <3>6, LedgerAssumption
    <2> QED
        BY <2>1, <2>2
<1>4. ASSUME NEW k \in Bucket, Cardinality(Newer(rows, k)) >= MaxEntries
      PROVE  Cardinality(Newer(Trim(rows), k)) >= MaxEntries
    <2> DEFINE lost == Newer(rows, k) \ kept
    <2>1. /\ Newer(rows, k) \in SUBSET Nat /\ IsFiniteSet(Newer(rows, k))
          /\ IsFiniteSet(Newer(Trim(rows), k)) /\ Cardinality(Newer(Trim(rows), k)) \in Nat
        BY KeptIsFinite DEF Newer
    <2>2. CASE lost = {}
        <3>1. Newer(rows, k) = Newer(Trim(rows), k)
            BY <1>2, <2>2 DEF Newer
        <3> QED
            BY <1>4, <3>1
    <2>3. CASE lost # {}
        <3>1. lost \in SUBSET Nat /\ IsFiniteSet(lost)
            BY <2>1, FS_Subset
        <3>2. PICK last \in lost : \A l \in lost : l <= last
            BY <2>3, <3>1, FirstAndLast
        <3>3. last \in Kept(rows) /\ last \in Nat /\ last > k /\ last \in Bucket
            BY <3>1, <3>2 DEF Newer, Kept
        <3>4. Cardinality(Newer(rows, last)) >= MaxEntries
            BY <1>2, <3>2, <3>3, KeptIsFinite, LedgerAssumption
        <3>5. k \in Nat
            BY LedgerAssumption DEF Bucket
        <3>6. Newer(rows, last) \in SUBSET Newer(Trim(rows), k)
            <4> SUFFICES ASSUME NEW l \in Newer(rows, last)
                         PROVE  l \in Newer(Trim(rows), k)
                OBVIOUS
            <4>1. l \in Kept(rows) /\ l \in Nat /\ l > last
                BY KeptIsFinite DEF Newer
            <4>2. l > k /\ l \notin lost
                BY <3>2, <3>3, <3>5, <4>1
            <4> QED
                BY <4>1, <4>2 DEF Newer
        <3>7. Cardinality(Newer(rows, last)) <= Cardinality(Newer(Trim(rows), k))
            BY <2>1, <3>6, FS_Subset
        <3> QED
            BY <2>1, <3>3, <3>4, <3>7, KeptIsFinite, LedgerAssumption
    <2> QED
        BY <2>2, <2>3
<1>5. ASSUME NEW k \in Kept(rows), k \notin kept
      PROVE  Cardinality(Newer(Trim(rows), k)) >= MaxEntries
    <2>1. k \in Bucket /\ Cardinality(Newer(rows, k)) \in Nat
        BY KeptIsFinite DEF Kept
    <2>2. Cardinality(Newer(rows, k)) >= MaxEntries
        BY <1>2, <1>5, <2>1, LedgerAssumption
    <2> QED
        BY <1>4, <2>1, <2>2
<1> QED
    BY <1>1, <1>2, <1>3, <1>4, <1>5 DEF Kept

(* An upsert changes the row of the vote's hour only, keeps what is settled
   there and never the older of two votes. *)
LEMMA UpsertPutsNewer ==
    ASSUME NEW rows \in [Bucket -> Rows], NEW vote \in Time, NEW time \in Time
    PROVE  LET after == Upsert(rows, vote, time)
               k == BucketOf(vote)
           IN
           /\ after \in [Bucket -> Rows] /\ k \in Bucket
           /\ Kept(after) = Kept(rows) \cup {k}
           /\ \A l \in Bucket \ {k} : after[l] = rows[l]
           /\ k \notin Kept(rows) =>
                after[k] = [at |-> vote, written |-> time, returns |-> Unmeasured]
           /\ k \in Kept(rows) =>
                /\ after[k].returns = rows[k].returns
                /\ IF vote > rows[k].at
                   THEN after[k].at = vote /\ after[k].written = time
                   ELSE after[k] = rows[k]
<1> DEFINE k == BucketOf(vote)
           after == Upsert(rows, vote, time)
           fresh == [at |-> vote, written |-> time, returns |-> Unmeasured]
           moved == [rows[k] EXCEPT !.at = vote, !.written = time]
<1>1. k \in Bucket
    BY BucketOfTime
<1>2. fresh \in [at : Time, written : Time, returns : [Horizon -> Return]]
    BY DEF Unmeasured, Return
<1>3. after = [rows EXCEPT ![k] = IF rows[k] = Empty THEN fresh
                                  ELSE IF vote > rows[k].at THEN moved ELSE rows[k]]
    BY DEF Upsert
<1>4. /\ after[k] = IF rows[k] = Empty THEN fresh
                    ELSE IF vote > rows[k].at THEN moved ELSE rows[k]
      /\ \A l \in Bucket \ {k} : after[l] = rows[l]
      /\ DOMAIN after = Bucket
    <2> HIDE DEF k, fresh, moved, after
    <2> QED BY <1>1, <1>3
<1>5. rows[k] # Empty =>
        /\ moved \in [at : Time, written : Time, returns : [Horizon -> Return]]
        /\ moved.at = vote /\ moved.written = time /\ moved.returns = rows[k].returns
    <2> SUFFICES ASSUME rows[k] # Empty
                 PROVE  /\ moved \in [at : Time, written : Time, returns : [Horizon -> Return]]
                        /\ moved.at = vote /\ moved.written = time
                        /\ moved.returns = rows[k].returns
        OBVIOUS
    <2>1. rows[k] \in [at : Time, written : Time, returns : [Horizon -> Return]]
        BY <1>1, EmptyIsNoRow
    <2> HIDE DEF k
    <2> QED BY <2>1
<1>6. after[k] \in Rows /\ after[k] # Empty
    <2> HIDE DEF k, fresh, moved, after
    <2> QED BY <1>1, <1>2, <1>4, <1>5, EmptyIsNoRow
<1>7. after \in [Bucket -> Rows] /\ Kept(after) = Kept(rows) \cup {k}
    <2>1. after = [l \in Bucket |-> after[l]]
        <3> HIDE DEF k, fresh, moved
        <3> QED BY <1>3
    <2> HIDE DEF k, fresh, moved, after
    <2> QED BY <1>1, <1>4, <1>6, <2>1 DEF Kept
<1>8. k \in Kept(rows) <=> rows[k] # Empty
    BY <1>1 DEF Kept
<1> HIDE DEF moved, fresh
<1> QED
    BY <1>1, <1>4, <1>5, <1>7, <1>8 DEF fresh

(* The bar an instant falls into is the one that opens then. *)
LEMMA CoveringIsTheInstant ==
    ASSUME NEW c \in Time, NEW instant, NEW sharp \in BOOLEAN,
           Covering(c, instant, sharp) # {}
    PROVE  /\ instant \in Time /\ instant <= c
           /\ Max(Covering(c, instant, sharp)) = instant
<1>1. instant \in Time /\ instant <= c /\ Covering(c, instant, sharp) = {instant}
    BY DEF Covering, Candles
<1>2. instant \in Nat
    BY <1>1, LedgerAssumption DEF Time
<1> QED
    BY <1>1, <1>2 DEF Max

(* Settling adds returns of what was listed to rows that lack them. *)
LEMMA SettledAdds ==
    ASSUME NEW rows \in [Bucket -> Rows], NEW c \in Time, NEW sharp \in BOOLEAN,
           NEW votes \in SUBSET Time
    PROVE  LET after == Settled(rows, c, sharp, votes) IN
           /\ after \in [Bucket -> Rows]
           /\ Kept(after) = Kept(rows)
           /\ \A k \in Kept(rows) :
                /\ after[k].at = rows[k].at /\ after[k].written = rows[k].written
                /\ \A h \in Horizon :
                     \/ after[k].returns[h] = rows[k].returns[h]
                     \/ /\ rows[k].returns[h] = Null
                        /\ \E v \in votes :
                              /\ BucketOf(v) = k
                              /\ v + h * Hour \in Time /\ v + h * Hour <= c
                              /\ after[k].returns[h] = [of |-> v, bar |-> v + h * Hour]
<1> DEFINE after == Settled(rows, c, sharp, votes)
           Measured(k, h) == {v \in votes : /\ BucketOf(v) = k
                                            /\ Covering(c, v + h * Hour, sharp) # {}}
           ret(k, h) ==
              IF rows[k].returns[h] # Null \/ Measured(k, h) = {} THEN rows[k].returns[h]
              ELSE LET v == CHOOSE v \in Measured(k, h) : TRUE
                   IN [of |-> v, bar |-> Max(Covering(c, v + h * Hour, sharp))]
<1>1. after = [k \in Bucket |->
                 IF rows[k] = Empty THEN Empty
                 ELSE [rows[k] EXCEPT !.returns = [h \in Horizon |-> ret(k, h)]]]
    <2>1. ASSUME NEW k \in Bucket, rows[k] # Empty
          PROVE  [rows[k] EXCEPT !.returns = [h \in Horizon |->
                    LET measured == {v \in votes : /\ BucketOf(v) = k
                                            /\ Covering(c, v + h * Hour, sharp) # {}}
                    IN IF @[h] # Null \/ measured = {} THEN @[h]
                       ELSE LET v == CHOOSE v \in measured : TRUE
                            IN [of |-> v, bar |-> Max(Covering(c, v + h * Hour, sharp))]]]
                 = [rows[k] EXCEPT !.returns = [h \in Horizon |-> ret(k, h)]]
        OBVIOUS
    <2> QED
        BY <2>1 DEF Settled
<1>2. ASSUME NEW k \in Bucket, NEW h \in Horizon
      PROVE  \/ ret(k, h) = rows[k].returns[h]
             \/ /\ rows[k].returns[h] = Null
                /\ \E v \in votes : /\ BucketOf(v) = k
                                    /\ v + h * Hour \in Time /\ v + h * Hour <= c
                                    /\ ret(k, h) = [of |-> v, bar |-> v + h * Hour]
    <2> SUFFICES ASSUME rows[k].returns[h] = Null, Measured(k, h) # {}
                 PROVE  \E v \in votes : /\ BucketOf(v) = k
                                    /\ v + h * Hour \in Time /\ v + h * Hour <= c
                                    /\ ret(k, h) = [of |-> v, bar |-> v + h * Hour]
        OBVIOUS
    <2> DEFINE v == CHOOSE v \in Measured(k, h) : TRUE
    <2>1. v \in votes /\ BucketOf(v) = k /\ Covering(c, v + h * Hour, sharp) # {}
        OBVIOUS
    <2>2. /\ v + h * Hour \in Time /\ v + h * Hour <= c
          /\ Max(Covering(c, v + h * Hour, sharp)) = v + h * Hour
        BY <2>1, CoveringIsTheInstant
    <2>3. ret(k, h) = [of |-> v, bar |-> Max(Covering(c, v + h * Hour, sharp))]
        OBVIOUS
    <2> QED
        BY <2>1, <2>2, <2>3
<1> HIDE DEF ret, after
<1>3. ASSUME NEW k \in Kept(rows)
      PROVE  /\ after[k] \in [at : Time, written : Time, returns : [Horizon -> Return]]
             /\ after[k].at = rows[k].at /\ after[k].written = rows[k].written
             /\ \A h \in Horizon : after[k].returns[h] = ret(k, h)
    <2>1. k \in Bucket /\ rows[k] # Empty
        BY DEF Kept
    <2>2. rows[k] \in [at : Time, written : Time, returns : [Horizon -> Return]]
        BY <2>1, EmptyIsNoRow
    <2>3. ASSUME NEW h \in Horizon PROVE ret(k, h) \in Return
        <3>1. CASE ret(k, h) = rows[k].returns[h]
            BY <2>2, <3>1
        <3>2. CASE \E v \in votes : /\ v + h * Hour \in Time
                                    /\ ret(k, h) = [of |-> v, bar |-> v + h * Hour]
            BY <3>2 DEF Return
        <3> QED
            BY <1>2, <2>1, <3>1, <3>2
    <2>4. after[k] = [rows[k] EXCEPT !.returns = [h \in Horizon |-> ret(k, h)]]
        BY <1>1, <2>1
    <2> QED
        BY <2>2, <2>3, <2>4
<1>4. \A k \in Bucket : k \notin Kept(rows) => after[k] = Empty
    BY <1>1 DEF Kept
<1>5. after \in [Bucket -> Rows] /\ Kept(after) = Kept(rows)
    <2>1. \A k \in Bucket : k \in Kept(rows) => after[k] \in Rows /\ after[k] # Empty
        BY <1>3, EmptyIsNoRow
    <2>2. Empty \in Rows
        BY DEF Rows
    <2>3. \A k \in Bucket : after[k] \in Rows
        BY <1>4, <2>1, <2>2
    <2>4. after = [k \in Bucket |-> after[k]]
        BY <1>1
    <2>5. Kept(after) = Kept(rows)
        BY <1>4, <2>1 DEF Kept
    <2> QED
        BY <2>3, <2>4, <2>5
<1>6. ASSUME NEW k \in Kept(rows), NEW h \in Horizon
      PROVE  \/ after[k].returns[h] = rows[k].returns[h]
             \/ /\ rows[k].returns[h] = Null
                /\ \E v \in votes : /\ BucketOf(v) = k
                                    /\ v + h * Hour \in Time /\ v + h * Hour <= c
                                    /\ after[k].returns[h] = [of |-> v, bar |-> v + h * Hour]
    <2>1. k \in Bucket
        BY DEF Kept
    <2> QED
        BY <1>2, <1>3, <2>1
<1> QED
    BY <1>3, <1>5, <1>6 DEF after

(***************************************************************************)
(* The inductive invariant.                                                *)
(***************************************************************************)

LEMMA RowFields ==
    ASSUME TypeOK, NEW k \in Kept(table)
    PROVE  /\ k \in Bucket /\ BucketOf(table[k].at) = k
           /\ table[k] \in [at : Time, written : Time, returns : [Horizon -> Return]]
BY EmptyIsNoRow DEF TypeOK, Kept

LEMMA SettlementFields ==
    ASSUME TypeOK, NEW s \in Settler, settling[s] # Idle
    PROVE  /\ settling[s].upTo \in Time /\ settling[s].sharp \in BOOLEAN
           /\ settling[s].votes \in SUBSET Time
BY DEF TypeOK, Settlement

LEMMA ReturnFields ==
    ASSUME NEW r \in Return, r # Null
    PROVE  r.of \in Time /\ r.bar \in Time
BY DEF Return

(* A settlement that ends takes what it had listed with it. *)
LEMMA SettlementEnds ==
    ASSUME TypeOK, NEW s \in Settler, settling' = [settling EXCEPT ![s] = Idle]
    PROVE  /\ settling' \in [Settler -> Settlement]
           /\ \A t \in Settler : settling'[t] # Idle => settling'[t] = settling[t]
BY DEF TypeOK, Settlement

LEMMA InitIInv == Init => IInv
<1> SUFFICES ASSUME Init PROVE IInv
    OBVIOUS
<1>1. Kept(table) = {}
    BY DEF Init, Kept
<1>2. TypeOK
    BY <1>1, FS_EmptySet, LedgerAssumption DEF Init, TypeOK, Time, Rows, Settlement
<1>3. OfThePast /\ ListedIsRowOrOlder
    BY <1>1 DEF Init, OfThePast, ListedIsRowOrOlder
<1>4. MeasuredAtItsHorizon
    BY <1>1 DEF MeasuredAtItsHorizon
<1> QED
    BY <1>2, <1>3, <1>4 DEF IInv

LEMMA TickKeeps == IInv /\ Tick => IInv'
<1> SUFFICES ASSUME IInv, Tick PROVE IInv'
    OBVIOUS
<1>1. now \in Nat /\ now' = now + 1 /\ now' \in Time
    BY LedgerAssumption DEF IInv, TypeOK, Tick, Time
<1>2. waiting' = waiting /\ table' = table /\ settling' = settling
    BY DEF Tick
<1>3. TypeOK'
    BY <1>1, <1>2 DEF IInv, TypeOK, Kept
<1>4. OfThePast'
    <2>1. \A n \in Time : (n <= now => n <= now') /\ (n < now => n < now')
        BY <1>1 DEF Time
    <2>2. \A v \in waiting : v <= now'
        BY <2>1 DEF IInv, TypeOK, OfThePast
    <2>3. ASSUME NEW k \in Kept(table)
          PROVE  /\ table[k].at <= now' /\ table[k].written <= now'
                 /\ \A h \in Horizon :
                        table[k].returns[h] # Null => table[k].returns[h].bar < now'
        <3>1. table[k] \in [at : Time, written : Time, returns : [Horizon -> Return]]
            BY RowFields DEF IInv
        <3>2. \A h \in Horizon : table[k].returns[h] # Null =>
                    table[k].returns[h].bar \in Time
            BY <3>1, ReturnFields
        <3> QED
            BY <2>1, <3>1, <3>2 DEF IInv, OfThePast
    <2>4. ASSUME NEW s \in Settler, settling[s] # Idle
          PROVE  settling[s].upTo < now' /\ \A v \in settling[s].votes : v <= now'
        <3>1. settling[s].upTo \in Time /\ settling[s].votes \in SUBSET Time
            BY <2>4, SettlementFields DEF IInv
        <3> QED
            BY <2>1, <2>4, <3>1 DEF IInv, OfThePast
    <2> QED
        BY <1>2, <2>2, <2>3, <2>4 DEF OfThePast, Kept
<1>5. ListedIsRowOrOlder' /\ MeasuredAtItsHorizon'
    BY <1>2 DEF IInv, ListedIsRowOrOlder, MeasuredAtItsHorizon, Newer, Kept
<1> QED
    BY <1>3, <1>4, <1>5 DEF IInv

LEMMA VoteKeeps == IInv /\ Vote => IInv'
<1> SUFFICES ASSUME IInv, Vote PROVE IInv'
    OBVIOUS
<1>1. /\ now' = now /\ table' = table /\ settling' = settling
      /\ waiting' = waiting \cup {now} /\ now \in Nat
    BY LedgerAssumption DEF IInv, TypeOK, Vote, Time
<1>2. TypeOK'
    BY <1>1 DEF IInv, TypeOK, Kept
<1>3. OfThePast'
    BY <1>1 DEF IInv, OfThePast, Kept
<1>4. ListedIsRowOrOlder' /\ MeasuredAtItsHorizon'
    BY <1>1 DEF IInv, ListedIsRowOrOlder, MeasuredAtItsHorizon, Newer, Kept
<1> QED
    BY <1>2, <1>3, <1>4 DEF IInv

LEMMA LoseKeeps == ASSUME NEW vote \in Time PROVE IInv /\ Lose(vote) => IInv'
<1> SUFFICES ASSUME IInv, Lose(vote) PROVE IInv'
    OBVIOUS
<1>1. /\ now' = now /\ table' = table /\ settling' = settling
      /\ waiting' = waiting \ {vote}
    BY DEF Lose
<1>2. TypeOK'
    BY <1>1 DEF IInv, TypeOK, Kept
<1>3. OfThePast'
    BY <1>1 DEF IInv, OfThePast, Kept
<1>4. ListedIsRowOrOlder' /\ MeasuredAtItsHorizon'
    BY <1>1 DEF IInv, ListedIsRowOrOlder, MeasuredAtItsHorizon, Newer, Kept
<1> QED
    BY <1>2, <1>3, <1>4 DEF IInv

(* What the transaction of a vote leaves in the table: rows it does not write
   stay as they were, and the row it writes is the newer of the two votes. *)
LEMMA RecordWrites ==
    ASSUME IInv, NEW vote \in Time, Record(vote)
    PROVE  LET k == BucketOf(vote) IN
           /\ vote <= now /\ k \in Bucket
           /\ table' \in [Bucket -> Rows]
           /\ Cardinality(Kept(table')) <= MaxEntries
           /\ Kept(table') \subseteq Kept(table) \cup {k}
           /\ \A l \in Bucket :
                 \/ Cardinality(Newer(table, l)) >= MaxEntries
                 \/ l \in Kept(table) \cup {k} /\ l \notin Kept(table')
                 => Cardinality(Newer(table', l)) >= MaxEntries
           /\ \A l \in Kept(table') :
                 \/ l \in Kept(table) /\ table'[l] = table[l]
                 \/ /\ l = k /\ l \notin Kept(table)
                    /\ table'[l] = [at |-> vote, written |-> now, returns |-> Unmeasured]
                 \/ /\ l = k /\ l \in Kept(table) /\ vote > table[l].at
                    /\ table'[l].at = vote /\ table'[l].written = now
                    /\ table'[l].returns = table[l].returns
<1> DEFINE k == BucketOf(vote)
           put == Upsert(table, vote, now)
<1>1. vote <= now
    BY DEF IInv, OfThePast, Record
<1>2. table \in [Bucket -> Rows] /\ now \in Time
    BY DEF IInv, TypeOK
<1>3. /\ put \in [Bucket -> Rows] /\ k \in Bucket
      /\ Kept(put) = Kept(table) \cup {k}
      /\ \A l \in Bucket \ {k} : put[l] = table[l]
      /\ k \notin Kept(table) =>
            put[k] = [at |-> vote, written |-> now, returns |-> Unmeasured]
      /\ k \in Kept(table) =>
            /\ put[k].returns = table[k].returns
            /\ IF vote > table[k].at
               THEN put[k].at = vote /\ put[k].written = now
               ELSE put[k] = table[k]
    BY <1>2, UpsertPutsNewer
<1>4. table' = Trim(put)
    BY DEF Record
<1> HIDE DEF k, put
<1>5. /\ Kept(table') \subseteq Kept(put)
      /\ \A l \in Kept(table') : table'[l] = put[l]
      /\ \A l \in Bucket : table'[l] \in {put[l], Empty}
      /\ Cardinality(Kept(table')) <= MaxEntries
      /\ \A l \in Bucket : Cardinality(Newer(put, l)) >= MaxEntries
                               => Cardinality(Newer(table', l)) >= MaxEntries
      /\ \A l \in Kept(put) : l \notin Kept(table')
                               => Cardinality(Newer(table', l)) >= MaxEntries
    BY <1>4, TrimKeepsNewest
<1>6. table' \in [Bucket -> Rows]
    <2>1. Empty \in Rows
        BY DEF Rows
    <2>2. table' = [l \in Bucket |-> table'[l]]
        BY <1>4 DEF Trim
    <2>3. \A l \in Bucket : table'[l] \in Rows
        BY <1>3, <1>5, <2>1
    <2> QED
        BY <2>2, <2>3
<1>7. ASSUME NEW l \in Bucket, Cardinality(Newer(table, l)) >= MaxEntries
      PROVE  Cardinality(Newer(table', l)) >= MaxEntries
    <2>1. /\ IsFiniteSet(Newer(put, l)) /\ Cardinality(Newer(put, l)) \in Nat
          /\ Cardinality(Newer(table, l)) \in Nat
        BY KeptIsFinite
    <2>2. Newer(table, l) \in SUBSET Newer(put, l)
        BY <1>3 DEF Newer
    <2>3. Cardinality(Newer(table, l)) <= Cardinality(Newer(put, l))
        BY <2>1, <2>2, FS_Subset
    <2> QED
        BY <1>5, <1>7, <2>1, <2>3, LedgerAssumption
<1>8. ASSUME NEW l \in Kept(table')
      PROVE  \/ l \in Kept(table) /\ table'[l] = table[l]
             \/ /\ l = k /\ l \notin Kept(table)
                /\ table'[l] = [at |-> vote, written |-> now, returns |-> Unmeasured]
             \/ /\ l = k /\ l \in Kept(table) /\ vote > table[l].at
                /\ table'[l].at = vote /\ table'[l].written = now
                /\ table'[l].returns = table[l].returns
    <2>1. l \in Bucket /\ table'[l] = put[l]
        BY <1>5 DEF Kept
    <2> QED
        BY <1>3, <1>5, <2>1
<1> QED
    BY <1>1, <1>3, <1>5, <1>6, <1>7, <1>8 DEF k

LEMMA RecordKeeps == ASSUME NEW vote \in Time PROVE IInv /\ Record(vote) => IInv'
<1> SUFFICES ASSUME IInv, Record(vote) PROVE IInv'
    OBVIOUS
<1> DEFINE k == BucketOf(vote)
<1>1. /\ vote <= now /\ k \in Bucket
      /\ table' \in [Bucket -> Rows]
      /\ Cardinality(Kept(table')) <= MaxEntries
      /\ Kept(table') \subseteq Kept(table) \cup {k}
      /\ \A l \in Bucket :
            \/ Cardinality(Newer(table, l)) >= MaxEntries
            \/ l \in Kept(table) \cup {k} /\ l \notin Kept(table')
            => Cardinality(Newer(table', l)) >= MaxEntries
      /\ \A l \in Kept(table') :
            \/ l \in Kept(table) /\ table'[l] = table[l]
            \/ /\ l = k /\ l \notin Kept(table)
               /\ table'[l] = [at |-> vote, written |-> now, returns |-> Unmeasured]
            \/ /\ l = k /\ l \in Kept(table) /\ vote > table[l].at
               /\ table'[l].at = vote /\ table'[l].written = now
               /\ table'[l].returns = table[l].returns
    BY RecordWrites
<1>2. now' = now /\ settling' = settling /\ waiting' = waiting \ {vote} /\ now \in Time
    BY DEF IInv, TypeOK, Record
<1>3. now \in Nat /\ vote \in Nat /\ Time \subseteq Nat
    BY <1>2 DEF Time
<1>4. TypeOK'
    <2>1. ASSUME NEW l \in Kept(table') PROVE BucketOf(table'[l].at) = l
        BY <1>1, RowFields DEF IInv
    <2> QED
        BY <1>1, <1>2, <2>1 DEF IInv, TypeOK
<1>5. OfThePast'
    <2>1. ASSUME NEW l \in Kept(table')
          PROVE  /\ table'[l].at <= now /\ table'[l].written <= now
                 /\ \A h \in Horizon : table'[l].returns[h] # Null
                        => table'[l].returns[h].bar < now
        <3>1. CASE l \in Kept(table) /\ table'[l] = table[l]
            BY <3>1 DEF IInv, OfThePast
        <3>2. CASE table'[l] = [at |-> vote, written |-> now, returns |-> Unmeasured]
            BY <1>1, <1>3, <3>2 DEF Unmeasured
        <3>3. CASE /\ l \in Kept(table)
                   /\ table'[l].at = vote /\ table'[l].written = now
                   /\ table'[l].returns = table[l].returns
            BY <1>1, <1>3, <3>3 DEF IInv, OfThePast
        <3> QED
            BY <1>1, <3>1, <3>2, <3>3
    <2> QED
        BY <1>2, <2>1 DEF IInv, OfThePast
<1>6. ListedIsRowOrOlder'
    <2> SUFFICES ASSUME NEW s \in Settler, settling[s] # Idle, NEW v \in settling[s].votes
                 PROVE  LET l == BucketOf(v) IN
                        /\ l \notin Kept(table') => Cardinality(Newer(table', l)) >= MaxEntries
                        /\ l \in Kept(table') /\ table'[l].at # v =>
                              v < table'[l].at /\ table'[l].written > settling[s].upTo
        BY <1>2 DEF ListedIsRowOrOlder
    <2> DEFINE l == BucketOf(v)
    <2>1. /\ v \in Time /\ l \in Bucket /\ v <= now
          /\ settling[s].upTo \in Time /\ settling[s].upTo < now
        BY SettlementFields, BucketOfTime DEF IInv, OfThePast
    <2>2. /\ l \notin Kept(table) => Cardinality(Newer(table, l)) >= MaxEntries
          /\ l \in Kept(table) /\ table[l].at # v =>
                v < table[l].at /\ table[l].written > settling[s].upTo
        BY DEF IInv, ListedIsRowOrOlder
    <2> HIDE DEF l, k
    <2>3. l \notin Kept(table') => Cardinality(Newer(table', l)) >= MaxEntries
        BY <1>1, <2>1, <2>2
    <2>4. ASSUME l \in Kept(table'), table'[l].at # v
          PROVE  v < table'[l].at /\ table'[l].written > settling[s].upTo
        <3>1. CASE l \in Kept(table) /\ table'[l] = table[l]
            BY <2>2, <2>4, <3>1
        <3>2. CASE l \notin Kept(table)
            \* It cannot come back: there are newer hours enough.
            <4>1. Cardinality(Newer(table, l)) >= MaxEntries
                BY <2>2, <3>2
            <4>2. Cardinality(Newer(table', l)) >= MaxEntries
                BY <1>1, <2>1, <4>1
            <4>3. /\ Newer(table', l) \cup {l} \in SUBSET Kept(table')
                  /\ l \notin Newer(table', l)
                BY <2>1, <2>4, LedgerAssumption DEF Newer, Bucket
            <4>4. /\ IsFiniteSet(Kept(table')) /\ Cardinality(Kept(table')) \in Nat
                  /\ IsFiniteSet(Newer(table', l)) /\ Cardinality(Newer(table', l)) \in Nat
                BY <2>1, KeptIsFinite
            <4>5. Cardinality(Newer(table', l) \cup {l}) = Cardinality(Newer(table', l)) + 1
                BY <4>3, <4>4, FS_AddElement
            <4>6. Cardinality(Newer(table', l) \cup {l}) <= Cardinality(Kept(table'))
                BY <4>3, <4>4, FS_Subset
            <4> QED
                BY <1>1, <4>2, <4>4, <4>5, <4>6, LedgerAssumption
        <3>3. CASE /\ l \in Kept(table) /\ vote > table[l].at
                   /\ table'[l].at = vote /\ table'[l].written = now
            <4>1. table[l].at \in Nat /\ v \in Nat /\ settling[s].upTo \in Nat
                BY <1>3, <2>1, <3>3, RowFields DEF IInv
            <4>2. v = table[l].at \/ v < table[l].at
                BY <2>2, <3>3
            <4>3. v < vote
                BY <1>3, <3>3, <4>1, <4>2
            <4> QED
                BY <2>1, <3>3, <4>3
        <3> QED
            BY <1>1, <2>4, <3>1, <3>2, <3>3
    <2> QED
        BY <2>3, <2>4 DEF l
<1>7. MeasuredAtItsHorizon'
    <2> SUFFICES ASSUME NEW l \in Kept(table'), NEW h \in Horizon,
                        table'[l].returns[h] # Null
                 PROVE  LET return == table'[l].returns[h] IN
                        /\ BucketOf(return.of) = l
                        /\ return.bar = return.of + h * Hour
                        /\ return.of # table'[l].at =>
                              return.of < table'[l].at /\ table'[l].written > return.bar
        BY DEF MeasuredAtItsHorizon
    <2>1. CASE l \in Kept(table) /\ table'[l] = table[l]
        BY <2>1 DEF IInv, MeasuredAtItsHorizon
    <2>2. CASE table'[l] = [at |-> vote, written |-> now, returns |-> Unmeasured]
        BY <2>2 DEF Unmeasured
    <2>3. CASE /\ l \in Kept(table) /\ vote > table[l].at
               /\ table'[l].at = vote /\ table'[l].written = now
               /\ table'[l].returns = table[l].returns
        <3> DEFINE return == table[l].returns[h]
        <3>1. /\ BucketOf(return.of) = l /\ return.bar = return.of + h * Hour
              /\ return.of # table[l].at => return.of < table[l].at
            BY <2>3 DEF IInv, MeasuredAtItsHorizon
        <3>2. return.bar < now
            BY <2>3 DEF IInv, OfThePast
        <3>3. table[l] \in [at : Time, written : Time, returns : [Horizon -> Return]]
            BY <2>3, RowFields DEF IInv
        <3>4. return.of \in Nat /\ return.bar \in Nat /\ table[l].at \in Nat
            BY <1>3, <2>3, <3>3, ReturnFields
        <3>5. return.of = table[l].at \/ return.of < table[l].at
            BY <3>1
        <3>6. return.of < vote
            BY <1>3, <2>3, <3>4, <3>5
        <3>7. table'[l].returns[h] = return
            BY <2>3
        <3> HIDE DEF return
        <3> QED
            BY <2>3, <3>1, <3>2, <3>6, <3>7
    <2> QED
        BY <1>1, <2>1, <2>2, <2>3
<1> QED
    BY <1>4, <1>5, <1>6, <1>7 DEF IInv

LEMMA ListsKeeps == ASSUME NEW s \in Settler PROVE IInv /\ SettleLists(s) => IInv'
<1> SUFFICES ASSUME IInv, SettleLists(s) PROVE IInv'
    OBVIOUS
<1> DEFINE unsettled == {table[k].at : k \in {l \in Kept(table) :
                                                \E h \in Horizon : Pending(l, h)}}
<1>1. PICK c \in Time, sharp \in BOOLEAN :
         /\ c < now
         /\ settling' = [settling EXCEPT ![s] =
               [at |-> "listed", upTo |-> c, sharp |-> sharp, votes |-> unsettled]]
    BY DEF SettleLists
<1>2. now' = now /\ waiting' = waiting /\ table' = table
    BY DEF SettleLists
<1>3. \A v \in unsettled : v \in Time /\ v <= now
                           /\ \E k \in Kept(table) : v = table[k].at /\ BucketOf(v) = k
    BY RowFields DEF IInv, OfThePast
<1> HIDE DEF unsettled
<1>4. /\ settling' \in [Settler -> Settlement]
      /\ settling'[s] = [at |-> "listed", upTo |-> c, sharp |-> sharp, votes |-> unsettled]
      /\ \A t \in Settler \ {s} : settling'[t] = settling[t]
    BY <1>1, <1>3 DEF IInv, TypeOK, Settlement
<1>5. TypeOK'
    BY <1>2, <1>4 DEF IInv, TypeOK, Kept
<1>6. OfThePast'
    <2>1. \A t \in Settler : settling'[t] # Idle =>
              settling'[t].upTo < now /\ \A v \in settling'[t].votes : v <= now
        BY <1>1, <1>3, <1>4 DEF IInv, OfThePast
    <2> QED
        BY <1>2, <2>1 DEF IInv, OfThePast, Kept
<1>7. ListedIsRowOrOlder'
    <2> SUFFICES ASSUME NEW t \in Settler, settling'[t] # Idle, NEW v \in settling'[t].votes
                 PROVE  LET l == BucketOf(v) IN
                        /\ l \notin Kept(table) => Cardinality(Newer(table, l)) >= MaxEntries
                        /\ l \in Kept(table) /\ table[l].at # v =>
                              v < table[l].at /\ table[l].written > settling'[t].upTo
        BY <1>2 DEF ListedIsRowOrOlder, Kept, Newer
    <2>1. CASE t = s
        BY <1>3, <1>4, <2>1
    <2>2. CASE t # s
        BY <1>4, <2>2 DEF IInv, ListedIsRowOrOlder
    <2> QED
        BY <2>1, <2>2
<1>8. MeasuredAtItsHorizon'
    BY <1>2 DEF IInv, MeasuredAtItsHorizon, Kept
<1> QED
    BY <1>5, <1>6, <1>7, <1>8 DEF IInv

LEMMA FailsKeeps == ASSUME NEW s \in Settler PROVE IInv /\ SettleFails(s) => IInv'
<1> SUFFICES ASSUME IInv, SettleFails(s) PROVE IInv'
    OBVIOUS
<1>1. now' = now /\ waiting' = waiting /\ table' = table
    BY DEF SettleFails
<1>2. /\ settling' \in [Settler -> Settlement]
      /\ \A t \in Settler : settling'[t] # Idle => settling'[t] = settling[t]
    BY SettlementEnds DEF IInv, SettleFails
<1>3. TypeOK'
    BY <1>1, <1>2 DEF IInv, TypeOK, Kept
<1>4. OfThePast'
    BY <1>1, <1>2 DEF IInv, OfThePast, Kept
<1>5. ListedIsRowOrOlder'
    BY <1>1, <1>2 DEF IInv, ListedIsRowOrOlder, Kept, Newer
<1>6. MeasuredAtItsHorizon'
    BY <1>1 DEF IInv, MeasuredAtItsHorizon, Kept
<1> QED
    BY <1>3, <1>4, <1>5, <1>6 DEF IInv

LEMMA WritesKeeps == ASSUME NEW s \in Settler PROVE IInv /\ SettleWrites(s) => IInv'
<1> SUFFICES ASSUME IInv, SettleWrites(s) PROVE IInv'
    OBVIOUS
<1> DEFINE c == settling[s].upTo
           votes == settling[s].votes
<1>1. /\ c \in Time /\ c < now /\ votes \in SUBSET Time
      /\ settling[s].sharp \in BOOLEAN
    BY SettlementFields DEF IInv, OfThePast, SettleWrites
<1>2. now' = now /\ waiting' = waiting /\ now \in Nat /\ Time \subseteq Nat
    BY DEF IInv, TypeOK, SettleWrites, Time
<1>3. /\ settling' \in [Settler -> Settlement]
      /\ \A t \in Settler : settling'[t] # Idle => settling'[t] = settling[t]
    BY SettlementEnds DEF IInv, SettleWrites
<1>4. /\ table' \in [Bucket -> Rows]
      /\ Kept(table') = Kept(table)
      /\ \A k \in Kept(table) :
           /\ table'[k].at = table[k].at /\ table'[k].written = table[k].written
           /\ \A h \in Horizon :
                \/ table'[k].returns[h] = table[k].returns[h]
                \/ /\ table[k].returns[h] = Null
                   /\ \E v \in votes :
                         /\ BucketOf(v) = k
                         /\ v + h * Hour \in Time /\ v + h * Hour <= c
                         /\ table'[k].returns[h] = [of |-> v, bar |-> v + h * Hour]
    <2>1. table \in [Bucket -> Rows]
        BY DEF IInv, TypeOK
    <2>2. table' = Settled(table, c, settling[s].sharp, votes)
        BY DEF SettleWrites
    <2> HIDE DEF c, votes
    <2> QED
        BY <1>1, <2>1, <2>2, SettledAdds
<1>5. \A k : Newer(table', k) = Newer(table, k)
    BY <1>4 DEF Newer
<1>6. TypeOK'
    BY <1>2, <1>3, <1>4 DEF IInv, TypeOK
<1>7. OfThePast'
    <2>1. ASSUME NEW k \in Kept(table), NEW h \in Horizon, table'[k].returns[h] # Null
          PROVE  table'[k].returns[h].bar < now
        <3>1. CASE table'[k].returns[h] = table[k].returns[h]
            BY <2>1, <3>1 DEF IInv, OfThePast
        <3>2. CASE \E v \in votes : /\ v + h * Hour \in Time /\ v + h * Hour <= c
                                    /\ table'[k].returns[h] = [of |-> v, bar |-> v + h * Hour]
            <4> PICK v \in votes : /\ v + h * Hour \in Time /\ v + h * Hour <= c
                                    /\ table'[k].returns[h] = [of |-> v, bar |-> v + h * Hour]
                BY <3>2
            <4>0. PICK b \in Nat : b = v + h * Hour /\ b <= c
                BY <1>2
            <4>1. table'[k].returns[h].bar = b
                BY <4>0
            <4>2. c \in Nat /\ c < now
                BY <1>1, <1>2
            <4> HIDE DEF c
            <4>3. b < now
                BY <1>2, <4>0, <4>2
            <4> QED
                BY <4>1, <4>3
        <3> QED
            BY <1>4, <3>1, <3>2
    <2>2. \A k \in Kept(table) : table'[k].at <= now /\ table'[k].written <= now
        BY <1>4 DEF IInv, OfThePast
    <2> HIDE DEF c, votes
    <2> QED
        BY <1>2, <1>3, <1>4, <2>1, <2>2 DEF IInv, OfThePast
<1>8. ListedIsRowOrOlder'
    BY <1>3, <1>4, <1>5 DEF IInv, ListedIsRowOrOlder
<1>9. MeasuredAtItsHorizon'
    <2> SUFFICES ASSUME NEW k \in Kept(table), NEW h \in Horizon,
                        table'[k].returns[h] # Null
                 PROVE  LET return == table'[k].returns[h] IN
                        /\ BucketOf(return.of) = k
                        /\ return.bar = return.of + h * Hour
                        /\ return.of # table'[k].at =>
                              return.of < table'[k].at /\ table'[k].written > return.bar
        BY <1>4 DEF MeasuredAtItsHorizon
    <2>1. CASE table'[k].returns[h] = table[k].returns[h]
        BY <1>4, <2>1 DEF IInv, MeasuredAtItsHorizon
    <2>2. CASE \E v \in votes :
                  /\ BucketOf(v) = k
                  /\ v + h * Hour \in Time /\ v + h * Hour <= c
                  /\ table'[k].returns[h] = [of |-> v, bar |-> v + h * Hour]
        <3>1. PICK v \in votes :
                  /\ BucketOf(v) = k
                  /\ v + h * Hour \in Time /\ v + h * Hour <= c
                  /\ table'[k].returns[h] = [of |-> v, bar |-> v + h * Hour]
            BY <2>2
        <3>2. table[k].at # v => v < table[k].at /\ table[k].written > c
            BY <3>1 DEF IInv, ListedIsRowOrOlder, SettleWrites
        <3>3. table[k].written \in Nat
            BY <1>2, RowFields DEF IInv
        <3>4. PICK bar \in Nat : bar = v + h * Hour /\ bar <= c
            BY <1>2, <3>1
        <3>5. table[k].at # v => table[k].written > bar
            <4>1. c \in Nat
                BY <1>1, <1>2
            <4> HIDE DEF c
            <4> QED
                BY <3>2, <3>3, <3>4, <4>1
        <3> QED
            BY <1>4, <3>1, <3>2, <3>4, <3>5
    <2> QED
        BY <1>4, <2>1, <2>2
<1> QED
    BY <1>6, <1>7, <1>8, <1>9 DEF IInv

LEMMA NextIInv == IInv /\ [Next]_vars => IInv'
<1> SUFFICES ASSUME IInv, [Next]_vars PROVE IInv'
    OBVIOUS
<1>1. CASE UNCHANGED vars
    BY <1>1 DEF vars, IInv, TypeOK, OfThePast, ListedIsRowOrOlder, MeasuredAtItsHorizon,
        Kept, Newer
<1>2. CASE Next
    BY <1>2, TickKeeps, VoteKeeps, RecordKeeps, LoseKeeps, ListsKeeps, WritesKeeps, FailsKeeps
    DEF Next
<1> QED
    BY <1>1, <1>2

(* Whatever the votes, transactions, settlements and losses, and in whatever
   order they come: the conjuncts above hold together. *)
THEOREM InductiveInvariant == Spec => []IInv
<1>1. Init => IInv
    BY InitIInv
<1>2. IInv /\ [Next]_vars => IInv'
    BY NextIInv
<1> QED
    BY <1>1, <1>2, PTL DEF Spec

(* The table has at most historyConfig.maxEntries hours and every row is of its
   own hour. *)
THEOREM TypeCorrect == Spec => []TypeOK
<1>1. IInv => TypeOK
    BY DEF IInv
<1> QED
    BY <1>1, InductiveInvariant, PTL

(* A forward return is measured from a vote of its hour to the bar that vote's
   horizon opens at, and it is the vote of the row unless the row's came after
   that bar. *)
THEOREM ReturnsFitTheirRows == Spec => []MeasuredAtItsHorizon
<1>1. IInv => MeasuredAtItsHorizon
    BY DEF IInv
<1> QED
    BY <1>1, InductiveInvariant, PTL

(* No step takes a row back to an older vote or changes a return it has. *)
THEOREM RowsOnlyGoForward == Spec => LedgerKeepsItsWord
<1> DEFINE Step == \A k \in Kept(table) \cap Kept(table') :
                      /\ table'[k].at >= table[k].at
                      /\ \A h \in Horizon :
                            table[k].returns[h] # Null
                                => table'[k].returns[h] = table[k].returns[h]
<1>1. IInv /\ [Next]_vars => Step
    <2> SUFFICES ASSUME IInv, [Next]_vars, NEW k \in Kept(table), k \in Kept(table')
                 PROVE  /\ table'[k].at >= table[k].at
                        /\ \A h \in Horizon :
                              table[k].returns[h] # Null
                                => table'[k].returns[h] = table[k].returns[h]
        OBVIOUS
    <2>1. table[k].at \in Nat
        BY RowFields DEF IInv, Time
    <2>2. CASE table' = table
        BY <2>1, <2>2
    <2>3. ASSUME NEW vote \in Time, Record(vote)
          PROVE  /\ table'[k].at >= table[k].at
                 /\ table'[k].returns = table[k].returns
        <3>1. \/ table'[k] = table[k]
              \/ /\ vote > table[k].at /\ table'[k].at = vote
                 /\ table'[k].returns = table[k].returns
            BY <2>3, RecordWrites
        <3> QED
            BY <2>1, <3>1 DEF Time
    <2>4. ASSUME NEW s \in Settler, SettleWrites(s)
          PROVE  /\ table'[k].at = table[k].at
                 /\ \A h \in Horizon :
                       table[k].returns[h] # Null
                         => table'[k].returns[h] = table[k].returns[h]
        <3>1. /\ settling[s].upTo \in Time /\ settling[s].sharp \in BOOLEAN
              /\ settling[s].votes \in SUBSET Time
            BY <2>4, SettlementFields DEF IInv, SettleWrites
        <3>2. table \in [Bucket -> Rows]
            BY DEF IInv, TypeOK
        <3>3. table' = Settled(table, settling[s].upTo, settling[s].sharp, settling[s].votes)
            BY <2>4 DEF SettleWrites
        <3> QED
            BY <3>1, <3>2, <3>3, SettledAdds
    <2> QED
        BY <2>1, <2>2, <2>3, <2>4
        DEF Next, vars, Tick, Vote, Lose, SettleLists, SettleFails
<1>2. [Next]_vars /\ IInv => [Step]_vars
    BY <1>1
<1> QED
    BY <1>2, InductiveInvariant, PTL DEF Spec, LedgerKeepsItsWord

===============================================================================
