------------------------- MODULE HistoryBacklogProofs -------------------------
(* Theorems about HistoryBacklog, for any entries, hours, poison and ceilings. *)
EXTENDS HistoryBacklog, SequenceTheorems, FiniteSetTheorems, TLAPS

Once(q) == \A i, j \in DOMAIN q : q[i] = q[j] => i = j
OnceInFile(read) ==
    \A i, j \in DOMAIN read : read[i] = read[j] /\ read[i] # Torn => i = j

(***************************************************************************)
(* The inductive invariant, by the parts of the backlog.                   *)
(***************************************************************************)

DatabaseOK ==
    /\ up \in BOOLEAN /\ outages \in 0..MaxOutages
    /\ row \in [Bucket -> 0..MaxEntry] /\ accepted \subseteq Entry
    /\ RowIsNewestAccepted

QueueOK == queue \in Seq(Entry) /\ Once(queue) /\ Range(queue) \subseteq 1..offered

(* Of an interrupted append there is a trace; the other lines are of entries
   that were offered, each once. *)
FileOK ==
    /\ lines \in Seq(Entry \cup {Torn}) /\ bytes \in Nat
    /\ fragment \in BOOLEAN /\ dirty \in BOOLEAN /\ tore \in BOOLEAN
    /\ diskFaults \in 0..MaxDiskFaults
    /\ OnceInFile(lines) /\ Range(lines) \subseteq 1..offered \cup {Torn}
    /\ fragment => tore
    /\ SpooledSurvives

BufferOK ==
    /\ buffer \in Seq(Entry) /\ Len(buffer) <= MaxBuffered
    /\ Once(buffer) /\ Range(buffer) \subseteq 1..offered

(* The drain awaits the database for the entry at the head of its lane, unless
   an append has taken that away; what it took out of the buffer, it holds in
   the lane of the memory only. *)
DrainOK ==
    /\ flush \in {"idle", "due", "spool", "memory"}
    /\ writing \in 0..MaxEntry /\ failures \in 0..1
    /\ pending \in Seq(Entry) /\ Once(pending) /\ Range(pending) \subseteq 1..offered
    /\ flush = "spool" =>
          writing \in Entry /\ (undercut \/ (queue # << >> /\ writing = Head(queue)))
    /\ IF flush = "memory" THEN pending # << >> /\ writing = Head(pending)
                           ELSE pending = << >>

CountsOK ==
    /\ offered \in 0..MaxEntry /\ crashes \in 0..MaxCrashes
    /\ tries \in [Entry -> 0..MaxAttempts - 1]
    /\ forgone \subseteq Entry /\ undercut \in BOOLEAN

Apart ==
    /\ Range(queue) \cap (Range(buffer) \cup Range(pending)) = {}
    /\ Range(buffer) \cap Range(pending) = {}

AllAccounted == undercut \/ tore \/ 1..offered \subseteq accepted \cup Held \cup forgone

IInv ==
    /\ DatabaseOK
    /\ QueueOK
    /\ FileOK
    /\ BufferOK
    /\ DrainOK
    /\ CountsOK
    /\ Apart
    /\ AllAccounted

(***************************************************************************)
(* Lemmas about the queues: what is in them, and that it is there once.    *)
(***************************************************************************)

LEMMA EmptyHoldsNothing ==
    /\ << >> \in Seq(Entry) /\ Range(<< >>) = {} /\ Once(<< >>)
    /\ \A q : q \in Seq(Entry) /\ q # << >> => Range(q) # {}
<1>1. << >> \in Seq(Entry) /\ DOMAIN << >> = {}
    OBVIOUS
<1>2. ASSUME NEW q \in Seq(Entry), q # << >> PROVE Range(q) # {}
    <2>1. Len(q) \in Nat /\ Len(q) # 0 /\ DOMAIN q = 1..Len(q)
        BY <1>2, EmptySeq, LenProperties
    <2>2. 1 \in DOMAIN q
        BY <2>1
    <2> QED
        BY <2>2 DEF Range
<1> QED
    BY <1>1, <1>2 DEF Range, Once

LEMMA AppendAdds ==
    ASSUME NEW S, NEW q \in Seq(S), NEW e \in S
    PROVE  /\ Append(q, e) \in Seq(S) /\ Append(q, e) # << >>
           /\ Range(Append(q, e)) = Range(q) \cup {e}
           /\ Once(q) /\ e \notin Range(q) => Once(Append(q, e))
           /\ q # << >> => Head(Append(q, e)) = Head(q)
<1> DEFINE n == Len(q)
           r == Append(q, e)
<1>1. /\ r \in Seq(S) /\ r # << >> /\ Len(r) = n + 1
      /\ \A i \in 1..n : r[i] = q[i]
      /\ r[n + 1] = e
    BY AppendProperties
<1>2. n \in Nat /\ DOMAIN q = 1..n /\ DOMAIN r = 1..(n + 1)
    BY <1>1, LenProperties
<1>3. q # << >> => Head(r) = Head(q)
    BY HeadTailAppend
<1> HIDE DEF n, r
<1>4. Range(r) = Range(q) \cup {e}
    <2>1. \A i \in 1..n + 1 : i \in 1..n \/ i = n + 1
        BY <1>2
    <2>2. 1..n \subseteq 1..n + 1 /\ n + 1 \in 1..n + 1
        BY <1>2
    <2> QED
        BY <1>1, <1>2, <2>1, <2>2 DEF Range
<1>5. ASSUME Once(q), e \notin Range(q) PROVE Once(r)
    <2> SUFFICES ASSUME NEW i \in 1..n + 1, NEW j \in 1..n + 1, r[i] = r[j] PROVE i = j
        BY <1>2 DEF Once
    <2>1. \A k \in 1..n + 1 : k \in 1..n \/ k = n + 1
        BY <1>2
    <2>2. \A k \in 1..n : r[k] # e
        BY <1>1, <1>2, <1>5 DEF Range
    <2> QED
        BY <1>1, <1>2, <1>5, <2>1, <2>2 DEF Once
<1> QED
    BY <1>1, <1>3, <1>4, <1>5 DEF r

LEMMA TailTakes ==
    ASSUME NEW S, NEW q \in Seq(S), q # << >>
    PROVE  /\ Tail(q) \in Seq(S) /\ Head(q) \in S /\ Head(q) \in Range(q)
           /\ Range(q) = Range(Tail(q)) \cup {Head(q)}
           /\ Once(q) => Once(Tail(q)) /\ Head(q) \notin Range(Tail(q))
<1> DEFINE n == Len(q)
           r == Tail(q)
<1>1. /\ r \in Seq(S) /\ Head(q) \in S /\ Len(r) = n - 1
      /\ \A i \in 1..Len(r) : r[i] = q[i + 1]
      /\ Head(q) = q[1]
    BY HeadTailProperties
<1>2. n \in Nat /\ n # 0 /\ DOMAIN q = 1..n /\ DOMAIN r = 1..(n - 1)
    BY <1>1, LenProperties, EmptySeq
<1> HIDE DEF n, r
<1>3. \A i \in 1..n : i = 1 \/ i - 1 \in 1..n - 1
    BY <1>2
<1>4. \A i \in 1..n - 1 : i + 1 \in 1..n /\ i + 1 # 1
    BY <1>2
<1>5. 1 \in 1..n
    BY <1>2
<1>6. \A i \in 1..n : i = 1 \/ q[i] = r[i - 1]
    BY <1>1, <1>2, <1>3
<1>7. Range(q) = Range(r) \cup {Head(q)} /\ Head(q) \in Range(q)
    <2>1. Head(q) \in Range(q)
        BY <1>1, <1>2, <1>5 DEF Range
    <2>2. \A i \in 1..n - 1 : r[i] \in Range(q)
        BY <1>1, <1>2, <1>4 DEF Range
    <2>3. \A i \in 1..n : q[i] = Head(q) \/ q[i] \in Range(r)
        BY <1>1, <1>2, <1>3, <1>6 DEF Range
    <2>4. Range(q) = {q[i] : i \in 1..n} /\ Range(r) = {r[i] : i \in 1..n - 1}
        BY <1>2 DEF Range
    <2> QED
        BY <2>1, <2>2, <2>3, <2>4
<1>8. ASSUME Once(q) PROVE Once(r) /\ Head(q) \notin Range(r)
    <2>1. Once(r)
        <3> SUFFICES ASSUME NEW i \in 1..n - 1, NEW j \in 1..n - 1, r[i] = r[j] PROVE i = j
            BY <1>2 DEF Once
        <3>1. q[i + 1] = q[j + 1] /\ i + 1 \in 1..n /\ j + 1 \in 1..n
            BY <1>1, <1>2, <1>4
        <3>2. i + 1 = j + 1
            BY <1>2, <1>8, <3>1 DEF Once
        <3> QED
            BY <3>2
    <2>2. \A i \in 1..n - 1 : r[i] # q[1]
        BY <1>1, <1>2, <1>4, <1>5, <1>8 DEF Once
    <2> QED
        BY <1>1, <1>2, <2>1, <2>2 DEF Range
<1> QED
    BY <1>1, <1>7, <1>8 DEF r

LEMMA RotatedKeeps ==
    ASSUME NEW q \in Seq(Entry)
    PROVE  /\ Rotated(q) \in Seq(Entry) /\ Range(Rotated(q)) = Range(q)
           /\ Once(q) => Once(Rotated(q))
<1>1. CASE q = << >>
    BY <1>1 DEF Rotated
<1>2. CASE q # << >>
    <2>1. Rotated(q) = Append(Tail(q), Head(q))
        BY <1>2 DEF Rotated
    <2>2. /\ Tail(q) \in Seq(Entry) /\ Head(q) \in Entry
          /\ Range(q) = Range(Tail(q)) \cup {Head(q)}
          /\ Once(q) => Once(Tail(q)) /\ Head(q) \notin Range(Tail(q))
        BY <1>2, TailTakes
    <2>3. PICK t \in Seq(Entry), h \in Entry : t = Tail(q) /\ h = Head(q)
        BY <2>2
    <2>4. /\ Append(t, h) \in Seq(Entry) /\ Range(Append(t, h)) = Range(t) \cup {h}
          /\ Once(t) /\ h \notin Range(t) => Once(Append(t, h))
        BY AppendAdds
    <2> QED
        BY <2>1, <2>2, <2>3, <2>4
<1> QED
    BY <1>1, <1>2

LEMMA ShiftedKeeps ==
    ASSUME NEW q \in Seq(Entry)
    PROVE  /\ Shifted(q) \in Seq(Entry) /\ Range(Shifted(q)) \subseteq Range(q)
           /\ Once(q) => Once(Shifted(q))
           /\ q # << >> => Range(q) = Range(Shifted(q)) \cup {Head(q)}
BY TailTakes DEF Shifted

LEMMA CatOnce ==
    ASSUME NEW q \in Seq(Entry), NEW r \in Seq(Entry),
           Once(q), Once(r), Range(q) \cap Range(r) = {}
    PROVE  Once(q \o r)
<1> DEFINE m == Len(q)
           n == Len(r)
           both == q \o r
<1>1. /\ both \in Seq(Entry) /\ Len(both) = m + n
      /\ \A i \in 1..m + n : both[i] = IF i <= m THEN q[i] ELSE r[i - m]
    BY ConcatProperties
<1>2. m \in Nat /\ n \in Nat /\ DOMAIN q = 1..m /\ DOMAIN r = 1..n /\ DOMAIN both = 1..m + n
    BY <1>1, LenProperties
<1> HIDE DEF m, n, both
<1>3. \A i \in 1..m + n : /\ i <= m => i \in 1..m
                          /\ ~(i <= m) => i - m \in 1..n
    BY <1>2
<1>4. \A i \in 1..m, j \in 1..n : q[i] # r[j]
    BY <1>2 DEF Range
<1> SUFFICES ASSUME NEW i \in 1..m + n, NEW j \in 1..m + n, both[i] = both[j] PROVE i = j
    BY <1>2 DEF Once, both
<1>5. CASE i <= m /\ j <= m
    BY <1>1, <1>2, <1>3, <1>5 DEF Once
<1>6. CASE ~(i <= m) /\ ~(j <= m)
    <2>1. r[i - m] = r[j - m] /\ i - m \in 1..n /\ j - m \in 1..n
        BY <1>1, <1>3, <1>6
    <2>2. i - m = j - m
        BY <1>2, <2>1 DEF Once
    <2> QED
        BY <1>2, <2>2
<1>7. (i <= m) = (j <= m)
    BY <1>1, <1>3, <1>4
<1> QED
    BY <1>5, <1>6, <1>7

(* The buffer takes what it is given and drops the first ones over its
   ceiling. *)
LEMMA PushedBounded ==
    ASSUME NEW held \in Seq(Entry), NEW more \in Seq(Entry)
    PROVE  /\ Pushed(held, more) \in Seq(Entry)
           /\ Len(Pushed(held, more)) <= MaxBuffered
           /\ Range(Pushed(held, more)) \subseteq Range(held) \cup Range(more)
           /\ Once(held) /\ Once(more) /\ Range(held) \cap Range(more) = {}
                => Once(Pushed(held, more))
<1> DEFINE all == held \o more
           n == Len(all)
           over == n - MaxBuffered
           kept == SubSeq(all, over + 1, n)
<1>1. all \in Seq(Entry) /\ Range(all) = Range(held) \cup Range(more)
    BY ConcatProperties, RangeConcatenation
<1>2. n \in Nat /\ DOMAIN all = 1..n /\ MaxBuffered \in Nat /\ MaxBuffered > 0
    BY <1>1, LenProperties, BacklogAssumption
<1>3. Pushed(held, more) = IF over > 0 THEN kept ELSE all
    BY DEF Pushed
<1>4. Once(held) /\ Once(more) /\ Range(held) \cap Range(more) = {} => Once(all)
    BY CatOnce
<1>5. CASE over > 0
    <2>1. over + 1 \in Int /\ n \in Int /\ over + 1 <= n /\ over \in Nat
        BY <1>2, <1>5
    <2>2. \A i \in over + 1 .. n : i \in 1..n
        BY <1>2, <2>1
    <2>3. \A i \in over + 1 .. n : all[i] \in Entry
        <3> HIDE DEF all, n, over
        <3> QED
            BY <1>1, <2>2, ElementOfSeq DEF n
    <2>4. /\ kept \in Seq(Entry)
          /\ Len(kept) = n - (over + 1) + 1
          /\ \A i \in 1..n - (over + 1) + 1 : kept[i] = all[(over + 1) + i - 1]
        <3> HIDE DEF all, n, over
        <3> QED
            BY <2>1, <2>3, SubSeqProperties
    <2>5. n - (over + 1) + 1 = MaxBuffered
        BY <1>2
    <2>6. Len(kept) = MaxBuffered /\ DOMAIN kept = 1..MaxBuffered
        BY <2>4, <2>5, LenProperties
    <2>7. \A i \in 1..MaxBuffered : over + i \in 1..n /\ kept[i] = all[over + i]
        <3> SUFFICES ASSUME NEW i \in 1..MaxBuffered
                     PROVE  over + i \in 1..n /\ kept[i] = all[over + i]
            OBVIOUS
        <3>1. (over + 1) + i - 1 = over + i /\ over + i \in 1..n
            BY <1>2, <2>1
        <3> HIDE DEF all, n, over, kept
        <3> QED
            BY <2>4, <2>5, <3>1
    <2> HIDE DEF all, n, over, kept
    <2>8. Range(kept) \subseteq Range(all)
        BY <1>2, <2>6, <2>7 DEF Range
    <2>9. ASSUME Once(all) PROVE Once(kept)
        <3> SUFFICES ASSUME NEW i \in 1..MaxBuffered, NEW j \in 1..MaxBuffered,
                            kept[i] = kept[j]
                     PROVE  i = j
            BY <2>6 DEF Once
        <3>1. over + i = over + j
            BY <1>2, <2>7, <2>9 DEF Once
        <3> QED
            BY <2>1, <3>1
    <2> QED
        BY <1>1, <1>2, <1>3, <1>4, <1>5, <2>4, <2>6, <2>8, <2>9
<1>6. CASE ~(over > 0)
    <2>1. Pushed(held, more) = all
        BY <1>3, <1>6
    <2>2. n <= MaxBuffered
        BY <1>2, <1>6
    <2> QED
        BY <1>1, <1>4, <2>1, <2>2
<1> QED
    BY <1>5, <1>6

(***************************************************************************)
(* Lemmas about reading the file back.                                     *)
(***************************************************************************)

(* Some naturals have a least one: the intervals below them are finite sets,
   which strict inclusion orders well. *)
LEMMA LeastNatural ==
    ASSUME NEW S \in SUBSET Nat, S # {}
    PROVE  \E b \in S : \A c \in S : b <= c
<1> DEFINE Below(n) == 0..n
           T == {Below(n) : n \in S}
<1>1. IsWellFoundedOn(StrictSubsetOrdering(Nat), FiniteSubsetsOf(Nat))
  BY FS_StrictSubsetOrderingWellFounded
<1>2. T \subseteq FiniteSubsetsOf(Nat)
  <2>1. \A n \in Nat : IsFiniteSet(0..n) /\ 0..n \in SUBSET Nat
    BY FS_Interval
  <2>2. \A n \in Nat : Below(n) \in FiniteSubsetsOf(Nat)
    BY <2>1 DEF FiniteSubsetsOf
  <2> HIDE DEF Below
  <2> QED BY <2>2
<1>3. T # {}
  OBVIOUS
<1>4. \E x \in T : \A y \in T : <<y, x>> \notin StrictSubsetOrdering(Nat)
  <2> HIDE DEF T
  <2> QED BY <1>1, <1>2, <1>3, WFMin
<1>5. PICK b \in S : \A c \in S : <<Below(c), Below(b)>> \notin StrictSubsetOrdering(Nat)
  BY <1>4
<1>6. ASSUME NEW c \in S, c < b PROVE FALSE
  <2>1. Below(c) \in SUBSET Nat /\ Below(b) \in SUBSET Nat
    OBVIOUS
  <2>2. Below(c) \subseteq Below(b) /\ b \in Below(b) /\ b \notin Below(c)
    BY <1>6
  <2>3. <<Below(c), Below(b)>> \in StrictSubsetOrdering(Nat)
    BY <2>1, <2>2 DEF StrictSubsetOrdering
  <2> QED BY <1>5, <2>3
<1> QED BY <1>6

(* A set of naturals with zero and every successor is all of them. *)
LEMMA AllNaturals ==
    ASSUME NEW S \in SUBSET Nat, 0 \in S, \A n \in S : n + 1 \in S
    PROVE  \A n \in Nat : n \in S
<1> SUFFICES ASSUME Nat \ S # {} PROVE FALSE
    OBVIOUS
<1>1. PICK b \in Nat \ S : \A c \in Nat \ S : b <= c
    BY LeastNatural
<1>2. b # 0 /\ b - 1 \in Nat /\ ~(b <= b - 1)
    BY <1>1
<1>3. b - 1 \in S
    BY <1>1, <1>2
<1>4. (b - 1) + 1 = b
    BY <1>1
<1> QED
    BY <1>1, <1>3, <1>4

(* The function Parsed is defined by exists: it can be continued by a line. *)
LEMMA ParsedIsDefined ==
    ASSUME NEW read, NEW n \in Nat
    PROVE  \E f : f = [i \in 0..n |->
                         IF i = 0 THEN << >>
                         ELSE IF read[i] = Torn THEN f[i - 1]
                         ELSE Append(f[i - 1], read[i])]
<1> DEFINE Step(i, q) == IF read[i] = Torn THEN q ELSE Append(q, read[i])
           Good(k, f) == f = [i \in 0..k |-> IF i = 0 THEN << >> ELSE Step(i, f[i - 1])]
           S == {k \in Nat : \E f : Good(k, f)}
<1> HIDE DEF Step
<1>1. 0 \in S
    <2>1. Good(0, [i \in 0..0 |-> << >>])
        <3>1. \A i \in 0..0 : i = 0
            OBVIOUS
        <3> QED
            BY <3>1
    <2> QED
        BY <2>1
<1>2. ASSUME NEW k \in S PROVE k + 1 \in S
    <2>1. PICK g : Good(k, g)
        OBVIOUS
    <2> DEFINE f == [i \in 0..k + 1 |-> IF i = k + 1 THEN Step(k + 1, g[k]) ELSE g[i]]
    <2>2. \A i \in 0..k + 1 : /\ i = k + 1 \/ i \in 0..k
                              /\ i # 0 => i - 1 \in 0..k /\ i - 1 # k + 1
        OBVIOUS
    <2>3. \A i \in 0..k : g[i] = IF i = 0 THEN << >> ELSE Step(i, g[i - 1])
        BY <2>1
    <2>4. \A i \in 0..k : f[i] = g[i]
        OBVIOUS
    <2>5. f[k + 1] = Step(k + 1, g[k])
        OBVIOUS
    <2>6. ASSUME NEW i \in 0..k + 1
          PROVE  f[i] = IF i = 0 THEN << >> ELSE Step(i, f[i - 1])
        <3>1. CASE i = k + 1
            <4>1. i # 0 /\ i - 1 = k /\ k \in 0..k
                BY <3>1
            <4> HIDE DEF f
            <4> QED
                BY <2>4, <2>5, <3>1, <4>1
        <3>2. CASE i \in 0..k
            <4> HIDE DEF f
            <4> QED
                BY <2>2, <2>3, <2>4, <3>2
        <3> QED
            BY <2>2, <3>1, <3>2
    <2>7. f = [i \in 0..k + 1 |-> f[i]]
        OBVIOUS
    <2>8. Good(k + 1, f)
        <3> HIDE DEF f
        <3> QED
            BY <2>6, <2>7
    <2>9. k + 1 \in Nat
        OBVIOUS
    <2> HIDE DEF f, Good
    <2> QED
        BY <2>8, <2>9
<1>3. n \in S
    <2> HIDE DEF S
    <2>1. S \in SUBSET Nat
        BY DEF S
    <2> QED
        BY <1>1, <1>2, <2>1, AllNaturals
<1> QED
    BY <1>3 DEF Step

(* What boot reads are the entries of the file, each as often as the file has
   it, in the file's order. *)
LEMMA ParsedReadsEntries ==
    ASSUME NEW read \in Seq(Entry \cup {Torn})
    PROVE  /\ Parsed(read) \in Seq(Entry)
           /\ Range(Parsed(read)) = Range(read) \ {Torn}
           /\ OnceInFile(read) => Once(Parsed(read))
<1> DEFINE n == Len(read)
           once == OnceInFile(read)
<1>1. n \in Nat /\ DOMAIN read = 1..n /\ \A i \in 1..n : read[i] \in Entry \cup {Torn}
    BY LenProperties, ElementOfSeq
<1>2. PICK f : /\ f = [i \in 0..n |->
                         IF i = 0 THEN << >>
                         ELSE IF read[i] = Torn THEN f[i - 1]
                         ELSE Append(f[i - 1], read[i])]
               /\ Parsed(read) = f[n]
    <2>1. \E f : f = [i \in 0..Len(read) |->
                         IF i = 0 THEN << >>
                         ELSE IF read[i] = Torn THEN f[i - 1]
                         ELSE Append(f[i - 1], read[i])]
        BY <1>1, ParsedIsDefined
    <2> DEFINE g == CHOOSE f : f = [i \in 0..Len(read) |->
                         IF i = 0 THEN << >>
                         ELSE IF read[i] = Torn THEN f[i - 1]
                         ELSE Append(f[i - 1], read[i])]
    <2>2. g = [i \in 0..Len(read) |->
                         IF i = 0 THEN << >>
                         ELSE IF read[i] = Torn THEN g[i - 1]
                         ELSE Append(g[i - 1], read[i])]
        BY <2>1
    <2>3. Parsed(read) = g[Len(read)]
        BY DEF Parsed
    <2> HIDE DEF g
    <2> QED
        BY <2>2, <2>3
<1> HIDE DEF n, once
<1> DEFINE P(k) == k \in 0..n =>
                      /\ f[k] \in Seq(Entry)
                      /\ Range(f[k]) = {read[i] : i \in 1..k} \ {Torn}
                      /\ once => Once(f[k])
           S == {k \in Nat : P(k)}
<1>3. f[0] = << >>
    BY <1>1, <1>2
<1>4. P(0)
    BY <1>3, EmptyHoldsNothing
<1>5. ASSUME NEW k \in Nat, P(k) PROVE P(k + 1)
    <2> SUFFICES ASSUME k + 1 \in 0..n
                 PROVE  /\ f[k + 1] \in Seq(Entry)
                        /\ Range(f[k + 1]) = {read[i] : i \in 1..k + 1} \ {Torn}
                        /\ once => Once(f[k + 1])
        OBVIOUS
    <2>1. k + 1 \in 1..n /\ k \in 0..n /\ (k + 1) - 1 = k /\ k + 1 # 0
        BY <1>1
    <2>2. f[k + 1] = IF read[k + 1] = Torn THEN f[k] ELSE Append(f[k], read[k + 1])
        <3> DEFINE m == k + 1
        <3>1. m \in 0..n /\ m # 0 /\ m - 1 = k
            BY <2>1
        <3> HIDE DEF m
        <3>2. f[m] = IF read[m] = Torn THEN f[m - 1] ELSE Append(f[m - 1], read[m])
            BY <1>2, <3>1
        <3> QED
            BY <3>1, <3>2 DEF m
    <2>3. /\ f[k] \in Seq(Entry)
          /\ Range(f[k]) = {read[i] : i \in 1..k} \ {Torn}
          /\ once => Once(f[k])
        BY <1>5, <2>1
    <2>4. \A i \in 1..k + 1 : i = k + 1 \/ i \in 1..k
        OBVIOUS
    <2>5. 1..k \subseteq 1..k + 1 /\ k + 1 \in 1..k + 1 /\ k + 1 \notin 1..k /\ 1..k \subseteq 1..n
        BY <1>1, <2>1
    <2>6. {read[i] : i \in 1..k + 1} = {read[i] : i \in 1..k} \cup {read[k + 1]}
        BY <2>4, <2>5
    <2> DEFINE e == read[k + 1]
    <2>7. e \in Entry \cup {Torn}
        BY <1>1, <2>1
    <2> HIDE DEF e
    <2>8. CASE e = Torn
        BY <2>2, <2>3, <2>6, <2>8 DEF e
    <2>9. CASE e # Torn
        <3>1. e \in Entry /\ f[k + 1] = Append(f[k], e)
            BY <2>2, <2>7, <2>9 DEF e
        <3>2. PICK q \in Seq(Entry) : q = f[k]
            BY <2>3
        <3>3. /\ Append(q, e) \in Seq(Entry) /\ Range(Append(q, e)) = Range(q) \cup {e}
              /\ Once(q) /\ e \notin Range(q) => Once(Append(q, e))
            BY <3>1, AppendAdds
        <3>4. once => e \notin {read[i] : i \in 1..k}
            BY <1>1, <2>1, <2>5, <2>9 DEF once, e, OnceInFile
        <3>5. {read[i] : i \in 1..k + 1} = {read[i] : i \in 1..k} \cup {e}
            BY <2>6 DEF e
        <3> QED
            BY <2>3, <2>9, <3>1, <3>2, <3>3, <3>4, <3>5
    <2> QED
        BY <2>8, <2>9
<1>6. n \in S
    <2>1. 0 \in S /\ \A k \in S : k + 1 \in S
        <3> HIDE DEF P
        <3> QED
            BY <1>4, <1>5
    <2>2. S \in SUBSET Nat
        OBVIOUS
    <2> HIDE DEF S
    <2> QED
        BY <1>1, <2>1, <2>2, AllNaturals
<1>7. n \in 0..n /\ Range(read) = {read[i] : i \in 1..n}
    BY <1>1 DEF Range
<1> QED
    BY <1>2, <1>6, <1>7 DEF once

(***************************************************************************)
(* The steps of the parts.                                                 *)
(***************************************************************************)

LEMMA EntriesAreNats ==
    /\ MaxEntry \in Nat /\ Entry \subseteq Nat /\ 0 \notin Entry
    /\ \A e \in Entry : e <= MaxEntry /\ e >= 1 /\ BucketOf[e] \in Bucket
BY BacklogAssumption DEF Entry, Bucket, Range

LEMMA UpsertKeeps ==
    ASSUME row \in [Bucket -> 0..MaxEntry], accepted \subseteq Entry, RowIsNewestAccepted,
           NEW e \in Entry, Upsert(e)
    PROVE  /\ row' \in [Bucket -> 0..MaxEntry] /\ accepted' = accepted \cup {e}
           /\ RowIsNewestAccepted'
<1> DEFINE b == BucketOf[e]
           Of(c) == {d \in accepted : BucketOf[d] = c}
           New(c) == {d \in accepted \cup {e} : BucketOf[d] = c}
<1>1. b \in Bucket /\ e \in Nat /\ e >= 1 /\ e \in 0..MaxEntry /\ Entry \subseteq Nat
    BY EntriesAreNats
<1>2. /\ accepted' = accepted \cup {e}
      /\ row' = [row EXCEPT ![b] = IF e > row[b] THEN e ELSE row[b]]
    BY DEF Upsert
<1>3. row' \in [Bucket -> 0..MaxEntry]
    BY <1>1, <1>2
<1>4. ASSUME NEW c \in Bucket
      PROVE  IF New(c) = {} THEN row'[c] = 0
             ELSE row'[c] \in New(c) /\ \A d \in New(c) : d <= row'[c]
    <2>1. IF Of(c) = {} THEN row[c] = 0
          ELSE row[c] \in Of(c) /\ \A d \in Of(c) : d <= row[c]
        BY DEF RowIsNewestAccepted
    <2>2. CASE c # b
        <3>1. New(c) = Of(c) /\ row'[c] = row[c]
            BY <1>2, <2>2
        <3> QED
            BY <2>1, <3>1
    <2>3. CASE c = b
        <3>1. New(c) = Of(c) \cup {e} /\ New(c) # {}
            BY <2>3
        <3>2. row'[c] = IF e > row[c] THEN e ELSE row[c]
            BY <1>1, <1>2, <2>3
        <3>3. row[c] \in Nat /\ Of(c) \subseteq Nat
            <4>1. row[c] \in 0..MaxEntry /\ 0..MaxEntry \subseteq Nat
                BY EntriesAreNats
            <4>2. Of(c) \subseteq Nat
                BY <1>1
            <4> QED
                BY <4>1, <4>2
        <3>4. Of(c) = {} => row'[c] = e
            BY <1>1, <2>1, <3>2
        <3> HIDE DEF New, Of
        <3>5. CASE Of(c) = {}
            BY <1>1, <3>1, <3>4, <3>5
        <3>6. CASE Of(c) # {}
            <4>1. row[c] \in Of(c) /\ \A d \in Of(c) : d <= row[c] /\ d \in Nat
                BY <2>1, <3>3, <3>6
            <4>2. CASE e > row[c]
                BY <1>1, <3>1, <3>2, <3>3, <4>1, <4>2
            <4>3. CASE ~(e > row[c])
                BY <1>1, <3>1, <3>2, <3>3, <4>1, <4>3
            <4> QED
                BY <4>2, <4>3
        <3> QED
            BY <3>5, <3>6
    <2> QED
        BY <2>2, <2>3
<1> QED
    BY <1>2, <1>3, <1>4 DEF RowIsNewestAccepted

LEMMA TakesKeeps ==
    ASSUME DatabaseOK, NEW e \in Entry, Takes(e)
    PROVE  DatabaseOK' /\ accepted' = accepted \cup {e}
BY UpsertKeeps DEF DatabaseOK, Takes

LEMMA RefusesKeeps ==
    ASSUME DatabaseOK, NEW e \in Entry, Refuses(e)
    PROVE  DatabaseOK' /\ accepted \subseteq accepted'
<1>1. CASE UNCHANGED db
    BY <1>1 DEF DatabaseOK, RowIsNewestAccepted, db
<1>2. CASE outages < MaxOutages /\ outages' = outages + 1 /\ Upsert(e) /\ UNCHANGED up
    <2>1. outages' \in 0..MaxOutages
        BY <1>2, BacklogAssumption DEF DatabaseOK
    <2> QED
        BY <1>2, <2>1, UpsertKeeps DEF DatabaseOK
<1> QED
    BY <1>1, <1>2 DEF Refuses

(* A line more in the file. *)
LEMMA LineAdds ==
    ASSUME NEW base \in Seq(Entry \cup {Torn}), NEW unfinished \in BOOLEAN, NEW e \in Entry,
           OnceInFile(base), Range(base) \subseteq 1..offered \cup {Torn}, e = offered + 1,
           CountsOK
    PROVE  LET read == WithLine(base, unfinished, e) IN
           /\ read \in Seq(Entry \cup {Torn})
           /\ OnceInFile(read) /\ Range(read) \subseteq 1..e \cup {Torn}
           /\ Range(base) \subseteq Range(read)
           /\ ~unfinished => e \in Range(read)
<1> DEFINE line == IF unfinished THEN Torn ELSE e
           read == WithLine(base, unfinished, e)
           n == Len(base)
<1>1. line \in Entry \cup {Torn} /\ read = Append(base, line)
    BY DEF WithLine
<1> HIDE DEF line, read
<1>2. /\ read \in Seq(Entry \cup {Torn}) /\ Range(read) = Range(base) \cup {line}
    BY <1>1, AppendAdds
<1>3. /\ Len(read) = n + 1 /\ \A i \in 1..n : read[i] = base[i]
      /\ read[n + 1] = line
    BY <1>1, AppendProperties
<1>4. n \in Nat /\ DOMAIN base = 1..n /\ DOMAIN read = 1..n + 1
    BY <1>2, <1>3, LenProperties
<1>5. offered \in Nat /\ e \notin 1..offered /\ 1..offered \subseteq 1..e /\ e \in 1..e /\ e # Torn
    BY BacklogAssumption DEF CountsOK
<1>6. line = Torn \/ line \notin Range(base)
    BY <1>5 DEF line
<1>7. OnceInFile(read)
    <2> SUFFICES ASSUME NEW i \in 1..n + 1, NEW j \in 1..n + 1, read[i] = read[j],
                        read[i] # Torn
                 PROVE  i = j
        BY <1>4 DEF OnceInFile
    <2> HIDE DEF n
    <2>1. \A k \in 1..n + 1 : k \in 1..n \/ k = n + 1
        BY <1>4
    <2>2. line # Torn => \A k \in 1..n : read[k] # line
        BY <1>3, <1>4, <1>6 DEF Range
    <2> QED
        BY <1>3, <1>4, <2>1, <2>2 DEF OnceInFile
<1>8. Range(read) \subseteq 1..e \cup {Torn}
    BY <1>2, <1>5 DEF line
<1> QED
    BY <1>2, <1>7, <1>8 DEF line, read

LEMMA QueueToFile ==
    ASSUME NEW q \in Seq(Entry), Once(q)
    PROVE  q \in Seq(Entry \cup {Torn}) /\ OnceInFile(q)
BY SeqMonotonic DEF Once, OnceInFile

LEMMA NextEntry ==
    ASSUME CountsOK, NEW e \in Entry, e = offered + 1
    PROVE  /\ offered \in Nat /\ 1..e = (1..offered) \cup {e} /\ e \notin 1..offered
           /\ e # Torn /\ e \in 0..MaxEntry
BY BacklogAssumption, EntriesAreNats DEF CountsOK

(* What the eviction before an append leaves of the queue; if it takes the head
   from a drain that awaits it, it says so. *)
LEMMA KeptKeeps ==
    ASSUME IInv, Evicts
    PROVE  /\ Kept \in Seq(Entry) /\ Once(Kept) /\ Range(Kept) \subseteq Range(queue)
           /\ TooLong => Kept = << >>
           /\ ~TooLong => Kept = queue
           /\ undercut' \in BOOLEAN /\ (undercut => undercut')
           /\ flush = "spool" => undercut' \/ (Kept # << >> /\ writing = Head(Kept))
<1>1. TooLong => Kept = << >>
    BY DEF Kept
<1>2. ~TooLong => Kept = queue
    BY DEF Kept
<1>3. Kept \in Seq(Entry) /\ Once(Kept) /\ Range(Kept) \subseteq Range(queue)
    BY <1>1, <1>2, EmptyHoldsNothing DEF IInv, QueueOK
<1>4. undercut' \in BOOLEAN /\ (undercut => undercut')
    BY DEF IInv, CountsOK, Evicts
<1>5. flush = "spool" => undercut' \/ (Kept # << >> /\ writing = Head(Kept))
    BY <1>1, <1>2 DEF IInv, DrainOK, Evicts
<1> QED
    BY <1>1, <1>2, <1>3, <1>4, <1>5

LEMMA SpoolTakesKeeps ==
    ASSUME IInv, NEW e \in Entry, e = offered + 1, offered' = e, SpoolTakes(e)
    PROVE  /\ QueueOK' /\ FileOK'
           /\ forgone' \subseteq Entry /\ forgone \subseteq forgone'
           /\ undercut' \in BOOLEAN /\ (undercut => undercut')
           /\ flush = "spool" => undercut' \/ (queue' # << >> /\ writing = Head(queue'))
           /\ Range(queue') \subseteq Range(queue) \cup {e} /\ e \in Range(queue')
           /\ Range(queue) \subseteq Range(queue') \cup forgone'
<1>1. /\ Kept \in Seq(Entry) /\ Once(Kept) /\ Range(Kept) \subseteq Range(queue)
      /\ TooLong => Kept = << >>
      /\ ~TooLong => Kept = queue
      /\ undercut' \in BOOLEAN /\ (undercut => undercut')
      /\ flush = "spool" => undercut' \/ (Kept # << >> /\ writing = Head(Kept))
    BY KeptKeeps DEF SpoolTakes
<1>2. /\ offered \in Nat /\ 1..e = (1..offered) \cup {e} /\ e \notin 1..offered /\ e # Torn
    BY NextEntry DEF IInv
<1>3. Range(queue) \subseteq 1..offered /\ Range(queue) \subseteq Entry
    BY RangeOfSeq DEF IInv, QueueOK
<1>4. e \notin Range(Kept)
    BY <1>1, <1>2, <1>3
<1>5. PICK kept \in Seq(Entry) : kept = Kept
    BY <1>1
<1>6. /\ queue' \in Seq(Entry) /\ queue' # << >>
      /\ Range(queue') = Range(Kept) \cup {e} /\ Once(queue')
      /\ Kept # << >> => Head(queue') = Head(Kept)
    BY <1>1, <1>4, <1>5, AppendAdds DEF SpoolTakes
<1>7. QueueOK'
    BY <1>1, <1>2, <1>3, <1>6 DEF QueueOK
<1>8. /\ forgone' \subseteq Entry /\ forgone \subseteq forgone'
      /\ Range(queue) \subseteq Range(queue') \cup forgone'
    BY <1>1, <1>3, <1>6 DEF IInv, CountsOK, SpoolTakes
<1>9. FileOK'
    <2>1. /\ lines \in Seq(Entry \cup {Torn}) /\ fragment \in BOOLEAN
          /\ OnceInFile(lines) /\ Range(lines) \subseteq 1..offered \cup {Torn}
          /\ bytes \in Nat /\ dirty \in BOOLEAN
        BY DEF IInv, FileOK
    <2>2. /\ tore' = tore /\ diskFaults' = diskFaults /\ fragment' = FALSE
          /\ tore \in BOOLEAN /\ diskFaults \in 0..MaxDiskFaults
          /\ (fragment => tore) /\ (tore \/ Range(queue) \subseteq Range(lines))
        BY DEF IInv, FileOK, SpooledSurvives, SpoolTakes
    <2>3. ASSUME TooLong
          PROVE  /\ lines' \in Seq(Entry \cup {Torn}) /\ OnceInFile(lines')
                 /\ Range(lines') \subseteq 1..e \cup {Torn}
                 /\ bytes' \in Nat /\ dirty' \in BOOLEAN
                 /\ tore' \/ Range(queue') \subseteq Range(lines')
        <3>1. lines' = <<e>> /\ bytes' = 1 /\ dirty' = FALSE
            BY <2>3 DEF SpoolTakes
        <3>2. queue' = Append(<< >>, e)
            BY <1>1, <2>3 DEF SpoolTakes
        <3>3. lines' = queue'
            BY <3>1, <3>2
        <3>4. lines' \in Seq(Entry \cup {Torn}) /\ OnceInFile(lines')
            BY <1>6, <3>3, QueueToFile
        <3>5. Range(lines') = Range(queue') /\ Range(lines') \subseteq 1..e
            BY <1>7, <3>3 DEF QueueOK
        <3> QED
            BY <3>1, <3>4, <3>5
    <2>4. ASSUME ~TooLong
          PROVE  /\ lines' \in Seq(Entry \cup {Torn}) /\ OnceInFile(lines')
                 /\ Range(lines') \subseteq 1..e \cup {Torn}
                 /\ bytes' \in Nat /\ dirty' \in BOOLEAN
                 /\ tore' \/ Range(queue') \subseteq Range(lines')
        <3>1. lines' = WithLine(lines, fragment, e) /\ bytes' = bytes + 1 /\ dirty' = dirty
            BY <2>1, <2>4 DEF SpoolTakes
        <3>2. /\ lines' \in Seq(Entry \cup {Torn}) /\ OnceInFile(lines')
              /\ Range(lines') \subseteq 1..e \cup {Torn}
              /\ Range(lines) \subseteq Range(lines') /\ (~fragment => e \in Range(lines'))
            BY <2>1, <3>1, LineAdds DEF IInv
        <3>3. tore \/ Range(queue') \subseteq Range(lines')
            BY <1>1, <1>6, <2>2, <2>4, <3>2
        <3> QED
            BY <2>1, <2>2, <3>1, <3>2, <3>3
    <2> QED
        BY <2>2, <2>3, <2>4 DEF FileOK, SpooledSurvives
<1> QED
    BY <1>1, <1>6, <1>7, <1>8, <1>9

LEMMA SpoolRefusesKeeps ==
    ASSUME IInv, NEW e \in Entry, e = offered + 1, offered' = e, SpoolRefuses(e)
    PROVE  /\ QueueOK' /\ FileOK' /\ BufferOK'
           /\ forgone' \subseteq Entry /\ forgone \subseteq forgone'
           /\ undercut' \in BOOLEAN /\ (undercut => undercut') /\ (tore => tore')
           /\ flush = "spool" => undercut' \/ (queue' # << >> /\ writing = Head(queue'))
           /\ Range(queue') \subseteq Range(queue)
           /\ Range(buffer') \subseteq Range(buffer) \cup {e}
           /\ Range(queue) \subseteq Range(queue') \cup forgone'
           /\ Range(buffer) \cup {e} \subseteq Range(buffer') \cup forgone'
<1>1. /\ Kept \in Seq(Entry) /\ Once(Kept) /\ Range(Kept) \subseteq Range(queue)
      /\ TooLong => Kept = << >>
      /\ ~TooLong => Kept = queue
      /\ undercut' \in BOOLEAN /\ (undercut => undercut')
      /\ flush = "spool" => undercut' \/ (Kept # << >> /\ writing = Head(Kept))
    BY KeptKeeps DEF SpoolRefuses
<1>2. /\ offered \in Nat /\ 1..e = (1..offered) \cup {e} /\ e \notin 1..offered /\ e # Torn
    BY NextEntry DEF IInv
<1>3. /\ Range(queue) \subseteq 1..offered /\ Range(queue) \subseteq Entry
      /\ Range(buffer) \subseteq 1..offered /\ Range(buffer) \subseteq Entry
      /\ buffer \in Seq(Entry) /\ Once(buffer)
    BY RangeOfSeq DEF IInv, QueueOK, BufferOK
<1>4. queue' = Kept /\ QueueOK'
    BY <1>1, <1>2, <1>3 DEF QueueOK, SpoolRefuses
<1>5. /\ <<e>> \in Seq(Entry) /\ Range(<<e>>) = {e} /\ Once(<<e>>)
    BY DEF Range, Once
<1>6. PICK one \in Seq(Entry) : one = <<e>>
    BY <1>5
<1>7. /\ buffer' \in Seq(Entry) /\ Len(buffer') <= MaxBuffered
      /\ Range(buffer') \subseteq Range(buffer) \cup {e}
      /\ Once(buffer')
    <2>1. Range(buffer) \cap Range(one) = {}
        BY <1>2, <1>3, <1>5, <1>6
    <2>2. buffer' = Pushed(buffer, one)
        BY <1>6 DEF SpoolRefuses
    <2> QED
        BY <1>3, <1>5, <1>6, <2>1, <2>2, PushedBounded
<1>8. BufferOK'
    BY <1>2, <1>3, <1>7 DEF BufferOK
<1>9. Range(Append(buffer, e)) = Range(buffer) \cup {e}
    BY <1>3, AppendAdds
<1>10. /\ forgone' = forgone \cup (Range(queue) \ Range(Kept))
                             \cup ((Range(buffer) \cup {e}) \ Range(buffer'))
    BY <1>9 DEF SpoolRefuses
<1>11. /\ forgone' \subseteq Entry /\ forgone \subseteq forgone'
       /\ Range(queue) \subseteq Range(queue') \cup forgone'
       /\ Range(buffer) \cup {e} \subseteq Range(buffer') \cup forgone'
    BY <1>3, <1>4, <1>10 DEF IInv, CountsOK
<1>12. FileOK' /\ (tore => tore')
    <2>1. /\ lines \in Seq(Entry \cup {Torn}) /\ fragment \in BOOLEAN
          /\ OnceInFile(lines) /\ Range(lines) \subseteq 1..offered \cup {Torn}
          /\ bytes \in Nat /\ dirty \in BOOLEAN /\ tore \in BOOLEAN
          /\ (fragment => tore) /\ (tore \/ Range(queue) \subseteq Range(lines))
        BY DEF IInv, FileOK, SpooledSurvives
    <2>2. diskFaults' \in 0..MaxDiskFaults
        BY BacklogAssumption DEF IInv, FileOK, SpoolRefuses
    <2>3. << >> \in Seq(Entry \cup {Torn}) /\ OnceInFile(<< >>) /\ Range(<< >>) = {}
        BY EmptyHoldsNothing, QueueToFile
    <2>4. ASSUME NEW base \in Seq(Entry \cup {Torn}), NEW unfinished \in BOOLEAN,
                 OnceInFile(base), Range(base) \subseteq 1..offered \cup {Torn},
                 unfinished => tore, tore \/ Range(queue') \subseteq Range(base),
                 Leaves(base, unfinished, e)
          PROVE  /\ lines' \in Seq(Entry \cup {Torn}) /\ OnceInFile(lines')
                 /\ Range(lines') \subseteq 1..e \cup {Torn}
                 /\ fragment' \in BOOLEAN /\ tore' \in BOOLEAN
                 /\ (fragment' => tore') /\ (tore => tore')
                 /\ tore' \/ Range(queue') \subseteq Range(lines')
        <3>1. CASE lines' = base /\ (fragment' = unfinished /\ tore' = tore)
            BY <1>2, <2>1, <2>4, <3>1
        <3>3. CASE lines' = base /\ (fragment' = TRUE /\ tore' = TRUE)
            BY <1>2, <2>1, <2>4, <3>3
        <3>2. CASE /\ lines' = WithLine(base, unfinished, e)
                   /\ fragment' = FALSE /\ tore' = tore
            <4>1. /\ lines' \in Seq(Entry \cup {Torn}) /\ OnceInFile(lines')
                  /\ Range(lines') \subseteq 1..e \cup {Torn}
                  /\ Range(base) \subseteq Range(lines')
                BY <2>4, <3>2, LineAdds DEF IInv
            <4> QED
                BY <2>1, <2>4, <3>2, <4>1
        <3> QED
            BY <2>4, <3>1, <3>2, <3>3 DEF Leaves
    <2>5. CASE TooLong /\ UNCHANGED <<lines, fragment, bytes, dirty, tore>>
        <3>1. Range(queue') = {}
            BY <1>1, <1>4, <2>5, EmptyHoldsNothing
        <3> QED
            BY <1>2, <2>1, <2>2, <2>5, <3>1 DEF FileOK, SpooledSurvives
    <2>6. CASE ~TooLong /\ Leaves(lines, fragment, e) /\ UNCHANGED <<bytes, dirty>>
        <3>1. queue' = queue
            BY <1>1, <1>4, <2>6
        <3> QED
            BY <2>1, <2>2, <2>4, <2>6, <3>1 DEF FileOK, SpooledSurvives
    <2>7. CASE TooLong /\ Leaves(<< >>, FALSE, e) /\ bytes' = 0 /\ dirty' = FALSE
        <3>1. Range(queue') = {}
            BY <1>1, <1>4, <2>7, EmptyHoldsNothing
        <3> QED
            BY <2>2, <2>3, <2>4, <2>7, <3>1 DEF FileOK, SpooledSurvives
    <2> QED
        BY <2>5, <2>6, <2>7 DEF SpoolRefuses
<1> QED
    BY <1>1, <1>4, <1>7, <1>8, <1>11, <1>12

LEMMA RecordKeeps == ASSUME NEW e \in Entry PROVE IInv /\ Record(e) => IInv'
<1> SUFFICES ASSUME IInv, Record(e) PROVE IInv'
    OBVIOUS
<1>1. e = offered + 1 /\ offered' = e
    BY DEF Record
<1>2. /\ writing' = writing /\ failures' = failures /\ pending' = pending
      /\ tries' = tries /\ crashes' = crashes
    BY DEF Record
<1>3. /\ offered \in Nat /\ 1..e = (1..offered) \cup {e} /\ e \notin 1..offered
      /\ e \in 0..MaxEntry
    BY <1>1, NextEntry DEF IInv
<1>4. /\ Range(queue) \subseteq 1..offered /\ Range(buffer) \subseteq 1..offered
      /\ Range(pending) \subseteq 1..offered
    BY DEF IInv, QueueOK, BufferOK, DrainOK
<1>5. CASE /\ Takes(e)
           /\ UNCHANGED <<file, queue, buffer, flush, forgone, undercut, tore, diskFaults>>
    <2>1. /\ lines' = lines /\ fragment' = fragment /\ bytes' = bytes /\ dirty' = dirty
          /\ queue' = queue /\ buffer' = buffer /\ flush' = flush /\ forgone' = forgone
          /\ undercut' = undercut /\ tore' = tore /\ diskFaults' = diskFaults
        BY <1>5 DEF file
    <2>2. DatabaseOK' /\ accepted' = accepted \cup {e}
        BY <1>5, TakesKeeps DEF IInv
    <2>3. QueueOK' /\ BufferOK' /\ Apart'
        BY <1>1, <1>2, <1>3, <2>1 DEF IInv, QueueOK, BufferOK, Apart
    <2>4. FileOK'
        BY <1>1, <1>3, <2>1 DEF IInv, FileOK, SpooledSurvives
    <2>5. DrainOK'
        BY <1>1, <1>2, <1>3, <2>1 DEF IInv, DrainOK
    <2>6. CountsOK'
        BY <1>1, <1>2, <1>3, <2>1 DEF IInv, CountsOK
    <2>7. AllAccounted'
        BY <1>1, <1>2, <1>3, <2>1, <2>2 DEF IInv, AllAccounted, Held
    <2> QED
        BY <2>2, <2>3, <2>4, <2>5, <2>6, <2>7 DEF IInv
<1>6. CASE /\ Refuses(e) /\ Retain(e)
           /\ flush' = IF flush = "idle" /\ Len(buffer') >= MaxBuffered THEN "due" ELSE flush
    <2>1. DatabaseOK' /\ accepted \subseteq accepted'
        BY <1>6, RefusesKeeps DEF IInv
    <2>2. /\ QueueOK' /\ FileOK' /\ BufferOK'
          /\ forgone' \subseteq Entry /\ forgone \subseteq forgone'
          /\ undercut' \in BOOLEAN /\ (undercut => undercut') /\ (tore => tore')
          /\ flush = "spool" => undercut' \/ (queue' # << >> /\ writing = Head(queue'))
          /\ Range(queue) \cup Range(buffer) \cup {e}
                \subseteq Range(queue') \cup Range(buffer') \cup forgone'
          /\ \/ /\ Range(queue') \subseteq Range(queue) \cup {e}
                /\ Range(buffer') \subseteq Range(buffer)
             \/ /\ Range(queue') \subseteq Range(queue)
                /\ Range(buffer') \subseteq Range(buffer) \cup {e}
        <3>1. CASE SpoolTakes(e) /\ UNCHANGED buffer
            <4>1. /\ QueueOK' /\ FileOK'
                  /\ forgone' \subseteq Entry /\ forgone \subseteq forgone'
                  /\ undercut' \in BOOLEAN /\ (undercut => undercut')
                  /\ flush = "spool" => undercut' \/ (queue' # << >> /\ writing = Head(queue'))
                  /\ Range(queue') \subseteq Range(queue) \cup {e} /\ e \in Range(queue')
                  /\ Range(queue) \subseteq Range(queue') \cup forgone'
                BY <1>1, <3>1, SpoolTakesKeeps
            <4>2. BufferOK' /\ tore' = tore
                BY <1>1, <1>3, <3>1 DEF IInv, BufferOK, SpoolTakes
            <4> QED
                BY <3>1, <4>1, <4>2
        <3>2. CASE SpoolRefuses(e)
            <4>1. /\ QueueOK' /\ FileOK' /\ BufferOK'
                  /\ forgone' \subseteq Entry /\ forgone \subseteq forgone'
                  /\ undercut' \in BOOLEAN /\ (undercut => undercut') /\ (tore => tore')
                  /\ flush = "spool" => undercut' \/ (queue' # << >> /\ writing = Head(queue'))
                  /\ Range(queue') \subseteq Range(queue)
                  /\ Range(buffer') \subseteq Range(buffer) \cup {e}
                  /\ Range(queue) \subseteq Range(queue') \cup forgone'
                  /\ Range(buffer) \cup {e} \subseteq Range(buffer') \cup forgone'
                BY <1>1, <3>2, SpoolRefusesKeeps
            <4> QED
                BY <4>1
        <3> QED
            BY <1>6, <3>1, <3>2 DEF Retain
    <2>3. Apart'
        BY <1>2, <1>3, <1>4, <2>2 DEF IInv, Apart
    <2>4. DrainOK'
        <3>1. /\ flush' \in {"idle", "due", "spool", "memory"}
              /\ flush' = "spool" <=> flush = "spool"
              /\ flush' = "memory" <=> flush = "memory"
            BY <1>6 DEF IInv, DrainOK
        <3>2. Range(pending) \subseteq 1..e
            BY <1>3, <1>4
        <3> QED
            BY <1>1, <1>2, <2>2, <3>1, <3>2 DEF IInv, DrainOK
    <2>5. CountsOK'
        BY <1>1, <1>2, <1>3, <2>2 DEF IInv, CountsOK
    <2>6. AllAccounted'
        BY <1>1, <1>2, <1>3, <2>1, <2>2 DEF IInv, AllAccounted, Held
    <2> QED
        BY <2>1, <2>2, <2>3, <2>4, <2>5, <2>6 DEF IInv
<1> QED
    BY <1>5, <1>6 DEF Record

(* compact, once some entries have left the queue. *)
LEMMA CompactionKeeps ==
    ASSUME IInv, NEW needed \in BOOLEAN, queue' \in Seq(Entry), Once(queue'),
           Range(queue') \subseteq Range(queue), offered' = offered, tore' = tore,
           Compaction(needed)
    PROVE  FileOK'
<1>1. /\ lines \in Seq(Entry \cup {Torn}) /\ bytes \in Nat
      /\ fragment \in BOOLEAN /\ dirty \in BOOLEAN /\ tore \in BOOLEAN
      /\ diskFaults \in 0..MaxDiskFaults
      /\ OnceInFile(lines) /\ Range(lines) \subseteq 1..offered \cup {Torn}
      /\ fragment => tore
      /\ tore \/ Range(queue) \subseteq Range(lines)
    BY DEF IInv, FileOK, SpooledSurvives
<1>2. Range(queue) \subseteq 1..offered
    BY DEF IInv, QueueOK
<1>3. /\ lines' \in Seq(Entry \cup {Torn}) /\ OnceInFile(lines')
      /\ Range(lines') \subseteq 1..offered \cup {Torn}
      /\ bytes' \in Nat /\ fragment' \in BOOLEAN /\ dirty' \in BOOLEAN
      /\ diskFaults' \in 0..MaxDiskFaults
      /\ fragment' => tore
      /\ tore \/ Range(queue') \subseteq Range(lines')
    <2>1. CASE /\ lines' = queue' /\ fragment' = FALSE /\ bytes' = Len(queue')
               /\ dirty' = FALSE /\ diskFaults' = diskFaults
        <3>1. lines' \in Seq(Entry \cup {Torn}) /\ OnceInFile(lines')
            BY <2>1, QueueToFile
        <3>2. bytes' \in Nat
            BY <2>1, LenProperties
        <3>3. Range(lines') = Range(queue')
            BY <2>1
        <3> QED
            BY <1>1, <1>2, <2>1, <3>1, <3>2, <3>3
    <2>2. CASE UNCHANGED <<file, diskFaults>>
        BY <1>1, <2>2 DEF file
    <2>3. CASE /\ diskFaults < MaxDiskFaults /\ diskFaults' = diskFaults + 1
               /\ dirty' = TRUE /\ UNCHANGED <<lines, fragment, bytes>>
        <3>1. diskFaults' \in 0..MaxDiskFaults
            BY <1>1, <2>3, BacklogAssumption
        <3> QED
            BY <1>1, <2>3, <3>1
    <2> QED
        BY <2>1, <2>2, <2>3 DEF Compaction
<1> QED
    BY <1>1, <1>3 DEF FileOK, SpooledSurvives

(* The memory drain takes the buffer out, or there is nothing and the flush is
   over. *)
LEMMA MemoryLaneKeeps ==
    ASSUME IInv, flush # "memory", offered' = offered, MemoryLane
    PROVE  /\ BufferOK' /\ DrainOK'
           /\ Range(buffer') \cup Range(pending') = Range(buffer) \cup Range(pending)
           /\ Range(buffer') \cap Range(pending') = {}
<1>1. /\ buffer \in Seq(Entry) /\ Once(buffer) /\ Range(buffer) \subseteq 1..offered
      /\ pending = << >> /\ MaxBuffered \in Nat
    BY BacklogAssumption DEF IInv, BufferOK, DrainOK
<1>2. /\ << >> \in Seq(Entry) /\ Range(<< >>) = {} /\ Once(<< >>) /\ Len(<< >>) = 0
    BY EmptyHoldsNothing
<1>3. buffer # << >> => Head(buffer) \in Entry
    BY <1>1, TailTakes
<1>4. buffer' = << >> /\ pending' = buffer /\ failures' = 0
    BY DEF MemoryLane
<1>5. BufferOK'
    BY <1>1, <1>2, <1>4 DEF BufferOK
<1>6. flush' \in {"idle", "memory"} /\ writing' \in 0..MaxEntry
    BY <1>3, EntriesAreNats DEF MemoryLane
<1>7. IF flush' = "memory" THEN pending' # << >> /\ writing' = Head(pending')
                           ELSE pending' = << >>
    BY <1>4 DEF MemoryLane
<1>8. DrainOK'
    BY <1>1, <1>4, <1>6, <1>7 DEF DrainOK
<1> QED
    BY <1>1, <1>2, <1>4, <1>5, <1>8

(* The lane of the spool goes on with the head of its queue, or rewrites the
   file and goes over to the memory. *)
LEMMA SpoolLaneKeeps ==
    ASSUME IInv, flush # "memory", NEW changed \in BOOLEAN, NEW failed \in 0..1,
           queue' \in Seq(Entry), Once(queue'), Range(queue') \subseteq Range(queue),
           offered' = offered, tore' = tore, SpoolLane(changed, failed)
    PROVE  /\ FileOK' /\ BufferOK' /\ DrainOK'
           /\ Range(buffer') \cup Range(pending') = Range(buffer) \cup Range(pending)
           /\ Range(buffer') \cap Range(pending') = {}
<1>1. CASE queue' = << >> /\ Compaction(dirty \/ changed) /\ MemoryLane
    <2>1. FileOK'
        BY <1>1, CompactionKeeps
    <2> QED
        BY <1>1, <2>1, MemoryLaneKeeps
<1>2. CASE /\ queue' # << >>
           /\ flush' = "spool" /\ writing' = Head(queue') /\ failures' = failed
           /\ dirty' = (dirty \/ changed)
           /\ UNCHANGED <<lines, fragment, bytes, buffer, pending, diskFaults>>
    <2>1. pending = << >>
        BY DEF IInv, DrainOK
    <2>2. writing' \in Entry /\ writing' \in 0..MaxEntry
        <3>1. PICK q \in Seq(Entry) : q = queue'
            OBVIOUS
        <3>2. Head(q) \in Entry
            BY <1>2, <3>1, TailTakes
        <3>3. writing' \in Entry
            BY <1>2, <3>1, <3>2
        <3>4. Entry \subseteq 0..MaxEntry
            BY EntriesAreNats
        <3> QED
            BY <3>3, <3>4
    <2>3. FileOK'
        BY <1>2 DEF IInv, FileOK, SpooledSurvives
    <2>4. BufferOK'
        BY <1>2 DEF IInv, BufferOK
    <2>5. DrainOK'
        BY <1>2, <2>1, <2>2 DEF IInv, DrainOK
    <2> QED
        BY <1>2, <2>3, <2>4, <2>5 DEF IInv, Apart
<1> QED
    BY <1>1, <1>2 DEF SpoolLane

(* Whether the lane has changed the file, and how many failures it has met. *)
LEMMA LaneArguments == TRUE \in BOOLEAN /\ FALSE \in BOOLEAN /\ 0 \in 0..1 /\ 1 \in 0..1
OBVIOUS

(* What a step of the drain owes: every entry that was waiting waits on, has
   been written, or is counted as lost. *)
LEMMA AccountKeeps ==
    ASSUME IInv, offered' = offered, undercut' = undercut, tore' = tore,
           accepted \subseteq accepted', forgone \subseteq forgone',
           Held \subseteq Held' \cup accepted' \cup forgone'
    PROVE  AllAccounted'
BY DEF IInv, AllAccounted

LEMMA FlushBeginsKeeps == IInv /\ FlushBegins => IInv'
<1> SUFFICES ASSUME IInv, FlushBegins PROVE IInv'
    OBVIOUS
<1>1. /\ flush # "memory" /\ queue' = queue /\ SpoolLane(FALSE, 0)
      /\ offered' = offered /\ tore' = tore /\ undercut' = undercut
      /\ forgone' = forgone /\ tries' = tries /\ crashes' = crashes
      /\ up' = up /\ row' = row /\ accepted' = accepted /\ outages' = outages
    BY DEF FlushBegins, db
<1>2. queue \in Seq(Entry) /\ Once(queue)
    BY DEF IInv, QueueOK
<1>3. /\ FileOK' /\ BufferOK' /\ DrainOK'
      /\ Range(buffer') \cup Range(pending') = Range(buffer) \cup Range(pending)
      /\ Range(buffer') \cap Range(pending') = {}
    BY <1>1, <1>2, LaneArguments, SpoolLaneKeeps
<1>4. DatabaseOK'
    BY <1>1 DEF IInv, DatabaseOK, RowIsNewestAccepted
<1>5. QueueOK' /\ CountsOK'
    BY <1>1 DEF IInv, QueueOK, CountsOK
<1>6. Apart'
    BY <1>1, <1>3 DEF IInv, Apart
<1>7. Held' = Held
    BY <1>1, <1>3 DEF Held
<1>8. AllAccounted'
    BY <1>1, <1>7, AccountKeeps
<1> QED
    BY <1>3, <1>4, <1>5, <1>6, <1>8 DEF IInv

(* What confirm takes out of the queue is the entry that was written, or that
   is given up; after an append has taken the head, another one. *)
LEMMA ConfirmTakes ==
    ASSUME IInv, flush = "spool"
    PROVE  /\ Shifted(queue) \in Seq(Entry) /\ Once(Shifted(queue))
           /\ Range(Shifted(queue)) \subseteq Range(queue)
           /\ writing \in Entry
           /\ undercut \/ Range(queue) = Range(Shifted(queue)) \cup {writing}
<1>1. queue \in Seq(Entry) /\ Once(queue)
    BY DEF IInv, QueueOK
<1>2. writing \in Entry /\ (undercut \/ (queue # << >> /\ writing = Head(queue)))
    BY DEF IInv, DrainOK
<1> QED
    BY <1>1, <1>2, ShiftedKeeps

LEMMA SpoolAcceptedKeeps == IInv /\ SpoolAccepted => IInv'
<1> SUFFICES ASSUME IInv, SpoolAccepted PROVE IInv'
    OBVIOUS
<1>1. /\ flush = "spool" /\ flush # "memory" /\ Takes(writing) /\ queue' = Shifted(queue)
      /\ tries' = [tries EXCEPT ![writing] = 0] /\ SpoolLane(TRUE, 0)
      /\ offered' = offered /\ tore' = tore /\ undercut' = undercut
      /\ forgone' = forgone /\ crashes' = crashes
    BY DEF SpoolAccepted
<1>2. /\ queue' \in Seq(Entry) /\ Once(queue') /\ Range(queue') \subseteq Range(queue)
      /\ writing \in Entry /\ (undercut \/ Range(queue) = Range(queue') \cup {writing})
    BY <1>1, ConfirmTakes
<1>3. /\ FileOK' /\ BufferOK' /\ DrainOK'
      /\ Range(buffer') \cup Range(pending') = Range(buffer) \cup Range(pending)
      /\ Range(buffer') \cap Range(pending') = {}
    BY <1>1, <1>2, LaneArguments, SpoolLaneKeeps
<1>4. DatabaseOK' /\ accepted' = accepted \cup {writing}
    BY <1>1, <1>2, TakesKeeps DEF IInv
<1>5. QueueOK'
    BY <1>1, <1>2 DEF IInv, QueueOK
<1>6. CountsOK'
    <2>1. 0 \in 0..MaxAttempts - 1
        BY BacklogAssumption
    <2> QED
        BY <1>1, <2>1 DEF IInv, CountsOK
<1>7. Apart'
    BY <1>1, <1>2, <1>3 DEF IInv, Apart
<1>8. AllAccounted'
    <2>1. CASE undercut
        BY <1>1, <2>1 DEF AllAccounted
    <2>2. CASE ~undercut
        BY <1>1, <1>2, <1>3, <1>4, <2>2, AccountKeeps DEF Held
    <2> QED
        BY <2>1, <2>2
<1> QED
    BY <1>3, <1>4, <1>5, <1>6, <1>7, <1>8 DEF IInv

LEMMA SpoolRefusedKeeps == IInv /\ SpoolRefused => IInv'
<1> SUFFICES ASSUME IInv, SpoolRefused PROVE IInv'
    OBVIOUS
<1>1. /\ flush = "spool" /\ flush # "memory" /\ Refuses(writing)
      /\ offered' = offered /\ tore' = tore /\ undercut' = undercut /\ crashes' = crashes
    BY DEF SpoolRefused
<1>2. /\ Shifted(queue) \in Seq(Entry) /\ Once(Shifted(queue))
      /\ Range(Shifted(queue)) \subseteq Range(queue)
      /\ writing \in Entry
      /\ undercut \/ Range(queue) = Range(Shifted(queue)) \cup {writing}
    BY <1>1, ConfirmTakes
<1>3. queue \in Seq(Entry) /\ Once(queue) /\ Range(queue) \subseteq 1..offered
    BY DEF IInv, QueueOK
<1>4. DatabaseOK' /\ accepted \subseteq accepted'
    BY <1>1, <1>2, RefusesKeeps DEF IInv
<1>5. tries \in [Entry -> 0..MaxAttempts - 1] /\ forgone \subseteq Entry /\ MaxAttempts \in Nat \ {0}
    BY BacklogAssumption DEF IInv, CountsOK
<1>6. /\ queue' \in Seq(Entry) /\ Once(queue') /\ Range(queue') \subseteq Range(queue)
      /\ tries' \in [Entry -> 0..MaxAttempts - 1]
      /\ forgone' \subseteq Entry /\ forgone \subseteq forgone'
      /\ undercut \/ Range(queue) \subseteq Range(queue') \cup forgone'
      /\ FileOK' /\ BufferOK' /\ DrainOK'
      /\ Range(buffer') \cup Range(pending') = Range(buffer) \cup Range(pending)
      /\ Range(buffer') \cap Range(pending') = {}
    <2>1. CASE /\ UNCHANGED <<queue, tries, forgone>>
               /\ Compaction(dirty) /\ MemoryLane
        <3>1. dirty \in BOOLEAN
            BY DEF IInv, FileOK
        <3>2. FileOK'
            BY <1>1, <1>3, <2>1, <3>1, CompactionKeeps
        <3>3. /\ BufferOK' /\ DrainOK'
              /\ Range(buffer') \cup Range(pending') = Range(buffer) \cup Range(pending)
              /\ Range(buffer') \cap Range(pending') = {}
            BY <1>1, <2>1, MemoryLaneKeeps
        <3> QED
            BY <1>3, <1>5, <2>1, <3>2, <3>3
    <2>2. CASE /\ tries[writing] + 1 < MaxAttempts
               /\ queue' = Rotated(queue)
               /\ tries' = [tries EXCEPT ![writing] = @ + 1]
               /\ SpoolLane(TRUE, 1)
               /\ UNCHANGED forgone
        <3>1. queue' \in Seq(Entry) /\ Once(queue') /\ Range(queue') = Range(queue)
            BY <1>3, <2>2, RotatedKeeps
        <3>2. /\ FileOK' /\ BufferOK' /\ DrainOK'
              /\ Range(buffer') \cup Range(pending') = Range(buffer) \cup Range(pending)
              /\ Range(buffer') \cap Range(pending') = {}
            BY <1>1, <2>2, <3>1, LaneArguments, SpoolLaneKeeps
        <3>3. tries[writing] + 1 \in 0..MaxAttempts - 1
            BY <1>2, <1>5, <2>2
        <3> QED
            BY <1>5, <2>2, <3>1, <3>2, <3>3
    <2>3. CASE /\ queue' = Shifted(queue)
               /\ tries' = [tries EXCEPT ![writing] = 0]
               /\ forgone' = forgone \cup {writing}
               /\ SpoolLane(TRUE, 1)
        <3>1. /\ FileOK' /\ BufferOK' /\ DrainOK'
              /\ Range(buffer') \cup Range(pending') = Range(buffer) \cup Range(pending)
              /\ Range(buffer') \cap Range(pending') = {}
            BY <1>1, <1>2, <2>3, LaneArguments, SpoolLaneKeeps
        <3>2. 0 \in 0..MaxAttempts - 1
            BY <1>5
        <3> QED
            BY <1>2, <1>5, <2>3, <3>1, <3>2
    <2> QED
        BY <2>1, <2>2, <2>3 DEF SpoolRefused
<1>7. QueueOK'
    BY <1>1, <1>3, <1>6 DEF QueueOK
<1>8. CountsOK'
    BY <1>1, <1>6 DEF IInv, CountsOK
<1>9. Apart'
    BY <1>6 DEF IInv, Apart
<1>10. AllAccounted'
    <2>1. CASE undercut
        BY <1>1, <2>1 DEF AllAccounted
    <2>2. CASE ~undercut
        BY <1>1, <1>4, <1>6, <2>2, AccountKeeps DEF Held
    <2> QED
        BY <2>1, <2>2
<1> QED
    BY <1>4, <1>6, <1>7, <1>8, <1>9, <1>10 DEF IInv

(* The entry the drain has dealt with leaves its hands, and no other. *)
LEMMA MemoryGoesOnKeeps ==
    ASSUME IInv, flush = "memory", MemoryGoesOn
    PROVE  /\ pending' \in Seq(Entry) /\ Once(pending')
           /\ writing \in Entry /\ writing \notin Range(pending')
           /\ Range(pending) = Range(pending') \cup {writing}
           /\ offered' = offered /\ failures' \in 0..1 => DrainOK'
<1>1. /\ pending \in Seq(Entry) /\ Once(pending) /\ pending # << >>
      /\ Range(pending) \subseteq 1..offered /\ writing = Head(pending)
    BY DEF IInv, DrainOK
<1>2. /\ pending' \in Seq(Entry) /\ Once(pending')
      /\ writing \in Entry /\ writing \notin Range(pending')
      /\ Range(pending) = Range(pending') \cup {writing}
    BY <1>1, TailTakes DEF MemoryGoesOn
<1>3. writing' \in 0..MaxEntry
    <2>1. CASE pending' = << >>
        BY <2>1, EntriesAreNats DEF MemoryGoesOn
    <2>2. CASE pending' # << >>
        <3>1. PICK q \in Seq(Entry) : q = pending'
            BY <1>2
        <3>2. Head(q) \in Entry
            BY <2>2, <3>1, TailTakes
        <3>3. writing' \in Entry
            BY <2>2, <3>1, <3>2 DEF MemoryGoesOn
        <3>4. Entry \subseteq 0..MaxEntry
            BY EntriesAreNats
        <3> QED
            BY <3>3, <3>4
    <2> QED
        BY <2>1, <2>2
<1>4. /\ flush' \in {"idle", "memory"}
      /\ IF flush' = "memory" THEN pending' # << >> /\ writing' = Head(pending')
                              ELSE pending' = << >>
    BY DEF MemoryGoesOn
<1>5. ASSUME offered' = offered, failures' \in 0..1 PROVE DrainOK'
    <2>1. Range(pending') \subseteq 1..offered'
        BY <1>1, <1>2, <1>5
    <2> QED
        BY <1>2, <1>3, <1>4, <1>5, <2>1 DEF DrainOK
<1> QED
    BY <1>2, <1>5

LEMMA MemoryAcceptedKeeps == IInv /\ MemoryAccepted => IInv'
<1> SUFFICES ASSUME IInv, MemoryAccepted PROVE IInv'
    OBVIOUS
<1>1. /\ flush = "memory" /\ Takes(writing) /\ MemoryGoesOn /\ failures' = 0
      /\ tries' = [tries EXCEPT ![writing] = 0]
      /\ offered' = offered /\ queue' = queue /\ buffer' = buffer /\ forgone' = forgone
      /\ undercut' = undercut /\ tore' = tore /\ crashes' = crashes
      /\ lines' = lines /\ fragment' = fragment /\ bytes' = bytes /\ dirty' = dirty
      /\ diskFaults' = diskFaults
    BY DEF MemoryAccepted, file
<1>2. /\ writing \in Entry /\ writing \notin Range(pending')
      /\ Range(pending) = Range(pending') \cup {writing}
      /\ DrainOK'
    BY <1>1, LaneArguments, MemoryGoesOnKeeps
<1>3. DatabaseOK' /\ accepted' = accepted \cup {writing}
    BY <1>1, <1>2, TakesKeeps DEF IInv
<1>4. QueueOK' /\ BufferOK'
    BY <1>1 DEF IInv, QueueOK, BufferOK
<1>5. FileOK'
    BY <1>1 DEF IInv, FileOK, SpooledSurvives
<1>6. CountsOK'
    <2>1. 0 \in 0..MaxAttempts - 1
        BY BacklogAssumption
    <2> QED
        BY <1>1, <2>1 DEF IInv, CountsOK
<1>7. Apart'
    BY <1>1, <1>2 DEF IInv, Apart
<1>8. AllAccounted'
    BY <1>1, <1>2, <1>3, AccountKeeps DEF Held
<1> QED
    BY <1>2, <1>3, <1>4, <1>5, <1>6, <1>7, <1>8 DEF IInv

LEMMA MemoryRefusedKeeps == IInv /\ MemoryRefused => IInv'
<1> SUFFICES ASSUME IInv, MemoryRefused PROVE IInv'
    OBVIOUS
<1>1. /\ flush = "memory" /\ Refuses(writing)
      /\ offered' = offered /\ queue' = queue
      /\ undercut' = undercut /\ tore' = tore /\ crashes' = crashes
      /\ lines' = lines /\ fragment' = fragment /\ bytes' = bytes /\ dirty' = dirty
      /\ diskFaults' = diskFaults
    BY DEF MemoryRefused, file
<1>2. /\ pending \in Seq(Entry) /\ Once(pending) /\ Range(pending) \subseteq 1..offered
      /\ pending # << >> /\ writing = Head(pending) /\ writing \in 0..MaxEntry
      /\ buffer \in Seq(Entry) /\ Once(buffer) /\ Range(buffer) \subseteq 1..offered
      /\ Range(queue) \cap (Range(buffer) \cup Range(pending)) = {}
      /\ Range(buffer) \cap Range(pending) = {}
    BY <1>1 DEF IInv, DrainOK, BufferOK, Apart
<1>3. /\ writing \in Entry /\ writing \in Range(pending)
      /\ Range(buffer) \subseteq Entry /\ Range(pending) \subseteq Entry
    BY <1>2, TailTakes, RangeOfSeq
<1>4. DatabaseOK' /\ accepted \subseteq accepted'
    BY <1>1, <1>3, RefusesKeeps DEF IInv
<1>5. /\ tries \in [Entry -> 0..MaxAttempts - 1] /\ forgone \subseteq Entry
      /\ MaxAttempts \in Nat \ {0} /\ Len(buffer) <= MaxBuffered
    BY BacklogAssumption DEF IInv, CountsOK, BufferOK
<1>6. /\ buffer' \in Seq(Entry) /\ Once(buffer') /\ Len(buffer') <= MaxBuffered
      /\ DrainOK'
      /\ tries' \in [Entry -> 0..MaxAttempts - 1]
      /\ forgone' \subseteq Entry /\ forgone \subseteq forgone'
      /\ Range(buffer') \cup Range(pending') \subseteq Range(buffer) \cup Range(pending)
      /\ Range(buffer) \cup Range(pending) \subseteq Range(buffer') \cup Range(pending') \cup forgone'
      /\ Range(buffer') \cap Range(pending') = {}
    <2>1. CASE /\ buffer' = Pushed(buffer, HandedBack)
               /\ forgone' = forgone \cup (Range(buffer \o HandedBack) \ Range(buffer'))
               /\ pending' = << >> /\ flush' = "idle" /\ writing' = 0 /\ failures' = 0
               /\ UNCHANGED tries
        <3>1. /\ buffer' \in Seq(Entry) /\ Once(buffer') /\ Len(buffer') <= MaxBuffered
              /\ Range(buffer') \subseteq Range(buffer) \cup Range(pending)
            BY <1>2, <2>1, PushedBounded DEF HandedBack
        <3>2. Range(buffer \o HandedBack) = Range(buffer) \cup Range(pending)
            BY <1>2, RangeConcatenation DEF HandedBack
        <3>3. DrainOK'
            BY <1>2, <2>1, EmptyHoldsNothing, EntriesAreNats, LaneArguments DEF DrainOK
        <3> QED
            BY <1>3, <1>5, <2>1, <3>1, <3>2, <3>3, EmptyHoldsNothing
    <2>2. CASE /\ tries[writing] + 1 < MaxAttempts
               /\ buffer' = Pushed(buffer, <<writing>>)
               /\ forgone' = forgone \cup (Range(Append(buffer, writing)) \ Range(buffer'))
               /\ tries' = [tries EXCEPT ![writing] = @ + 1]
               /\ MemoryGoesOn
               /\ failures' = IF pending' = << >> THEN 0 ELSE 1
        <3>1. /\ writing \notin Range(pending')
              /\ Range(pending) = Range(pending') \cup {writing}
              /\ DrainOK'
            BY <1>1, <2>2, LaneArguments, MemoryGoesOnKeeps
        <3>2. PICK w \in Entry : w = writing
            BY <1>3
        <3>3. <<w>> \in Seq(Entry) /\ Range(<<w>>) = {w} /\ Once(<<w>>)
            BY DEF Range, Once
        <3>4. PICK one \in Seq(Entry) : one = <<w>>
            BY <3>3
        <3>5. Range(buffer) \cap Range(one) = {}
            BY <1>2, <1>3, <3>2, <3>3, <3>4
        <3>6. buffer' = Pushed(buffer, one)
            BY <2>2, <3>2, <3>4
        <3>7. /\ buffer' \in Seq(Entry) /\ Once(buffer') /\ Len(buffer') <= MaxBuffered
              /\ Range(buffer') \subseteq Range(buffer) \cup {w}
            BY <1>2, <3>3, <3>4, <3>5, <3>6, PushedBounded
        <3>8. Range(Append(buffer, writing)) = Range(buffer) \cup {w}
            BY <1>2, <3>2, AppendAdds
        <3>9. tries[writing] + 1 \in 0..MaxAttempts - 1
            BY <1>3, <1>5, <2>2
        <3>10. tries' \in [Entry -> 0..MaxAttempts - 1]
            BY <1>5, <2>2, <3>9
        <3>11. forgone' = forgone \cup ((Range(buffer) \cup {w}) \ Range(buffer'))
            BY <2>2, <3>8
        <3> QED
            BY <1>2, <1>3, <1>5, <3>1, <3>2, <3>7, <3>10, <3>11
    <2>3. CASE /\ forgone' = forgone \cup {writing}
               /\ tries' = [tries EXCEPT ![writing] = 0]
               /\ MemoryGoesOn
               /\ failures' = IF pending' = << >> THEN 0 ELSE 1
               /\ UNCHANGED buffer
        <3>1. /\ Range(pending) = Range(pending') \cup {writing}
              /\ DrainOK'
            BY <1>1, <2>3, LaneArguments, MemoryGoesOnKeeps
        <3>2. 0 \in 0..MaxAttempts - 1
            BY <1>5
        <3> QED
            BY <1>2, <1>3, <1>5, <2>3, <3>1, <3>2
    <2> QED
        BY <2>1, <2>2, <2>3 DEF MemoryRefused
<1>7. BufferOK'
    BY <1>1, <1>2, <1>6 DEF BufferOK
<1>8. QueueOK' /\ FileOK'
    BY <1>1 DEF IInv, QueueOK, FileOK, SpooledSurvives
<1>9. CountsOK'
    BY <1>1, <1>6 DEF IInv, CountsOK
<1>10. Apart'
    BY <1>1, <1>2, <1>6 DEF Apart
<1>11. AllAccounted'
    BY <1>1, <1>4, <1>6, AccountKeeps DEF Held
<1> QED
    BY <1>4, <1>6, <1>7, <1>8, <1>9, <1>10, <1>11 DEF IInv

LEMMA OutageKeeps == IInv /\ (GoesDown \/ ComesBack) => IInv'
<1> SUFFICES ASSUME IInv, GoesDown \/ ComesBack PROVE IInv'
    OBVIOUS
<1>1. /\ offered' = offered /\ row' = row /\ accepted' = accepted
      /\ lines' = lines /\ fragment' = fragment /\ bytes' = bytes /\ dirty' = dirty
      /\ queue' = queue /\ buffer' = buffer /\ flush' = flush /\ writing' = writing
      /\ failures' = failures /\ pending' = pending /\ tries' = tries /\ forgone' = forgone
      /\ undercut' = undercut /\ tore' = tore /\ crashes' = crashes /\ diskFaults' = diskFaults
    BY DEF GoesDown, ComesBack, file, drain
<1>2. up' \in BOOLEAN /\ outages' \in 0..MaxOutages
    <2>1. outages \in 0..MaxOutages /\ MaxOutages \in Nat
        BY BacklogAssumption DEF IInv, DatabaseOK
    <2>2. CASE GoesDown
        <3>1. up' = FALSE /\ outages < MaxOutages /\ outages' = outages + 1
            BY <2>2 DEF GoesDown
        <3>2. outages' \in 0..MaxOutages
            BY <2>1, <3>1
        <3> QED
            BY <3>1, <3>2
    <2>3. CASE ComesBack
        BY <2>1, <2>3 DEF ComesBack
    <2> QED
        BY <2>2, <2>3
<1>3. DatabaseOK'
    BY <1>1, <1>2 DEF IInv, DatabaseOK, RowIsNewestAccepted
<1>4. QueueOK' /\ FileOK' /\ BufferOK'
    BY <1>1 DEF IInv, QueueOK, FileOK, SpooledSurvives, BufferOK
<1>5. DrainOK' /\ CountsOK' /\ Apart'
    BY <1>1 DEF IInv, DrainOK, CountsOK, Apart
<1>6. AllAccounted'
    BY <1>1 DEF IInv, AllAccounted, Held
<1> QED
    BY <1>3, <1>4, <1>5, <1>6 DEF IInv

(* Boot finds in the file what the queue held, unless an append was interrupted,
   and what was in memory is counted as lost. *)
LEMMA DiesKeeps == ASSUME NEW e \in Entry \cup {0} PROVE IInv /\ Dies(e) => IInv'
<1> SUFFICES ASSUME IInv, Dies(e) PROVE IInv'
    OBVIOUS
<1>1. /\ crashes < MaxCrashes /\ crashes' = crashes + 1 /\ Boots
      /\ up' = up /\ row' = row /\ accepted' = accepted /\ outages' = outages
      /\ undercut' = undercut /\ diskFaults' = diskFaults
    BY DEF Dies, db
<1>2. /\ queue' = Parsed(lines') /\ buffer' = << >> /\ pending' = << >>
      /\ bytes' = Len(lines') + (IF fragment' THEN 1 ELSE 0)
      /\ dirty' = (fragment' \/ Torn \in Range(lines'))
      /\ flush' = "idle" /\ writing' = 0 /\ failures' = 0
      /\ tries' = [d \in Entry |-> 0]
    BY <1>1 DEF Boots
<1>3. /\ lines \in Seq(Entry \cup {Torn}) /\ OnceInFile(lines)
      /\ Range(lines) \subseteq 1..offered \cup {Torn}
      /\ fragment \in BOOLEAN /\ tore \in BOOLEAN /\ (fragment => tore)
      /\ tore \/ Range(queue) \subseteq Range(lines)
      /\ diskFaults \in 0..MaxDiskFaults
    BY DEF IInv, FileOK, SpooledSurvives
<1>4. /\ offered \in 0..MaxEntry /\ forgone \subseteq Entry /\ undercut \in BOOLEAN
      /\ crashes \in 0..MaxCrashes /\ MaxCrashes \in Nat /\ MaxAttempts \in Nat \ {0}
      /\ Torn \notin Entry
    BY BacklogAssumption DEF IInv, CountsOK
<1>5. /\ queue \in Seq(Entry) /\ Range(queue) \subseteq Entry
      /\ Range(buffer) \subseteq Entry /\ Range(pending) \subseteq Entry
    BY RangeOfSeq DEF IInv, QueueOK, BufferOK, DrainOK
<1>6. \/ /\ e = 0 /\ offered' = offered /\ lines' = lines
         /\ fragment' = fragment /\ tore' = tore
         /\ forgone' = forgone \cup Range(buffer) \cup Range(pending)
      \/ /\ e \in Entry /\ e = offered + 1 /\ offered' = e
         /\ lines' = lines \/ lines' = << >>
         /\ fragment' = TRUE /\ tore' = TRUE
         /\ forgone' = forgone \cup Range(buffer) \cup Range(pending)
                              \cup {e} \cup (Range(queue) \ Range(Kept))
    <2>1. CASE e = 0
        <3>1. offered + 1 # 0
            BY <1>4
        <3> QED
            BY <2>1, <3>1 DEF Dies
    <2>2. CASE e # 0
        BY <2>2 DEF Dies
    <2> QED
        BY <2>1, <2>2
<1>7. /\ offered' \in 0..MaxEntry /\ 1..offered \subseteq 1..offered'
      /\ fragment' \in BOOLEAN /\ tore' \in BOOLEAN /\ (fragment' => tore') /\ (tore => tore')
      /\ forgone' \subseteq Entry
    <2>1. CASE /\ e = 0 /\ offered' = offered /\ fragment' = fragment /\ tore' = tore
               /\ forgone' = forgone \cup Range(buffer) \cup Range(pending)
        BY <1>3, <1>4, <1>5, <2>1
    <2>2. CASE /\ e \in Entry /\ e = offered + 1 /\ offered' = e
               /\ fragment' = TRUE /\ tore' = TRUE
               /\ forgone' = forgone \cup Range(buffer) \cup Range(pending)
                                    \cup {e} \cup (Range(queue) \ Range(Kept))
        <3>1. 1..e = (1..offered) \cup {e} /\ e \in 0..MaxEntry
            BY <2>2, NextEntry DEF IInv
        <3> QED
            BY <1>4, <1>5, <2>2, <3>1
    <2> QED
        BY <1>6, <2>1, <2>2
<1>8. /\ lines' \in Seq(Entry \cup {Torn}) /\ OnceInFile(lines') /\ Len(lines') \in Nat
      /\ Range(lines') \subseteq 1..offered \cup {Torn}
      /\ queue' \in Seq(Entry) /\ Range(queue') = Range(lines') \ {Torn} /\ Once(queue')
    <2>1. /\ lines' \in Seq(Entry \cup {Torn}) /\ OnceInFile(lines')
          /\ Range(lines') \subseteq 1..offered \cup {Torn}
        <3>1. << >> \in Seq(Entry \cup {Torn}) /\ OnceInFile(<< >>) /\ Range(<< >>) = {}
            BY EmptyHoldsNothing, QueueToFile
        <3> QED
            BY <1>3, <1>6, <3>1
    <2> QED
        BY <1>2, <2>1, ParsedReadsEntries, LenProperties
<1>9. DatabaseOK'
    BY <1>1 DEF IInv, DatabaseOK, RowIsNewestAccepted
<1>10. QueueOK'
    <2>1. Range(queue') \subseteq 1..offered
        BY <1>3, <1>8
    <2> QED
        BY <1>7, <1>8, <2>1 DEF QueueOK
<1>11. FileOK'
    <2>1. bytes' \in Nat /\ dirty' \in BOOLEAN
        BY <1>2, <1>7, <1>8
    <2>2. Range(lines') \subseteq 1..offered' \cup {Torn}
        BY <1>7, <1>8
    <2>3. Range(queue') \subseteq Range(lines')
        BY <1>8
    <2> QED
        BY <1>1, <1>3, <1>7, <1>8, <2>1, <2>2, <2>3 DEF FileOK, SpooledSurvives
<1>12. BufferOK'
    <2>1. Len(<< >>) = 0 /\ MaxBuffered \in Nat
        BY BacklogAssumption
    <2> QED
        BY <1>2, <2>1, EmptyHoldsNothing DEF BufferOK
<1>13. DrainOK'
    BY <1>2, EmptyHoldsNothing, EntriesAreNats, LaneArguments DEF DrainOK
<1>14. CountsOK'
    <2>1. crashes' \in 0..MaxCrashes
        BY <1>1, <1>4
    <2>2. tries' \in [Entry -> 0..MaxAttempts - 1]
        <3>1. 0 \in 0..MaxAttempts - 1
            BY <1>4
        <3> QED
            BY <1>2, <3>1
    <2> QED
        BY <1>1, <1>4, <1>7, <2>1, <2>2 DEF CountsOK
<1>15. Apart'
    BY <1>2, EmptyHoldsNothing DEF Apart
<1>16. AllAccounted'
    <2>1. CASE tore'
        BY <2>1 DEF AllAccounted
    <2>2. CASE ~tore'
        <3>1. /\ offered' = offered /\ tore' = tore /\ lines' = lines
              /\ forgone' = forgone \cup Range(buffer) \cup Range(pending)
            BY <1>6, <2>2
        <3>2. Range(queue) \subseteq Range(queue')
            BY <1>3, <1>8, <1>4, <1>5, <2>2, <3>1
        <3> QED
            BY <1>1, <3>1, <3>2, AccountKeeps DEF Held
    <2> QED
        BY <2>1, <2>2
<1> QED
    BY <1>9, <1>10, <1>11, <1>12, <1>13, <1>14, <1>15, <1>16 DEF IInv

(***************************************************************************)
(* The invariant.                                                          *)
(***************************************************************************)

LEMMA InitIInv == Init => IInv
<1> SUFFICES ASSUME Init PROVE IInv
    OBVIOUS
<1>1. /\ offered = 0 /\ up = TRUE /\ row = [b \in Bucket |-> 0]
      /\ lines = << >> /\ fragment = FALSE /\ queue = << >> /\ bytes = 0 /\ dirty = FALSE
      /\ buffer = << >> /\ pending = << >> /\ flush = "idle" /\ writing = 0 /\ failures = 0
      /\ tries = [e \in Entry |-> 0] /\ accepted = {} /\ forgone = {}
      /\ undercut = FALSE /\ tore = FALSE /\ crashes = 0 /\ diskFaults = 0 /\ outages = 0
    BY DEF Init
<1>2. /\ MaxEntry \in Nat /\ MaxAttempts \in Nat \ {0} /\ MaxBuffered \in Nat
      /\ MaxCrashes \in Nat /\ MaxDiskFaults \in Nat /\ MaxOutages \in Nat
    BY BacklogAssumption
<1>3. /\ << >> \in Seq(Entry) /\ Range(<< >>) = {} /\ Once(<< >>) /\ Len(<< >>) = 0
      /\ << >> \in Seq(Entry \cup {Torn}) /\ OnceInFile(<< >>)
    BY EmptyHoldsNothing, QueueToFile
<1>4. DatabaseOK
    <2>1. 0 \in 0..MaxOutages /\ 0 \in 0..MaxEntry
        BY <1>2
    <2> QED
        BY <1>1, <2>1 DEF DatabaseOK, RowIsNewestAccepted
<1>5. QueueOK /\ BufferOK
    BY <1>1, <1>2, <1>3 DEF QueueOK, BufferOK
<1>6. FileOK
    <2>1. 0 \in Nat /\ 0 \in 0..MaxDiskFaults
        BY <1>2
    <2> QED
        BY <1>1, <1>3, <2>1 DEF FileOK, SpooledSurvives
<1>7. DrainOK
    <2>1. 0 \in 0..MaxEntry /\ 0 \in 0..1
        BY <1>2
    <2> QED
        BY <1>1, <1>3, <2>1 DEF DrainOK
<1>8. CountsOK
    <2>1. 0 \in 0..MaxEntry /\ 0 \in 0..MaxCrashes /\ 0 \in 0..MaxAttempts - 1
        BY <1>2
    <2> QED
        BY <1>1, <2>1 DEF CountsOK
<1>9. Apart
    BY <1>1, <1>3 DEF Apart
<1>10. AllAccounted
    <2>1. 1..0 = {}
        OBVIOUS
    <2> QED
        BY <1>1, <2>1 DEF AllAccounted
<1> QED
    BY <1>4, <1>5, <1>6, <1>7, <1>8, <1>9, <1>10 DEF IInv

LEMMA NextIInv == IInv /\ [Next]_vars => IInv'
<1> SUFFICES ASSUME IInv, [Next]_vars PROVE IInv'
    OBVIOUS
<1>1. ASSUME NEW e \in Entry, Record(e) PROVE IInv'
    BY <1>1, RecordKeeps
<1>2. CASE FlushBegins
    BY <1>2, FlushBeginsKeeps
<1>3. CASE SpoolAccepted
    BY <1>3, SpoolAcceptedKeeps
<1>4. CASE SpoolRefused
    BY <1>4, SpoolRefusedKeeps
<1>5. CASE MemoryAccepted
    BY <1>5, MemoryAcceptedKeeps
<1>6. CASE MemoryRefused
    BY <1>6, MemoryRefusedKeeps
<1>7. CASE GoesDown \/ ComesBack
    BY <1>7, OutageKeeps
<1>8. ASSUME NEW e \in Entry \cup {0}, Dies(e) PROVE IInv'
    BY <1>8, DiesKeeps
<1>9. CASE UNCHANGED vars
    <2>1. /\ offered' = offered /\ up' = up /\ row' = row /\ accepted' = accepted
          /\ outages' = outages /\ lines' = lines /\ fragment' = fragment /\ bytes' = bytes
          /\ dirty' = dirty /\ queue' = queue /\ buffer' = buffer /\ flush' = flush
          /\ writing' = writing /\ failures' = failures /\ pending' = pending
          /\ tries' = tries /\ forgone' = forgone /\ undercut' = undercut /\ tore' = tore
          /\ crashes' = crashes /\ diskFaults' = diskFaults
        BY <1>9 DEF vars, db, file, drain
    <2>2. DatabaseOK' /\ QueueOK' /\ FileOK' /\ BufferOK'
        BY <2>1 DEF IInv, DatabaseOK, RowIsNewestAccepted, QueueOK, FileOK,
                    SpooledSurvives, BufferOK
    <2>3. DrainOK' /\ CountsOK' /\ Apart' /\ AllAccounted'
        BY <2>1 DEF IInv, DrainOK, CountsOK, Apart, AllAccounted, Held
    <2> QED
        BY <2>2, <2>3 DEF IInv
<1> QED
    BY <1>1, <1>2, <1>3, <1>4, <1>5, <1>6, <1>7, <1>8, <1>9 DEF Next

(* Whatever the drain, the appends, the outages, the disk and the crashes do in
   whatever order, the parts of the backlog keep their invariant. *)
THEOREM InductiveInvariant == Spec => []IInv
<1> QED
    BY InitIInv, NextIInv, PTL DEF Spec

(* The spool, the buffer and the drain hold what their types say; the buffer
   never holds more than its ceiling (bounded-write-buffer.ts). *)
THEOREM TypeCorrect == Spec => []TypeOK
<1>1. IInv => TypeOK
    BY DEF IInv, DatabaseOK, QueueOK, FileOK, BufferOK, DrainOK, CountsOK, TypeOK
<1> QED
    BY <1>1, InductiveInvariant, PTL

(* The row of an hour is the newest entry of that hour the database has taken,
   in whatever order the backlog replays them. *)
THEOREM RowsShowTheNewest == Spec => []RowIsNewestAccepted
<1>1. IInv => RowIsNewestAccepted
    BY DEF IInv, DatabaseOK
<1> QED
    BY <1>1, InductiveInvariant, PTL

(* An entry that waits is in one place and there once; an entry that was offered
   is written, waits, or is counted as lost, as long as no append has evicted
   the entry the drain awaited and none was interrupted. *)
THEOREM OneOwner == Spec => []OneOwnerUntilWritten
<1>1. IInv => OneOwnerUntilWritten
    <2> SUFFICES ASSUME IInv PROVE OneOwnerUntilWritten
        OBVIOUS
    <2>1. Apart /\ AllAccounted
        BY DEF IInv
    <2>2. Once(queue) /\ Once(buffer) /\ Once(pending)
        BY DEF IInv, QueueOK, BufferOK, DrainOK
    <2>3. \A q \in {queue, buffer, pending} : Once(q)
        BY <2>2
    <2>4. \A q \in {queue, buffer, pending} : \A i, j \in DOMAIN q : q[i] = q[j] => i = j
        BY <2>3 DEF Once
    <2> QED
        BY <2>1, <2>4 DEF Apart, AllAccounted, OneOwnerUntilWritten
<1> QED
    BY <1>1, InductiveInvariant, PTL

(* A crash at any point loses nothing of the spool's queue, unless an append has
   been interrupted before. *)
THEOREM SpoolOutlivesCrash == Spec => []SpooledSurvives
<1>1. IInv => SpooledSurvives
    BY DEF IInv, FileOK
<1> QED
    BY <1>1, InductiveInvariant, PTL
===============================================================================
