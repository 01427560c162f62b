------------------------------ MODULE CandleStore ------------------------------
(***************************************************************************)
(* One series of market_candles and its two writers: the ingestion of      *)
(* history/ingestion.service.ts, in every process that believes it leads,  *)
(* and the operator's backfill of history/backfill.service.ts.             *)
(*                                                                         *)
(* Time is counted in bars: bar b opens at b and closes at b + 1.  Between *)
(* the clock a writer reads, the snapshot the venue takes for it, the      *)
(* arrival of the answer and each write, bars close and others write.      *)
(***************************************************************************)
EXTENDS Naturals, FiniteSets, FiniteSetsExt

CONSTANTS
    Writer,         \* processes that ingest
    LastBar,        \* bound: the clock stops when this bar has opened
    Start,          \* the bar that forms at the beginning
    Limit,          \* bars of an ingestion request
    PageSize,       \* bars of a backfill page
    Target,         \* where the backfill is to stop
    Budget          \* bars a backfill may write

ASSUME StoreAssumption ==
    /\ {LastBar, Start, Limit, PageSize, Target, Budget} \subseteq Nat
    /\ Start <= LastBar /\ Limit > 0 /\ PageSize > 0

Bar == 0..LastBar
None == LastBar + 1     \* no row: below nothing that is stored

VARIABLES
    now,
    malformed,  \* bars the venue serves in a shape the table refuses
    row,        \* row[b]: "none", not closed, or closed; see Row
    ingest,     \* ingest[w]: the run of w
    fill,       \* the backfill
    jumped      \* history: bars an ingestion left out when it wrote below the others

vars == <<now, malformed, row, ingest, fill, jumped>>

(* A row that is closed holds the bar as it ended, or a snapshot of a bar that
   was still moving: `early`. *)
Row == {"none", "forming", "early", "final"}

(* isCandleClosed *)
IsClosed(b, at) == at >= b + 1

(* Mutation: the clock is taken to be the venue's, or the answer's. *)
CandleClosedOnArrival(b, snapshot, closed) ==
    IF IsClosed(b, now) THEN (IF IsClosed(b, snapshot) THEN "final" ELSE "early")
    ELSE "forming"

(* What a snapshot says of bar b, stored as closed or not. *)
Candle(b, snapshot, closed) ==
    IF ~closed THEN "forming" ELSE IF IsClosed(b, snapshot) THEN "final" ELSE "early"

(* Mutation: the newest write wins. *)
PutNewest(old, new) == new

(* UPSERT_SQL: a finished bar is not turned into a forming one. *)
Put(old, new) ==
    IF old \in {"early", "final"} /\ new = "forming" THEN old ELSE new

(* oldestStored *)
Oldest(rows) == IF \A b \in Bar : rows[b] = "none" THEN None
                ELSE CHOOSE b \in Bar : rows[b] # "none" /\
                                        \A c \in Bar : rows[c] # "none" => b <= c

(* Mutation: the end of the request is taken to exclude its bar. *)
NewestButOne(n, below, snapshot) ==
    {b \in Bar : b + 1 < below /\ b <= snapshot /\ b + n >= Min({below - 1, snapshot + 1})}

(* The newest n bars below a bar, as the venue has them at a moment. *)
Newest(n, below, snapshot) ==
    {b \in Bar : b < below /\ b <= snapshot /\ b + n >= Min({below, snapshot + 1})}

(* dropStillFormingCandles, toCandles: by the clock when the answer is here. *)
Dropped(bars, arrival) == {b \in bars : ~IsClosed(b, arrival)}

Resting == [at |-> "rest"]
Asked(clock) == [at |-> "asked", clock |-> clock]
Read(clock, snapshot) == [at |-> "read", clock |-> clock, snapshot |-> snapshot]
Writing(clock, snapshot, next, last) ==
    [at |-> "write", clock |-> clock, snapshot |-> snapshot, next |-> next, last |-> last]

Runs == {Resting} \cup {Asked(c) : c \in Bar} \cup {Read(c, s) : c, s \in Bar}
            \cup {Writing(c, s, n, l) : c, s, n, l \in Bar}

(* `oldest` is the cursor of the page, `top` the lowest bar above the run. *)
Fills ==
    [at : {"rest", "loop", "target_reached", "no_more_bars", "budget_exhausted"},
     top : Bar \cup {None}, written : 0..Budget + PageSize]
    \cup [at : {"asked", "read"}, top : Bar \cup {None}, written : 0..Budget,
          oldest : Bar \cup {None}, clock : Bar, snapshot : Bar]
    \cup [at : {"write"}, top : Bar \cup {None}, written : 0..Budget,
          oldest : Bar \cup {None}, snapshot : Bar, page : SUBSET Bar]

TypeOK ==
    /\ now \in Bar
    /\ malformed \subseteq Bar
    /\ row \in [Bar -> Row]
    /\ ingest \in [Writer -> Runs]
    /\ fill \in Fills
    /\ jumped \subseteq Bar
    /\ \A b \in malformed : row[b] = "none"

Init ==
    /\ now = Start
    /\ malformed \in {bars \in SUBSET Bar : Cardinality(bars) <= 1}
    /\ row = [b \in Bar |-> "none"]
    /\ ingest = [w \in Writer |-> Resting]
    /\ fill = [at |-> "rest", top |-> None, written |-> 0]
    /\ jumped = {}

Tick ==
    /\ now < LastBar /\ now' = now + 1
    /\ UNCHANGED <<malformed, row, ingest, fill, jumped>>

-------------------------------------------------------------------------------
(* ingestOnce.  The clock is read before the venue is asked.  A call that finds
   a run of its process under way joins it (the scheduler's inFlight). *)
IngestBegins(w) ==
    /\ ingest[w] = Resting
    /\ ingest' = [ingest EXCEPT ![w] = Asked(now)]
    /\ UNCHANGED <<now, malformed, row, fill, jumped>>

VenueReads(w) ==
    /\ ingest[w].at = "asked"
    /\ ingest' = [ingest EXCEPT ![w] = Read(ingest[w].clock, now)]
    /\ UNCHANGED <<now, malformed, row, fill, jumped>>

(* fetchHistoricalForSeries refuses an answer with a bar that opened after the
   clock was read; an empty one is the end of the run. *)
IngestReceives(w) ==
    /\ ingest[w].at = "read"
    /\ LET run == ingest[w]
           bars == Newest(Limit, None, run.snapshot)
           kept == bars \ Dropped(bars, now)
       IN ingest' = [ingest EXCEPT ![w] =
             IF kept = {} \/ Max(kept) > run.clock THEN Resting
             ELSE Writing(run.clock, run.snapshot, Min(kept), Max(kept))]
    /\ UNCHANGED <<now, malformed, row, fill, jumped>>

(* One upsert of splitByAge's bars, the closed ones first.  The table refuses a
   malformed bar, and the run ends there. *)
Upsert(w) ==
    /\ ingest[w].at = "write"
    /\ LET run == ingest[w]
           b == run.next
           candle == Candle(b, run.snapshot, IsClosed(b, run.clock))
       IN /\ row' = IF b \in malformed THEN row
                    ELSE [row EXCEPT ![b] = Put(row[b], candle)]
          /\ ingest' = [ingest EXCEPT ![w] =
                IF b \in malformed \/ b = run.last THEN Resting
                ELSE [run EXCEPT !.next = b + 1]]
          /\ jumped' = jumped \cup
                IF b \in malformed THEN {} ELSE b + 1 .. Oldest(row) - 1
    /\ UNCHANGED <<now, malformed, fill>>

(* The venue or the database fails, or the process dies. *)
IngestFails(w) ==
    /\ ingest[w] # Resting
    /\ ingest' = [ingest EXCEPT ![w] = Resting]
    /\ UNCHANGED <<now, malformed, row, fill, jumped>>

-------------------------------------------------------------------------------
(* runBackfill *)
Over(at) == [at |-> at, top |-> fill.top, written |-> fill.written]
FillRests == fill.at \in {"rest", "target_reached", "no_more_bars", "budget_exhausted"}

FillBegins ==
    /\ FillRests
    /\ fill' = [at |-> "loop", top |-> Oldest(row), written |-> 0]
    /\ UNCHANGED <<now, malformed, row, ingest, jumped>>

(* The head of the loop: the budget, the cursor, the request. *)
FillAsks ==
    /\ fill.at = "loop"
    /\ LET oldest == Oldest(row) IN
       fill' = IF fill.written >= Budget THEN Over("budget_exhausted")
               ELSE IF oldest # None /\ oldest <= Target THEN Over("target_reached")
               ELSE [at |-> "asked", top |-> fill.top, written |-> fill.written,
                     oldest |-> oldest, clock |-> now, snapshot |-> now]
    /\ UNCHANGED <<now, malformed, row, ingest, jumped>>

VenuePages ==
    /\ fill.at = "asked"
    /\ fill' = [fill EXCEPT !.at = "read", !.snapshot = now]
    /\ UNCHANGED <<now, malformed, row, ingest, jumped>>

(* Mutation: usableBars leaves the shape of the bars to the table. *)
FillReceivesAnyShape ==
    /\ fill.at = "read"
    /\ LET page == Newest(PageSize, fill.oldest, fill.snapshot) \ {now} IN
       /\ page # {} /\ \A b \in page : IsClosed(b, fill.clock)
       /\ fill' = [at |-> "write", top |-> Max(page) + 1, written |-> fill.written,
                   oldest |-> fill.oldest, snapshot |-> fill.snapshot,
                   page |-> {b \in page : b >= Target}]
    /\ UNCHANGED <<now, malformed, row, ingest, jumped>>

(* A bar that had not closed when the clock was read makes the run fail; of the
   others, usableBars keeps the well-formed ones from the target on. *)
FillReceives ==
    /\ fill.at = "read"
    /\ LET size == Min({PageSize, Budget - fill.written})
           bars == Newest(size, fill.oldest, fill.snapshot)
           page == bars \ Dropped(bars, now)
       IN fill' =
            IF \E b \in page : ~IsClosed(b, fill.clock) THEN Over("rest")
            ELSE IF page = {} THEN Over("no_more_bars")
            ELSE [at |-> "write",
                  top |-> IF fill.top = None THEN Max(page) + 1 ELSE fill.top,
                  written |-> fill.written, oldest |-> fill.oldest,
                  snapshot |-> fill.snapshot,
                  page |-> {b \in page : b >= Target} \ malformed]
    /\ UNCHANGED <<now, malformed, row, ingest, jumped>>

(* Mutation: a page that leaves the cursor where it was is asked for again. *)
FillWritesAndTriesAgain ==
    /\ fill.at = "write"
    /\ row' = [b \in Bar |-> IF b \in fill.page
                             THEN Put(row[b], Candle(b, fill.snapshot, TRUE))
                             ELSE row[b]]
    /\ LET ended == IF Oldest(row') <= Target THEN "target_reached" ELSE "loop"
       IN fill' = [Over(ended) EXCEPT !.written = @ + Cardinality(fill.page)]
    /\ UNCHANGED <<now, malformed, ingest, jumped>>

(* bulkUpsert, one statement for a page, and the cursor read again. *)
FillWrites ==
    /\ fill.at = "write"
    /\ row' = [b \in Bar |-> IF b \in fill.page
                             THEN Put(row[b], Candle(b, fill.snapshot, TRUE))
                             ELSE row[b]]
    /\ LET after == Oldest(row')
           ended == IF after # None /\ after <= Target THEN "target_reached"
                    ELSE IF after = fill.oldest THEN "no_more_bars" ELSE "loop"
       IN fill' = [Over(ended) EXCEPT !.written = @ + Cardinality(fill.page)]
    /\ UNCHANGED <<now, malformed, ingest, jumped>>

FillFails ==
    /\ ~FillRests
    /\ fill' = Over("rest")
    /\ UNCHANGED <<now, malformed, row, ingest, jumped>>

FillGoesOn == FillAsks \/ VenuePages \/ FillReceives \/ FillWrites

Next ==
    \/ Tick
    \/ \E w \in Writer : \/ IngestBegins(w) \/ VenueReads(w) \/ IngestReceives(w)
                         \/ Upsert(w) \/ IngestFails(w)
    \/ FillBegins \/ FillGoesOn \/ FillFails

Spec == Init /\ [][Next]_vars

(* The venue and the database answer the backfill, or refuse it. *)
FairSpec == Spec /\ WF_vars(FillGoesOn)

-------------------------------------------------------------------------------
(* A row that says its bar has ended holds the bar as it ended, whatever the
   time between the clock, the snapshot and the write; and a finished row stays
   finished, also when a deposed leader writes late. *)
ClosedRowsAreFinal ==
    [][\A b \in Bar :
          /\ row'[b] # "early"
          /\ row[b] = "final" => row'[b] = "final"]_vars

(* ingestion.service.ts:61, "The forming bar is stored too": an ingestion that
   gets to the end of its writes leaves a row for the bar that was forming by
   its clock, unless the table refuses that bar. *)
FormingBarIsStored ==
    [][\A w \in Writer :
          Upsert(w) /\ ingest[w].next = ingest[w].last =>
              LET forming == ingest[w].clock
              IN row'[forming] # "none" \/ forming \in malformed]_vars

(* A bar that is stored, that the table refuses, or that an ingestion left out. *)
Accounted(b) == row[b] # "none" \/ b \in malformed \/ b \in jumped

(* A backfill that says it reached its target has left no bar out between the
   target and the bars it found, but those the table refuses: not where it was
   interrupted before, nor where an ingestion wrote meanwhile.  The bars that an
   ingestion jumps when it writes below the bottom of the series are not its
   doing, but it does not see them either: the cursor is below them. *)
BackfillLeavesNoHole ==
    fill.at = "target_reached" /\ fill.top # None =>
        \A b \in Target..fill.top - 1 : Accounted(b)

(* A backfill ends: every page lowers the bottom of the series, or is the last. *)
BackfillEnds == ~FillRests ~> FillRests
===============================================================================
