----------------------------- MODULE HistoryBacklog -----------------------------
(***************************************************************************)
(* One series' write backlog: an entry the database refuses goes to the    *)
(* spool file of observability/write-spool.ts, or to the memory buffer of  *)
(* observability/bounded-write-buffer.ts if the disk refuses it too, and   *)
(* the drain of history/signal-history.service.ts takes it back out.       *)
(*                                                                         *)
(* The drain awaits the database once per entry, and new entries are       *)
(* appended while it waits.  The database can be down, refuse one entry    *)
(* for ever, or store a row whose answer is lost; the disk can refuse a    *)
(* write after some of its bytes; the process can die at any point.        *)
(* Entries are numbered in the order of their timestamps, a line of the    *)
(* file weighs one unit, and so does the fragment of an unfinished one.    *)
(***************************************************************************)
EXTENDS Integers, Sequences, Functions

CONSTANTS
    MaxEntry,           \* bound: entries offered
    BucketOf,           \* BucketOf[e]: the hour the entry is filed under
    Poison,             \* entries the database refuses for a reason of their own
    MaxBytes,           \* ceiling of the spool file
    MaxBuffered,        \* ceiling of the memory buffer
    MaxAttempts,        \* tries before an entry is given up
    Torn,               \* a line that does not parse
    MaxCrashes, MaxDiskFaults, MaxOutages   \* bounds

Entry == 1..MaxEntry
Bucket == Range(BucketOf)

ASSUME BacklogAssumption ==
    /\ MaxEntry \in Nat
    /\ BucketOf \in [Entry -> Nat]
    /\ Poison \subseteq Entry
    /\ {MaxBytes, MaxBuffered, MaxAttempts} \subseteq Nat \ {0}
    /\ {MaxCrashes, MaxDiskFaults, MaxOutages} \subseteq Nat
    /\ Torn \notin Entry

VARIABLES
    offered,    \* entries 1..offered have been handed to recordSignalHistory
    up,         \* the database answers
    row,        \* row[b]: the entry in the row of bucket b, or 0
    lines,      \* the complete lines of the spool file
    fragment,   \* the file ends in a line that was never finished
    queue,      \* the spool's entries in memory, oldest first
    bytes,      \* fileBytes
    dirty,
    buffer,     \* the memory buffer, oldest first
    pending,    \* what the memory drain has taken out of the buffer
    flush,      \* idle, due, or the lane the drain is in
    writing,    \* the entry the drain awaits the database for, or 0
    failures,   \* consecutiveFailures of the running drain
    tries,      \* tries[e]: failed attempts of a held entry
    accepted,   \* entries whose write has reached the database
    forgone,    \* entries lost to a bound, given up, or in memory at a crash
    undercut,   \* an append has evicted the entry the spool's drain awaits
    tore,       \* an append has left a fragment
    crashes, diskFaults, outages

db == <<up, row, accepted, outages>>
file == <<lines, fragment, bytes, dirty>>
drain == <<flush, writing, failures, pending>>
vars == <<offered, db, file, queue, buffer, drain, tries, forgone,
          undercut, tore, crashes, diskFaults>>

TypeOK ==
    /\ offered \in 0..MaxEntry
    /\ up \in BOOLEAN
    /\ row \in [Bucket -> 0..MaxEntry]
    /\ lines \in Seq(Entry \cup {Torn})
    /\ fragment \in BOOLEAN
    /\ queue \in Seq(Entry)
    /\ bytes \in Nat
    /\ dirty \in BOOLEAN
    /\ buffer \in Seq(Entry)
    /\ pending \in Seq(Entry)
    /\ flush \in {"idle", "due", "spool", "memory"}
    /\ writing \in 0..MaxEntry
    /\ failures \in 0..1
    /\ tries \in [Entry -> 0..MaxAttempts - 1]
    /\ accepted \subseteq Entry
    /\ forgone \subseteq Entry
    /\ undercut \in BOOLEAN
    /\ tore \in BOOLEAN
    /\ crashes \in 0..MaxCrashes
    /\ diskFaults \in 0..MaxDiskFaults
    /\ outages \in 0..MaxOutages
    /\ Len(buffer) <= MaxBuffered

Init ==
    /\ offered = 0
    /\ up = TRUE
    /\ row = [b \in Bucket |-> 0]
    /\ lines = << >> /\ fragment = FALSE
    /\ queue = << >>
    /\ bytes = 0 /\ dirty = FALSE
    /\ buffer = << >>
    /\ pending = << >>
    /\ flush = "idle" /\ writing = 0 /\ failures = 0
    /\ tries = [e \in Entry |-> 0]
    /\ accepted = {} /\ forgone = {}
    /\ undercut = FALSE /\ tore = FALSE
    /\ crashes = 0 /\ diskFaults = 0 /\ outages = 0

Held == Range(queue) \cup Range(buffer) \cup Range(pending)

(***************************************************************************)
(* The database: the upsert by hour bucket.                                *)
(***************************************************************************)

(* Plausible bug: the upsert has no timestamp guard. *)
UpsertLast(e) ==
    /\ row' = [row EXCEPT ![BucketOf[e]] = e]
    /\ accepted' = accepted \cup {e}

(* A newer entry replaces the row of its bucket, an older one is folded away. *)
Upsert(e) ==
    /\ row' = [row EXCEPT ![BucketOf[e]] = IF e > @ THEN e ELSE @]
    /\ accepted' = accepted \cup {e}

Takes(e) == up /\ e \notin Poison /\ Upsert(e) /\ UNCHANGED <<up, outages>>

(* The write rejects: the database is down or will not have this row, or it
   stored the row and its answer was lost. *)
Refuses(e) ==
    \/ (~up \/ e \in Poison) /\ UNCHANGED db
    \/ /\ up /\ e \notin Poison
       /\ outages < MaxOutages
       /\ outages' = outages + 1
       /\ Upsert(e)
       /\ UNCHANGED up

GoesDown ==
    /\ up /\ outages < MaxOutages
    /\ up' = FALSE
    /\ outages' = outages + 1
    /\ UNCHANGED <<offered, row, accepted, file, queue, buffer, drain, tries,
                   forgone, undercut, tore, crashes, diskFaults>>

ComesBack ==
    /\ ~up
    /\ up' = TRUE
    /\ UNCHANGED <<offered, row, accepted, outages, file, queue, buffer, drain,
                   tries, forgone, undercut, tore, crashes, diskFaults>>

(***************************************************************************)
(* observability/write-spool.ts and bounded-write-buffer.ts.               *)
(***************************************************************************)

TooLong == bytes + 1 > MaxBytes

(* append's eviction loop tests the size of the file, which evicting does not
   change: past the ceiling the whole queue goes. *)
Kept == IF TooLong THEN << >> ELSE queue

(* The drain holds the head of the queue while it awaits the database. *)
Evicts ==
    undercut' = (undercut \/ (TooLong /\ queue # << >> /\ flush = "spool"))

(* The file with e's line written to its end; an unfinished line before it
   makes the two one line that does not parse. *)
WithLine(base, unfinished, e) == Append(base, IF unfinished THEN Torn ELSE e)

(* append returns true; past the ceiling, after a rewrite to the kept queue. *)
SpoolTakes(e) ==
    /\ lines' = IF TooLong THEN <<e>> ELSE WithLine(lines, fragment, e)
    /\ fragment' = FALSE
    /\ bytes' = IF TooLong THEN 1 ELSE bytes + 1
    /\ dirty' = (dirty /\ ~TooLong)
    /\ queue' = Append(Kept, e)
    /\ forgone' = forgone \cup (Range(queue) \ Range(Kept))
    /\ Evicts
    /\ UNCHANGED <<tore, diskFaults>>

(* What a refused write leaves of its line: nothing, a part, or all of it. *)
Leaves(base, unfinished, e) ==
    \/ lines' = base /\ fragment' = unfinished /\ tore' = tore
    \/ lines' = base /\ fragment' = TRUE /\ tore' = TRUE
    \/ lines' = WithLine(base, unfinished, e) /\ fragment' = FALSE /\ tore' = tore

(* Plausible bug: no ceiling. *)
PushedUnbounded(held, more) == held \o more

(* The buffer's push, one entry after the other: past the ceiling the first
   ones go. *)
Pushed(held, more) ==
    LET all == held \o more
        over == Len(all) - MaxBuffered
    IN IF over > 0 THEN SubSeq(all, over + 1, Len(all)) ELSE all

(* Plausible bug: the queue takes the entry before the file has. *)
SpoolRefusesLate(e) ==
    /\ diskFaults < MaxDiskFaults
    /\ diskFaults' = diskFaults + 1
    /\ queue' = Append(queue, e)
    /\ UNCHANGED <<file, buffer, forgone, undercut, tore>>

(* append returns false: the rewrite failed, or the write did. *)
SpoolRefuses(e) ==
    /\ diskFaults < MaxDiskFaults
    /\ diskFaults' = diskFaults + 1
    /\ \/ TooLong /\ UNCHANGED <<lines, fragment, bytes, dirty, tore>>
       \/ ~TooLong /\ Leaves(lines, fragment, e) /\ UNCHANGED <<bytes, dirty>>
       \/ TooLong /\ Leaves(<< >>, FALSE, e) /\ bytes' = 0 /\ dirty' = FALSE
    /\ queue' = Kept
    /\ Evicts
    /\ buffer' = Pushed(buffer, <<e>>)
    /\ forgone' = forgone \cup (Range(queue) \ Range(Kept))
                         \cup (Range(Append(buffer, e)) \ Range(buffer'))

(* compact, once what precedes it has left the queue as it is now: a rewrite
   to the entries still pending, if one is needed and the disk takes it. *)
Compaction(needed) ==
    \/ /\ needed
       /\ lines' = queue' /\ fragment' = FALSE
       /\ bytes' = Len(queue') /\ dirty' = FALSE
       /\ UNCHANGED diskFaults
    \/ /\ ~needed
       /\ UNCHANGED <<file, diskFaults>>
    \/ /\ needed /\ diskFaults < MaxDiskFaults
       /\ diskFaults' = diskFaults + 1
       /\ dirty' = TRUE
       /\ UNCHANGED <<lines, fragment, bytes>>

(***************************************************************************)
(* history/signal-history.service.ts: recordSignalHistory.                 *)
(***************************************************************************)

(* Plausible bug: the memory buffer gets a copy of what the spool took. *)
RetainTwice(e) ==
    \/ SpoolTakes(e) /\ buffer' = Pushed(buffer, <<e>>)
    \/ SpoolRefuses(e)

(* A refused entry goes to the spool, and to memory only if that refuses. *)
Retain(e) ==
    \/ SpoolTakes(e) /\ UNCHANGED buffer
    \/ SpoolRefuses(e)

Record(e) ==
    /\ e = offered + 1
    /\ offered' = e
    /\ \/ /\ Takes(e)
          /\ UNCHANGED <<file, queue, buffer, flush, forgone, undercut, tore, diskFaults>>
       \/ /\ Refuses(e)
          /\ Retain(e)
          /\ flush' = IF flush = "idle" /\ Len(buffer') >= MaxBuffered
                      THEN "due" ELSE flush
    /\ UNCHANGED <<writing, failures, pending, tries, crashes>>

(***************************************************************************)
(* The drain: one at a time, the spool before the memory buffer.           *)
(***************************************************************************)

(* drainMemoryBacklog begins, or finds nothing and the flush is over. *)
MemoryLane ==
    /\ flush' = IF buffer = << >> THEN "idle" ELSE "memory"
    /\ writing' = IF buffer = << >> THEN 0 ELSE Head(buffer)
    /\ failures' = 0
    /\ pending' = buffer
    /\ buffer' = << >>

(* drainSpoolBacklog looks at its queue: the next entry, or the end. *)
SpoolLane(changed, failed) ==
    \/ /\ queue' # << >>
       /\ flush' = "spool"
       /\ writing' = Head(queue')
       /\ failures' = failed
       /\ dirty' = (dirty \/ changed)
       /\ UNCHANGED <<lines, fragment, bytes, buffer, pending, diskFaults>>
    \/ /\ queue' = << >>
       /\ Compaction(dirty \/ changed)
       /\ MemoryLane

(* The tick of the poller, the shutdown, or a full memory buffer. *)
FlushBegins ==
    /\ flush \in {"idle", "due"}
    /\ UNCHANGED queue
    /\ SpoolLane(FALSE, 0)
    /\ UNCHANGED <<offered, db, tries, forgone, undercut, tore, crashes>>

Shifted(q) == IF q = << >> THEN q ELSE Tail(q)
Rotated(q) == IF q = << >> THEN q ELSE Append(Tail(q), Head(q))

(* The awaited write is done: confirm removes the head, which is the entry
   that was written unless an append has evicted it meanwhile. *)
SpoolAccepted ==
    /\ flush = "spool"
    /\ Takes(writing)
    /\ queue' = Shifted(queue)
    /\ tries' = [tries EXCEPT ![writing] = 0]
    /\ SpoolLane(TRUE, 0)
    /\ UNCHANGED <<offered, forgone, undercut, tore, crashes>>

(* Plausible bug: a refused entry stays at the head and ends the drain. *)
SpoolRefusedStalls ==
    /\ flush = "spool"
    /\ Refuses(writing)
    /\ UNCHANGED queue
    /\ Compaction(dirty)
    /\ MemoryLane
    /\ UNCHANGED <<offered, tries, forgone, undercut, tore, crashes>>

(* The second failure in a row ends the lane; a lone one sends the entry to
   the back, or gives it up. *)
SpoolRefused ==
    /\ flush = "spool"
    /\ Refuses(writing)
    /\ \/ /\ failures = 1
          /\ UNCHANGED <<queue, tries, forgone>>
          /\ Compaction(dirty)
          /\ MemoryLane
       \/ /\ failures = 0
          /\ tries[writing] + 1 < MaxAttempts
          /\ queue' = Rotated(queue)
          /\ tries' = [tries EXCEPT ![writing] = @ + 1]
          /\ SpoolLane(TRUE, 1)
          /\ UNCHANGED forgone
       \/ /\ failures = 0
          /\ tries[writing] + 1 >= MaxAttempts
          /\ queue' = Shifted(queue)
          /\ tries' = [tries EXCEPT ![writing] = 0]
          /\ forgone' = forgone \cup {writing}
          /\ SpoolLane(TRUE, 1)
    /\ UNCHANGED <<offered, undercut, tore, crashes>>

(* The memory drain goes on to the next entry it took out, or is over. *)
MemoryGoesOn ==
    /\ pending' = Tail(pending)
    /\ flush' = IF pending' = << >> THEN "idle" ELSE "memory"
    /\ writing' = IF pending' = << >> THEN 0 ELSE Head(pending')

MemoryAccepted ==
    /\ flush = "memory"
    /\ Takes(writing)
    /\ tries' = [tries EXCEPT ![writing] = 0]
    /\ MemoryGoesOn
    /\ failures' = 0
    /\ UNCHANGED <<offered, file, queue, buffer, forgone, undercut, tore,
                   crashes, diskFaults>>

(* Plausible bug: the second failure in a row hands back what follows it. *)
HandedBackWithoutThis == Tail(pending)

(* What the second failure in a row hands back: the entry, and the rest. *)
HandedBack == pending

MemoryRefused ==
    /\ flush = "memory"
    /\ Refuses(writing)
    /\ \/ /\ failures = 1
          /\ buffer' = Pushed(buffer, HandedBack)
          /\ forgone' = forgone \cup (Range(buffer \o HandedBack) \ Range(buffer'))
          /\ pending' = << >> /\ flush' = "idle" /\ writing' = 0 /\ failures' = 0
          /\ UNCHANGED tries
       \/ /\ failures = 0
          /\ tries[writing] + 1 < MaxAttempts
          /\ buffer' = Pushed(buffer, <<writing>>)
          /\ forgone' = forgone \cup (Range(Append(buffer, writing)) \ Range(buffer'))
          /\ tries' = [tries EXCEPT ![writing] = @ + 1]
          /\ MemoryGoesOn
          /\ failures' = IF pending' = << >> THEN 0 ELSE 1
       \/ /\ failures = 0
          /\ tries[writing] + 1 >= MaxAttempts
          /\ forgone' = forgone \cup {writing}
          /\ tries' = [tries EXCEPT ![writing] = 0]
          /\ MemoryGoesOn
          /\ failures' = IF pending' = << >> THEN 0 ELSE 1
          /\ UNCHANGED buffer
    /\ UNCHANGED <<offered, file, queue, undercut, tore, crashes, diskFaults>>

(***************************************************************************)
(* The process dies and comes back: what boot reads from the file.         *)
(***************************************************************************)

(* The entries of a file, in their order: a line that does not parse is
   skipped. *)
Parsed(read) ==
    LET entries[i \in 0..Len(read)] ==
            IF i = 0 THEN << >>
            ELSE IF read[i] = Torn THEN entries[i - 1]
            ELSE Append(entries[i - 1], read[i])
    IN entries[Len(read)]

Boots ==
    /\ queue' = Parsed(lines')
    /\ bytes' = Len(lines') + (IF fragment' THEN 1 ELSE 0)
    /\ dirty' = (fragment' \/ Torn \in Range(lines'))
    /\ buffer' = << >> /\ pending' = << >>
    /\ flush' = "idle" /\ writing' = 0 /\ failures' = 0
    /\ tries' = [e \in Entry |-> 0]

(* The process dies, in the middle of appending e if it was: past the ceiling
   the file has been rewritten by then. *)
Dies(e) ==
    /\ crashes < MaxCrashes
    /\ crashes' = crashes + 1
    /\ \/ /\ e = 0
          /\ forgone' = forgone \cup Range(buffer) \cup Range(pending)
          /\ UNCHANGED <<offered, lines, fragment, tore>>
       \/ /\ e = offered + 1 /\ (~up \/ e \in Poison)
          /\ offered' = e
          /\ lines' = IF TooLong THEN << >> ELSE lines
          /\ fragment' = TRUE /\ tore' = TRUE
          /\ forgone' = forgone \cup Range(buffer) \cup Range(pending)
                               \cup {e} \cup (Range(queue) \ Range(Kept))
    /\ Boots
    /\ UNCHANGED <<db, undercut, diskFaults>>

Next ==
    \/ \E e \in Entry : Record(e)
    \/ FlushBegins
    \/ SpoolAccepted
    \/ SpoolRefused
    \/ MemoryAccepted
    \/ MemoryRefused
    \/ GoesDown
    \/ ComesBack
    \/ \E e \in Entry \cup {0} : Dies(e)

Spec == Init /\ [][Next]_vars

(***************************************************************************)
(* Fairness: the tick of a process that leads comes every minute, a write  *)
(* is answered or times out, and an outage ends.                           *)
(***************************************************************************)
FairSpec ==
    /\ Spec
    /\ WF_vars(FlushBegins)
    /\ WF_vars(SpoolAccepted \/ SpoolRefused)
    /\ WF_vars(MemoryAccepted \/ MemoryRefused)
    /\ WF_vars(ComesBack)

(***************************************************************************)
(* What must hold.                                                         *)
(***************************************************************************)

(* Replays, rotations and out-of-order drains only ever move a row forward:
   it shows the newest entry of its hour that reached the database. *)
RowIsNewestAccepted ==
    \A b \in Bucket :
        LET of == {e \in accepted : BucketOf[e] = b}
        IN IF of = {} THEN row[b] = 0
           ELSE row[b] \in of /\ \A e \in of : e <= row[b]

(* "Never both" of recordSignalHistory, and never neither: an entry waits in
   one place, so no queue hands back what the other has already drained; and
   until an append has evicted the very entry the drain awaits, or has left a
   fragment, an offered entry is in the database, waits for it, or was lost
   knowingly.  No order of drain, append, failure and crash loses another. *)
OneOwnerUntilWritten ==
    /\ Range(queue) \cap (Range(buffer) \cup Range(pending)) = {}
    /\ Range(buffer) \cap Range(pending) = {}
    /\ \A q \in {queue, buffer, pending} :
            \A i, j \in DOMAIN q : q[i] = q[j] => i = j
    /\ undercut \/ tore \/ 1..offered \subseteq accepted \cup Held \cup forgone

(* The spool's queue never holds what a crash would lose, as long as no append
   has been interrupted. *)
SpooledSurvives == tore \/ Range(queue) \subseteq Range(lines)

(* write-spool.ts:85, "Removes the oldest entry - its database write has
   succeeded": what leaves the queue in a running process was written or is
   counted as lost. *)
ConfirmsTheWritten ==
    [][crashes' = crashes =>
        \A e \in Range(queue) \ Range(queue') : e \in accepted' \cup forgone']_vars

(* What the drain promises, whatever refuses to be written before or behind an
   entry.  No entry waits for ever: it is written, or it is one of `forgone`.
   That is less than write-spool.ts:35 says, by which "an outage longer than any
   bound leaves the entries on disk": an outage of MaxAttempts flushes makes the
   drain give up the entry at the head of the spool, though the database has no
   objection to it; others are evicted at a ceiling, or are in memory when the
   process dies.  What is still in the spool when the outages are over and
   nothing is appended any more is written, a crash or not. *)
HeldEntriesSettle ==
    /\ \A e \in Entry :
          e \in Held ~> (e \in accepted \cup forgone \/ undercut \/ tore)
    /\ \A e \in Entry \ Poison :
          (e \in Range(queue) /\ [](up /\ offered = MaxEntry)) ~>
              (e \in accepted \/ undercut \/ tore)
=================================================================================
