--------------------------- MODULE RetentionTiers ---------------------------
(***************************************************************************)
(* The hourly pass over a table of measurements (metrics_retention.py): old*)
(* rows are summed up into buckets of a minute, older ones into buckets of *)
(* a quarter of an hour, the oldest are deleted.                           *)
(*                                                                         *)
(* A summary row is kept as the set of the measurements it counts.  Passes *)
(* are late or missed, rows arrive late, any statement may fail and the    *)
(* process may die; other connections write between two transactions.      *)
(***************************************************************************)
EXTENDS Naturals, FiniteSets

CONSTANTS
    Samples,   \* measurements of a behaviour (bound)
    Fine,      \* BUCKET_1M
    Coarse,    \* BUCKET_15M, a multiple of Fine
    Hot,       \* TIER_HOT_SECONDS, 7 h
    Cool,      \* TIER_COOL_SECONDS, 3 days
    Keep,      \* retention_seconds, 8 days
    Late,      \* how late a row may be written (bound)
    MaxClock,  \* bound on the ticks of a behaviour
    MaxFaults  \* bound on failures and crashes

VARIABLES
    clock,     \* the time
    written,   \* [Samples -> time stamp, or MaxClock + 1 before it is there]
    raw,       \* samples in the table
    rows,      \* rows of the summary tables
    step,      \* the pass's next step
    at,        \* time.time() at the start of the pass
    open,      \* the pass's transaction has written
    safe,      \* the tables as last committed
    faults     \* faults so far (bound)

vars == <<clock, written, raw, rows, step, at, open, safe, faults>>

Steps == {"none", "warm", "cold", "cascade", "expire", "expire_rows", "commit"}
After == [warm |-> "cold", cold |-> "cascade", cascade |-> "expire",
          expire |-> "expire_rows", expire_rows |-> "commit", commit |-> "none"]

Minus(a, b) == IF a > b THEN a - b ELSE 0
Later(a, b) == IF a > b THEN a ELSE b
Bucket(t, width) == (t \div width) * width
Width(row) == IF row.tier = "1m" THEN Fine ELSE Coarse

Init ==
    /\ clock = Keep
    /\ written = [s \in Samples |-> MaxClock + 1]
    /\ raw = {}
    /\ rows = {}
    /\ step = "none"
    /\ at = 0
    /\ open = FALSE
    /\ safe = [raw |-> {}, rows |-> {}]
    /\ faults = 0

Fault == faults < MaxFaults /\ faults' = faults + 1

(* Without a transaction around it a change is committed at once.          *)
Change(newRaw, newRows) ==
    /\ raw' = newRaw
    /\ rows' = newRows
    /\ safe' = IF open THEN safe ELSE [raw |-> newRaw, rows |-> newRows]

-----------------------------------------------------------------------------
(* Somebody measures something; the database takes one writer at a time.   *)
Record(s, t) ==
    /\ written[s] > MaxClock
    /\ ~open
    /\ t \in Minus(clock, Late)..clock
    /\ written' = [written EXCEPT ![s] = t]
    /\ Change(raw \cup {s}, rows)
    /\ UNCHANGED <<clock, step, at, open, faults>>

(* cleanup_once.  Of the tables of a database the first is worked on before*)
(* the pass's transaction begins, the others within it.                    *)
Begin(first) ==
    /\ step = "none"
    /\ step' = "warm"
    /\ at' = clock
    /\ open' = ~first
    /\ UNCHANGED <<clock, written, raw, rows, safe, faults>>

-----------------------------------------------------------------------------
(* The rows, of raw or of a summary, that a roll-up replaces, and by what. *)

RawIn(from, to) == {s \in raw : written[s] >= from /\ written[s] < to}

FromRaw(from, to, width, tier) ==
    {[tier |-> tier, bucket |-> b, members |-> {s \in RawIn(from, to) : Bucket(written[s], width) = b}]
        : b \in {Bucket(written[s], width) : s \in RawIn(from, to)}}

FineIn(from, to) == {r \in rows : r.tier = "1m" /\ r.bucket >= from /\ r.bucket < to}

FromFine(from, to) ==
    {[tier |-> "15m", bucket |-> b,
      members |-> UNION {r.members : r \in {q \in FineIn(from, to) : Bucket(q.bucket, Coarse) = b}}]
        : b \in {Bucket(r.bucket, Coarse) : r \in FineIn(from, to)}}

WarmFrom == Later(Minus(at, Cool), Minus(at, Keep))
WarmTo   == Minus(at, Hot)
ColdFrom == Minus(at, Keep)
ColdTo   == Minus(at, Cool)

(* _aggregate_from_source and _aggregate_from_summary.                     *)
RolledUp ==
    CASE step = "warm" ->
            Change(raw \ RawIn(WarmFrom, WarmTo),
                   rows \cup FromRaw(WarmFrom, WarmTo, Fine, "1m"))
      [] step = "cold" ->
            Change(raw \ RawIn(ColdFrom, ColdTo),
                   rows \cup FromRaw(ColdFrom, ColdTo, Coarse, "15m"))
      [] step = "cascade" ->
            Change(raw, (rows \ FineIn(ColdFrom, ColdTo)) \cup FromFine(ColdFrom, ColdTo))

(* What is inserted stays although the deletion after it failed.           *)
FailedHalf ==
    CASE step = "warm" -> Change(raw, rows \cup FromRaw(WarmFrom, WarmTo, Fine, "1m"))
      [] step = "cold" -> Change(raw, rows \cup FromRaw(ColdFrom, ColdTo, Coarse, "15m"))
      [] step = "cascade" -> Change(raw, rows \cup FromFine(ColdFrom, ColdTo))

(* _atomic_rollup: of a failed one nothing stays.                          *)
Failed == Change(raw, rows)

RollUp ==
    /\ step \in {"warm", "cold", "cascade"}
    /\ step' = After[step]
    /\ \/ RolledUp /\ UNCHANGED faults
       \/ Fault /\ Failed
    /\ UNCHANGED <<clock, written, at, open>>

(* Rows over the retention are deleted; here at the latest the transaction *)
(* of the pass begins.                                                     *)
Expire ==
    /\ step = "expire"
    /\ step' = After[step]
    /\ open' = TRUE
    /\ \/ raw' = {s \in raw : written[s] >= ColdFrom} /\ UNCHANGED faults
       \/ Fault /\ UNCHANGED raw
    /\ UNCHANGED <<clock, written, rows, at, safe>>

(* A bucket is judged by its beginning.                                    *)
OverByStart(row) == row.bucket < ColdFrom

(* A bucket is over when its end is.                                       *)
Over(row) == row.bucket + Width(row) <= ColdFrom

ExpireRows ==
    /\ step = "expire_rows"
    /\ step' = After[step]
    /\ \/ rows' = {r \in rows : ~Over(r)} /\ UNCHANGED faults
       \/ Fault /\ UNCHANGED rows
    /\ UNCHANGED <<clock, written, raw, at, open, safe>>

(* commit(), or, when it fails, a rollback of the whole.                   *)
Commit ==
    /\ step = "commit"
    /\ step' = After[step]
    /\ open' = FALSE
    /\ \/ safe' = [raw |-> raw, rows |-> rows] /\ UNCHANGED <<raw, rows, faults>>
       \/ Fault /\ raw' = safe.raw /\ rows' = safe.rows /\ UNCHANGED safe
    /\ UNCHANGED <<clock, written, at>>

Crash ==
    /\ step # "none"
    /\ Fault
    /\ step' = "none"
    /\ open' = FALSE
    /\ raw' = safe.raw
    /\ rows' = safe.rows
    /\ UNCHANGED <<clock, written, at, safe>>

Tick ==
    /\ clock < MaxClock
    /\ clock' = clock + 1
    /\ UNCHANGED <<written, raw, rows, step, at, open, safe, faults>>

Next ==
    \/ \E s \in Samples, t \in 0..MaxClock : Record(s, t)
    \/ \E first \in BOOLEAN : Begin(first)
    \/ RollUp
    \/ Expire
    \/ ExpireRows
    \/ Commit
    \/ Crash
    \/ Tick

Spec == Init /\ [][Next]_vars

-----------------------------------------------------------------------------
Rows == [tier : {"1m", "15m"}, bucket : 0..MaxClock, members : SUBSET Samples]

TypeOK ==
    /\ clock \in Nat /\ at \in Nat /\ faults \in Nat
    /\ written \in [Samples -> 0..(MaxClock + 1)]
    /\ raw \in SUBSET Samples
    /\ rows \in SUBSET Rows
    /\ step \in Steps
    /\ open \in BOOLEAN
    /\ safe \in [raw : SUBSET Samples, rows : SUBSET Rows]

(* What the theorem about the tables assumes: the widths of the buckets fit. *)
TiersAssumption ==
    /\ Fine \in Nat \ {0} /\ Coarse \in Nat
    /\ \E k \in 1..Coarse : Coarse = k * Fine
    /\ Hot \in Nat /\ Cool \in Nat /\ Keep \in Nat /\ Late \in Nat /\ MaxClock \in Nat
    /\ Keep <= MaxClock

Counted(s, tables) ==
    Cardinality({r \in tables.rows : s \in r.members}) + (IF s \in tables.raw THEN 1 ELSE 0)

(* "Keep each insert/delete pair atomic", "Raw fallbacks also cover late   *)
(* arrivals and outages", "boundaries do not line up" (metrics_retention.  *)
(* py:353, 703, 671): whatever fails, is late or is left out, what was     *)
(* measured within the retention is counted exactly once, in the committed *)
(* tables as well as in the ones being worked on, and in a bucket it lies  *)
(* in.                                                                     *)
CountedOnce ==
    \A s \in Samples, tables \in {safe, [raw |-> raw, rows |-> rows]} :
        written[s] <= MaxClock =>
            /\ Counted(s, tables) <= 1
            /\ written[s] >= Minus(clock, Keep) => Counted(s, tables) = 1
            /\ \A r \in tables.rows : s \in r.members =>
                   Bucket(written[s], Width(r)) = r.bucket

=============================================================================
