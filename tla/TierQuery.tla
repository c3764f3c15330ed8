------------------------------ MODULE TierQuery ------------------------------
(***************************************************************************)
(* The charts' query over all tiers of a table (web/tiered_query.py), one  *)
(* statement after another while the pass of RetentionTiers moves rows     *)
(* between them.  Minimum, maximum and averages follow the counts and are  *)
(* left out, as are the buckets of ten minutes of earlier versions.        *)
(***************************************************************************)
EXTENDS RetentionTiers, Sequences

CONSTANTS
    Windows,  \* the queries: [since, until, width]
    None      \* no query

VARIABLE
    query     \* [window, seen, left, answer] or None

queryVars == <<clock, written, raw, rows, step, at, open, safe, faults, query>>

InitQuery == Init /\ query = None

(* What a tier has of a window; a bucket on its edge counts as a whole.    *)
Found(tier, window, tables) ==
    IF tier = "raw"
    THEN {[tier |-> "raw", bucket |-> written[s], members |-> {s}]
             : s \in {t \in tables.raw : written[t] >= window.since /\ written[t] < window.until}}
    ELSE {r \in tables.rows : r.tier = tier /\ r.bucket + Width(r) > window.since
                                /\ r.bucket < window.until}

(* Fault: the width asked for.                                             *)
AsAsked(window, tables) == window.width

(* The width asked for, rounded up to a multiple of the tiers' that matter.*)
Rounded(window, tables) ==
    LET native == IF Found("15m", window, tables) # {} THEN Coarse
                  ELSE IF Found("1m", window, tables) # {} THEN Fine ELSE 1
    IN ((window.width + native - 1) \div native) * native

(* Fault: every statement sees the tables as they are by then.             *)
SeesNow(q) == safe

(* _read_snapshot: every statement sees the tables as at the first.        *)
Sees(q) == q.seen

Ask(window) ==
    /\ query = None
    /\ query' = [window |-> [window EXCEPT !.width = Rounded(window, safe)], seen |-> safe,
                 left |-> <<"raw", "1m", "15m">>, answer |-> {}]
    /\ UNCHANGED vars

(* The next tier, whose rows go into the query's buckets.                  *)
Read ==
    /\ query # None
    /\ query.left # <<>>
    /\ LET w == query.window
           tier == query.left[1]
           found == {[row |-> r, bucket |-> Bucket(r.bucket, w.width)]
                        : r \in Found(tier, w, Sees(query))}
       IN query' = [query EXCEPT !.left = [i \in 1..(Len(@) - 1) |-> @[i + 1]],
                                 !.answer = @ \cup found]
    /\ UNCHANGED vars

Return ==
    /\ query # None
    /\ query.left = <<>>
    /\ query' = None
    /\ UNCHANGED vars

NextQuery == (Next /\ UNCHANGED query) \/ (\E w \in Windows : Ask(w)) \/ Read \/ Return

SpecQuery == InitQuery /\ [][NextQuery]_queryVars

-----------------------------------------------------------------------------
(* What the theorem about the charts assumes.                              *)
QueryAssumption ==
    /\ TiersAssumption
    /\ Windows \subseteq [since : Nat, until : Nat, width : Nat \ {0}]

(* "A row lives in exactly one table": while rows are moved, late or never,*)
(* what was measured in the window is in the chart once, in the bucket it  *)
(* belongs to, and of what was not only what shares a row with the window  *)
(* (tiered_query.py:466-469).                                              *)
ChartsRight ==
    query # None /\ query.left = <<>> =>
        LET w == query.window
            Of(s) == {e \in query.answer : s \in e.row.members}
            There == query.seen.raw \cup UNION {r.members : r \in query.seen.rows}
        IN \A s \in Samples :
               /\ Cardinality(Of(s)) <= 1
               /\ s \in There /\ written[s] >= w.since /\ written[s] < w.until
                     => Cardinality(Of(s)) = 1
               /\ \A e \in Of(s) :
                     /\ e.bucket = Bucket(written[s], w.width)
                     /\ written[s] < w.since \/ written[s] >= w.until
                           => e.row.tier # "raw"

=============================================================================
