---------------------------- MODULE Calibration ----------------------------
(***************************************************************************)
(* The CAD calibration of web/cad_calibration_engine.py: a worker thread   *)
(* hands one measurement after another to the event loop, which has the    *)
(* radio; web threads start and stop it, and the shutdown closes it.       *)
(*                                                                         *)
(* A measurement changes the radio's thresholds and puts them back when it *)
(* ends or is cancelled, so two must not overlap.  What is measured and    *)
(* the score of it are left out.                                           *)
(***************************************************************************)
EXTENDS Naturals, FiniteSets

CONSTANTS
    Tests,        \* measurements, each made once
    Nothing,      \* no future
    MaxSessions   \* bound on the number of starts

VARIABLES
    running,      \* CADCalibrationEngine.running
    session,      \* _message_generation
    worker,       \* where calibration_worker is
    future,       \* the measurement in _active_future
    test,         \* [Tests -> where the measurement is]
    of,           \* [Tests -> the generation it was made for]
    results,      \* the measurements in results
    closing       \* how far close() is

vars == <<running, session, worker, future, test, of, results, closing>>

OnRadio == {t \in Tests : test[t] \in {"measuring", "restoring"}}

Init ==
    /\ running = FALSE
    /\ session = 0
    /\ worker = "none"
    /\ future = Nothing
    /\ test = [t \in Tests |-> "new"]
    /\ of = [t \in Tests |-> 0]
    /\ results = {}
    /\ closing = "open"

-----------------------------------------------------------------------------
(* Web threads and the shutdown.                                           *)

(* Fault: only the thread of the last session is looked at.                *)
StartOverTest ==
    /\ closing = "open"
    /\ ~running
    /\ worker = "none"
    /\ session < MaxSessions
    /\ running' = TRUE
    /\ session' = session + 1
    /\ worker' = "loop"
    /\ results' = {}
    /\ UNCHANGED <<future, test, of, closing>>

(* start_calibration; it refuses while anything of the last session is left*)
Start ==
    /\ closing = "open"
    /\ ~running
    /\ worker = "none"
    /\ OnRadio = {}
    /\ session < MaxSessions
    /\ running' = TRUE
    /\ session' = session + 1
    /\ worker' = "loop"
    /\ results' = {}
    /\ UNCHANGED <<future, test, of, closing>>

(* What future.cancel() makes of a measurement: one that has not begun     *)
(* never does, one that is under way puts the radio back first.            *)
Cancelled(t) ==
    IF test[t] = "handed" THEN "cancelled"
    ELSE IF test[t] = "measuring" THEN "restoring" ELSE test[t]

CancelFuture ==
    test' = IF future = Nothing THEN test ELSE [test EXCEPT ![future] = Cancelled(future)]

(* stop_calibration; it waits two seconds for the thread, no more.         *)
Stop ==
    /\ running
    /\ running' = FALSE
    /\ CancelFuture
    /\ UNCHANGED <<session, worker, future, of, results, closing>>

(* close(): admission ends, what runs is stopped, ...                      *)
Close ==
    /\ closing = "open"
    /\ closing' = "closing"
    /\ running' = FALSE
    /\ CancelFuture
    /\ UNCHANGED <<session, worker, future, of, results>>

(* ... and the measurements that have begun are waited for.                *)
Closed ==
    /\ closing = "closing"
    /\ OnRadio = {}
    /\ closing' = "closed"
    /\ UNCHANGED <<running, session, worker, future, test, of, results>>

-----------------------------------------------------------------------------
(* The worker thread.                                                      *)

(* The next measurement is handed to the event loop.                       *)
HandOver ==
    /\ worker = "loop"
    /\ running
    /\ \E t \in Tests :
          /\ test[t] = "new"
          /\ test' = [test EXCEPT ![t] = "handed"]
          /\ of' = [of EXCEPT ![t] = session]
          /\ future' = t
    /\ worker' = "waiting"
    /\ UNCHANGED <<running, session, results, closing>>

(* Its result is taken even if the session was stopped meanwhile.          *)
TakeResult ==
    /\ worker = "waiting"
    /\ test[future] = "measured"
    /\ results' = results \cup {future}
    /\ future' = Nothing
    /\ worker' = "loop"
    /\ UNCHANGED <<running, session, test, of, closing>>

(* It failed, was cancelled, or is not there in time: a worker that was not*)
(* stopped gives up.                                                       *)
NoResult ==
    /\ worker = "waiting"
    /\ CancelFuture
    /\ future' = Nothing
    /\ worker' = "ending"
    /\ UNCHANGED <<running, session, of, results, closing>>

(* Stopped, or all combinations measured.                                  *)
LeaveLoop ==
    /\ worker = "loop"
    /\ worker' = "ending"
    /\ UNCHANGED <<running, session, future, test, of, results, closing>>

WorkerEnds ==
    /\ worker = "ending"
    /\ running' = FALSE
    /\ worker' = "none"
    /\ UNCHANGED <<session, future, test, of, results, closing>>

-----------------------------------------------------------------------------
(* The event loop: _run_test and test_cad_config.                          *)

(* A measurement of another session, or after the end, does not begin.     *)
Begin(t) ==
    /\ test[t] = "handed"
    /\ test' = [test EXCEPT ![t] =
                  IF closing # "open" \/ ~running \/ of[t] # session
                  THEN "cancelled" ELSE "measuring"]
    /\ UNCHANGED <<running, session, worker, future, of, results, closing>>

(* perform_cad answers each sample, or the measurement fails.              *)
Measured(t) ==
    /\ test[t] = "measuring"
    /\ \E end \in {"measured", "failed"} : test' = [test EXCEPT ![t] = end]
    /\ UNCHANGED <<running, session, worker, future, of, results, closing>>

Restored(t) ==
    /\ test[t] = "restoring"
    /\ test' = [test EXCEPT ![t] = "cancelled"]
    /\ UNCHANGED <<running, session, worker, future, of, results, closing>>

Next ==
    \/ Start \/ Stop \/ Close \/ Closed
    \/ HandOver \/ TakeResult \/ NoResult \/ LeaveLoop \/ WorkerEnds
    \/ \E t \in Tests : Begin(t) \/ Measured(t) \/ Restored(t)

Spec == Init /\ [][Next]_vars

-----------------------------------------------------------------------------
(* What the theorem about calibrations assumes.                            *)
TestsApart == Nothing \notin Tests

(* Two measurements never have the radio at once, whatever was stopped,    *)
(* timed out or started again (cad_calibration_engine.py:343), none has it *)
(* when close() is done (374-384), and the results are of one session.     *)
OneTestAtATime ==
    /\ Cardinality(OnRadio) <= 1
    /\ closing = "closed" => OnRadio = {}
    /\ \A t \in results : of[t] = session

=============================================================================
