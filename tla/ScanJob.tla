------------------------------ MODULE ScanJob ------------------------------
(***************************************************************************)
(* app/api/bot_api.py: one background Spot opportunity scan.  A thread of  *)
(* its own runs the scan on its own event loop, batch after batch, one     *)
(* task per symbol under a semaphore; the API's thread cancels and polls.  *)
(* They share the job object: writes hold the manager's lock, reads of its *)
(* fields do not.  The Futures scan has the same structure.                *)
(*                                                                         *)
(* A report is abstracted to what kind it is: one that is published while  *)
(* symbols are left ("partial"), the final one, or an earlier scan's       *)
(* ("cached").                                                             *)
(***************************************************************************)
EXTENDS Integers, FiniteSets

CONSTANTS
    Candidates,     \* number of symbols to scan, at most
    BatchSize,      \* symbols per batch
    Concurrency     \* permits of the semaphore

ASSUME ScanAssumption ==
    Candidates \in Nat /\ {BatchSize, Concurrency} \subseteq Nat \ {0}

VARIABLES
    job,        \* the shared SpotScannerJob
    half,       \* the rest of an update under way, and what follows it
    pc,         \* where the scan's coroutine is
    total,      \* len(candidates)
    taken,      \* symbols in the batches started so far
    symbols,    \* what has become of every candidate
    cut,        \* was a batch cut off by the deadline of the scan
    report,     \* the response being finalised
    saved,      \* stages of the completed scan in the database
    poll        \* a status request: where it is, what it has read

worker == <<pc, total, taken, symbols, cut, report>>
vars == <<job, half, worker, saved, poll>>

Terminal == {"completed", "failed", "cancelled"}
Outcomes == {"signal", "dropped", "failed"}
Stages == {"run", "validation", "outcomes"}
NoWrite == [response |-> "none", scanned |-> 0, then |-> "none"]

Init ==
    /\ job = [status |-> "queued", cancel |-> FALSE, response |-> "none", scanned |-> 0]
    /\ half = NoWrite
    /\ pc = "start" /\ total = 0 /\ taken = 0 /\ cut = FALSE
    /\ symbols = [s \in 1..Candidates |-> "todo"]
    /\ report = "none" /\ saved = {}
    /\ poll = [at |-> "idle", status |-> "none", response |-> "none"]

Batch == {s \in 1..total : s > taken - BatchSize /\ s <= taken}
With(outcome) == {s \in 1..total : symbols[s] = outcome}
Settled == {s \in 1..total : symbols[s] \in Outcomes}
-----------------------------------------------------------------------------
(* Mutant: a late update brings a cancelled job back.                      *)
AcceptsAlways(status) == TRUE

(* SpotScannerJobManager.update drops what comes after a cancellation.     *)
Accepts(status) == job.status # "cancelled" \/ status = "cancelled"

(* An update of the status and of what is no part of a report.             *)
Note(status) ==
    job' = IF Accepts(status) THEN [job EXCEPT !.status = status] ELSE job

(* An update that also sets the response: one field after the other, the   *)
(* lock held until the last is written.                                    *)
WriteAll(status, scanned, response, then) ==
    IF Accepts(status)
    THEN /\ job' = [job EXCEPT !.status = status]
         /\ half' = [response |-> response, scanned |-> scanned, then |-> then]
         /\ pc' = "writing"
    ELSE pc' = then /\ UNCHANGED <<job, half>>

Write(status, response, then) == WriteAll(status, job.scanned, response, then)

FinishWrite ==
    /\ pc = "writing"
    /\ job' = [job EXCEPT !.response = half.response, !.scanned = half.scanned]
    /\ pc' = half.then /\ half' = NoWrite
    /\ UNCHANGED <<total, taken, symbols, cut, report, saved, poll>>

-----------------------------------------------------------------------------
(* Opening the storage comes before the try: if it raises, the thread ends *)
(* with nothing recorded.                                                  *)
Open ==
    /\ pc = "start"
    /\ \/ pc' = "universe" /\ Note("running")
       \/ pc' = "dead" /\ UNCHANGED job
    /\ UNCHANGED <<half, total, taken, symbols, cut, report, saved, poll>>

(* The symbol universe: loaded, empty, or the request raises.              *)
LoadUniverse ==
    /\ pc = "universe"
    /\ \/ \E n \in 1..Candidates : total' = n /\ pc' = "check" /\ UNCHANGED <<job, half>>
       \/ /\ \E response \in {"cached", "empty"} : Write("failed", response, "ended")
          /\ UNCHANGED total
       \/ pc' = "failing" /\ UNCHANGED <<total, job, half>>
    /\ UNCHANGED <<taken, symbols, cut, report, saved, poll>>

(* Mutant: the deadline ends the scan and forgets the symbols left.        *)
LeftAsTheyAre == symbols

(* The deadline passes between two batches: what is left has failed.       *)
LeftFailed == [s \in 1..Candidates |->
                  IF s \in (taken + 1)..total THEN "failed" ELSE symbols[s]]

(* The top of the batch loop.                                              *)
NextBatch ==
    /\ pc = "check"
    /\ IF taken >= total
       THEN pc' = "final" /\ UNCHANGED <<job, taken, symbols>>
       ELSE \/ /\ job.cancel
               /\ pc' = "cancelling" /\ UNCHANGED <<job, taken, symbols>>
            \/ /\ ~job.cancel
               /\ pc' = "final" /\ symbols' = LeftFailed /\ UNCHANGED <<job, taken>>
            \/ /\ ~job.cancel
               /\ pc' = "batch"
               /\ taken' = taken + BatchSize
               /\ symbols' = [s \in 1..Candidates |->
                                 IF s \in (taken + 1)..(taken + BatchSize) /\ s <= total
                                 THEN "waiting" ELSE symbols[s]]
               /\ Note(IF With("signal") = {} THEN "running" ELSE "partial")
    /\ UNCHANGED <<half, total, cut, report, saved, poll>>

(* scan_symbol, from the permit to the request.                            *)
PickUp(s) ==
    /\ pc = "batch" /\ s \in Batch /\ symbols[s] = "waiting"
    /\ Cardinality(With("fetching")) < Concurrency
    /\ symbols' = [symbols EXCEPT ![s] = IF job.cancel THEN "dropped" ELSE "fetching"]
    /\ UNCHANGED <<job, half, pc, total, taken, cut, report, saved, poll>>

(* The candles come and the signal is kept or filtered out.                *)
Answer(s) ==
    /\ pc = "batch" /\ s \in Batch /\ symbols[s] = "fetching"
    /\ \E outcome \in {"signal", "dropped"} :
          symbols' = [symbols EXCEPT ![s] = outcome]
    /\ UNCHANGED <<job, half, pc, total, taken, cut, report, saved, poll>>

(* The timeout of the symbol, or an error.                                 *)
GiveUp(s) ==
    /\ pc = "batch" /\ s \in Batch /\ symbols[s] = "fetching"
    /\ symbols' = [symbols EXCEPT ![s] = "failed"]
    /\ UNCHANGED <<job, half, pc, total, taken, cut, report, saved, poll>>

(* asyncio.wait returns: every task is done, or the deadline of the scan   *)
(* cancels the pending ones, which count as failed.  Then the cancel flag  *)
(* is read.                                                                *)
Pending == Batch \ Settled

CollectBatch ==
    /\ pc = "batch"
    /\ symbols' = [s \in 1..Candidates |->
                      IF s \in Pending THEN "failed" ELSE symbols[s]]
    /\ cut' = (Pending # {})
    /\ pc' = IF job.cancel THEN "cancelling" ELSE "count"
    /\ UNCHANGED <<job, half, total, taken, report, saved, poll>>

(* Mutant: the last, short batch counts as a full one.                     *)
ScannedUncapped == taken

Scanned == IF taken < total THEN taken ELSE total

(* An update of the count alone, dropped if the job was cancelled since    *)
(* the flag was read.                                                      *)
CountScanned ==
    /\ pc = "count"
    /\ job' = IF Accepts("none") THEN [job EXCEPT !.scanned = Scanned] ELSE job
    /\ pc' = "publish"
    /\ UNCHANGED <<half, total, taken, symbols, cut, report, saved, poll>>

(* The report so far; a cut batch is the last one.                         *)
Publish ==
    /\ pc = "publish"
    /\ Write(IF taken < total THEN "partial" ELSE "running", "partial",
             IF cut THEN "final" ELSE "check")
    /\ UNCHANGED <<total, taken, symbols, cut, report, saved, poll>>

(* The last look at the cancel flag.  Without any signal but with failures *)
(* an earlier scan's report is looked up, which may raise.                 *)
Finalise ==
    /\ pc = "final"
    /\ \/ job.cancel /\ pc' = "cancelling" /\ UNCHANGED report
       \/ /\ ~job.cancel
          /\ IF With("signal") = {} /\ With("failed") # {}
             THEN \/ report' \in {"cached", "empty"} /\ pc' = "complete"
                  \/ pc' = "failing" /\ UNCHANGED report
             ELSE report' = "final" /\ pc' = "run"
    /\ UNCHANGED <<job, half, total, taken, symbols, cut, saved, poll>>

(* The completed scan is saved in three stages; one that fails is logged   *)
(* and the next one tried.                                                 *)
After(stage) == CASE stage = "run" -> "validation"
                  [] stage = "validation" -> "outcomes"
                  [] OTHER -> "complete"

Save(stage) ==
    /\ pc = stage
    /\ saved' \in {saved, saved \cup {stage}}
    /\ pc' = After(stage)
    /\ UNCHANGED <<job, half, total, taken, symbols, cut, report, poll>>

(* The scanned_count of the report: an earlier scan's is of that scan.     *)
ScannedCount ==
    CASE report = "cached" -> 0..Candidates
      [] report = "empty"  -> {0}
      [] OTHER             -> {job.scanned}

Complete ==
    /\ pc = "complete"
    /\ \E count \in ScannedCount : WriteAll("completed", count, report, "ended")
    /\ UNCHANGED <<total, taken, symbols, cut, report, saved, poll>>

(* Mutant: the report is not carried over.                                 *)
CancelledResponseLost == "none"

(* except CancelledError: the response stays what it is.                   *)
CancelledResponse == job.response

HandleCancel ==
    /\ pc = "cancelling"
    /\ Write("cancelled", CancelledResponse, "ended")
    /\ UNCHANGED <<total, taken, symbols, cut, report, saved, poll>>

(* Mutant: an exception is logged and the job left as it is.               *)
HandleFailureSilently ==
    /\ pc = "failing"
    /\ pc' = "ended"
    /\ UNCHANGED <<job, half, total, taken, symbols, cut, report, saved, poll>>

(* except Exception: an earlier scan's report, if it can be loaded.        *)
HandleFailure ==
    /\ pc = "failing"
    /\ \E response \in {"cached", "none"} : Write("failed", response, "ended")
    /\ UNCHANGED <<total, taken, symbols, cut, report, saved, poll>>
-----------------------------------------------------------------------------
(* The cancel endpoint, whatever the job's status; it needs the lock.      *)
Cancel ==
    /\ pc # "writing"
    /\ job' = [job EXCEPT !.cancel = TRUE, !.status = "cancelled"]
    /\ UNCHANGED <<half, worker, saved, poll>>

(* The status endpoint reads the status first and the response later,      *)
(* without the lock.                                                       *)
PollStatus ==
    /\ poll.at = "idle"
    /\ poll' = [at |-> "reading", status |-> job.status, response |-> "none"]
    /\ UNCHANGED <<job, half, worker, saved>>

PollResponse ==
    /\ poll.at = "reading"
    /\ poll' = [poll EXCEPT !.at = "answered", !.response = job.response]
    /\ UNCHANGED <<job, half, worker, saved>>

PollAgain ==
    /\ poll.at = "answered" /\ poll.status \notin Terminal
    /\ poll' = [at |-> "idle", status |-> "none", response |-> "none"]
    /\ UNCHANGED <<job, half, worker, saved>>

(* What the scan's thread does by itself, timers included.                 *)
Advance ==
    \/ FinishWrite \/ Open \/ LoadUniverse \/ NextBatch
    \/ \E s \in 1..Candidates : PickUp(s) \/ GiveUp(s)
    \/ CollectBatch \/ CountScanned \/ Publish \/ Finalise
    \/ \E stage \in Stages : Save(stage)
    \/ Complete \/ HandleCancel \/ HandleFailure

Next ==
    \/ Advance
    \/ \E s \in 1..Candidates : Answer(s)
    \/ Cancel \/ PollStatus \/ PollResponse \/ PollAgain

Spec == Init /\ [][Next]_vars

(* The thread is scheduled and its timers fire; Binance need not answer    *)
(* and nobody need poll.                                                   *)
FairSpec == Spec /\ WF_vars(Advance)
-----------------------------------------------------------------------------
Reports == {"none", "partial", "final", "cached", "empty"}
Statuses == {"queued", "running", "partial"} \cup Terminal

TypeOK ==
    /\ job \in [status : Statuses, cancel : BOOLEAN, response : Reports,
                scanned : 0..Candidates]
    /\ half.response \in Reports
    /\ total \in 0..Candidates /\ taken \in Nat /\ cut \in BOOLEAN
    /\ symbols \in [1..Candidates -> {"todo", "waiting", "fetching"} \cup Outcomes]
    /\ report \in Reports /\ saved \subseteq Stages

(* A cancellation is never undone: no result, failure or progress report   *)
(* of the thread that is still running gets the job out of cancelled.      *)
CancelledForGood == job.cancel => job.status = "cancelled"

(* The progress shown is backed by outcomes, unless an earlier scan's      *)
(* report is shown, and a scan that completes without a cut batch has      *)
(* accounted for every symbol.                                             *)
ProgressIsBacked ==
    /\ job.response # "cached" => job.scanned <= Cardinality(Settled)
    /\ job.status = "completed" /\ ~cut => Settled = 1..total

(* Cancelling does not take away the partial results already shown.        *)
CancelKeepsResults ==
    [][job.cancel /\ job.response # "none" => job'.response = job.response]_vars

(* Every scan whose storage opens ends in a terminal status, and its       *)
(* thread ends, even if Binance never answers.                             *)
EveryScanEnds == <>[](pc = "dead" \/ (pc = "ended" /\ job.status \in Terminal))

(* Whoever is told that the scan is completed is given its final report.   *)
CompletedPollIsFinal ==
    poll.at = "answered" /\ poll.status = "completed"
        => poll.response \in {"final", "cached", "empty"}
=============================================================================
