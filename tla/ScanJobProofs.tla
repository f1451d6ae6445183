-------------------------- MODULE ScanJobProofs --------------------------
(***************************************************************************)
(* For any number of symbols, any batch size and any number of permits:    *)
(* the job keeps its types and a cancelled job stays cancelled, and the    *)
(* results shown when it was cancelled stay shown. For any symbols,        *)
(* signals, requests and earlier runs: the two scans are scans of ScanJob, *)
(* so that this holds of them, and a report that says "ready" is complete. *)
(***************************************************************************)
EXTENDS MarketScan, FiniteSetTheorems, TLAPS

Jobs == [status : Statuses, cancel : BOOLEAN, response : Reports,
         scanned : 0..Candidates]
SymbolStates == {"todo", "waiting", "fetching"} \cup Outcomes

(* The rest of an update is what it will leave in the job.                 *)
HalfOK == half.response \in Reports /\ half.scanned \in 0..Candidates

(* While an update holds the lock the job has not been cancelled, or the   *)
(* update is the one that says so and repeats the response; what follows   *)
(* it is not another half of an update.                                    *)
UpdateIsLive ==
    pc = "writing" => /\ half.then # "writing"
                      /\ job.cancel => half.response = job.response

ScanInv == TypeOK /\ HalfOK /\ CancelledForGood /\ UpdateIsLive

(* The status is set by update(): dropped on a cancelled job.              *)
LEMMA NoteInv ==
    ASSUME ScanInv, NEW status \in Statuses, Note(status)
    PROVE  /\ job' \in Jobs /\ CancelledForGood'
           /\ job'.cancel = job.cancel /\ job'.response = job.response
  BY DEF ScanInv, TypeOK, CancelledForGood, Note, Accepts, Jobs, Statuses, Terminal

(* The first half of an update.                                            *)
LEMMA WriteInv ==
    ASSUME ScanInv, NEW status \in Statuses, NEW scanned \in 0..Candidates,
           NEW response \in Reports, NEW then,
           WriteAll(status, scanned, response, then),
           job.cancel /\ status = "cancelled" => response = job.response,
           then # "writing"
    PROVE  /\ job' \in Jobs /\ CancelledForGood' /\ HalfOK' /\ UpdateIsLive'
           /\ job'.cancel = job.cancel /\ job'.response = job.response
<1> USE DEF ScanInv, Jobs
<1>1. CASE Accepts(status)
  <2>1. /\ job' = [job EXCEPT !.status = status]
        /\ half' = [response |-> response, scanned |-> scanned, then |-> then]
        /\ pc' = "writing"
    BY <1>1 DEF WriteAll
  <2>2. /\ job' \in Jobs /\ job'.status = status
        /\ job'.cancel = job.cancel /\ job'.response = job.response
    BY <2>1 DEF TypeOK
  <2>3. job.cancel => status = "cancelled"
    BY <1>1 DEF Accepts, CancelledForGood
  <2> QED BY <2>1, <2>2, <2>3 DEF HalfOK, UpdateIsLive, CancelledForGood
<1>2. CASE ~Accepts(status)
  BY <1>2 DEF WriteAll, HalfOK, UpdateIsLive, CancelledForGood, TypeOK
<1> QED BY <1>1, <1>2
(* What a step of the coroutine that leaves the job alone keeps.           *)
LEMMA JobKept ==
    ASSUME ScanInv, UNCHANGED <<job, half>>, pc # "writing", pc' # "writing"
    PROVE  job' \in Jobs /\ CancelledForGood' /\ HalfOK' /\ UpdateIsLive'
  BY DEF ScanInv, TypeOK, Jobs, CancelledForGood, HalfOK, UpdateIsLive

(* The types of what the scan knows of its symbols.                        *)
WorkOK ==
    /\ total \in 0..Candidates /\ taken \in Nat /\ cut \in BOOLEAN
    /\ symbols \in [1..Candidates -> SymbolStates]
    /\ report \in Reports /\ saved \subseteq Stages

(* Types, in two halves.                                                   *)
LEMMA TypeSplit == TypeOK <=> job \in Jobs /\ half.response \in Reports /\ WorkOK
  BY DEF TypeOK, Jobs, WorkOK, SymbolStates

(* Every way to set the status and the response at once.                   *)
LEMMA UpdateInv ==
    ASSUME ScanInv,
           \/ LoadUniverse /\ pc' # "check" /\ pc' # "failing"
           \/ Publish \/ Complete \/ HandleCancel \/ HandleFailure
    PROVE  job' \in Jobs /\ CancelledForGood' /\ HalfOK' /\ UpdateIsLive'
<1> USE DEF ScanInv
<1>1. job.scanned \in 0..Candidates /\ job.response \in Reports /\ report \in Reports
  BY DEF TypeOK
<1>2. CASE LoadUniverse /\ pc' # "check" /\ pc' # "failing"
  <2>1. PICK response \in {"cached", "empty"} :
           WriteAll("failed", job.scanned, response, "ended")
    BY <1>2 DEF LoadUniverse, Write
  <2> QED BY <1>1, <2>1, WriteInv DEF Statuses, Terminal, Reports
<1>3. CASE Publish
  <2>1. PICK status \in {"partial", "running"}, then \in {"final", "check"} :
           WriteAll(status, job.scanned, "partial", then)
    BY <1>3 DEF Publish, Write
  <2> QED BY <1>1, <2>1, WriteInv DEF Statuses, Terminal, Reports
<1>4. CASE Complete
  <2>1. PICK count \in ScannedCount : WriteAll("completed", count, report, "ended")
    BY <1>4 DEF Complete
  <2>2. count \in 0..Candidates
    BY <1>1, <2>1, ScanAssumption DEF ScannedCount
  <2> QED BY <1>1, <2>1, <2>2, WriteInv DEF Statuses, Terminal
<1>5. CASE HandleCancel
  <2>1. WriteAll("cancelled", job.scanned, job.response, "ended")
    BY <1>5 DEF HandleCancel, Write, CancelledResponse
  <2> QED BY <1>1, <2>1, WriteInv DEF Statuses, Terminal
<1>6. CASE HandleFailure
  <2>1. PICK response \in {"cached", "none"} :
           WriteAll("failed", job.scanned, response, "ended")
    BY <1>6 DEF HandleFailure, Write
  <2> QED BY <1>1, <2>1, WriteInv DEF Statuses, Terminal, Reports
<1> QED BY <1>2, <1>3, <1>4, <1>5, <1>6

(* The scan's work on its symbols keeps its types.                         *)
LEMMA WorkInv == ASSUME ScanInv, Advance PROVE WorkOK'
<1> USE ScanAssumption DEF ScanInv
<1>1. WorkOK
  BY TypeSplit
<1>2. CASE LoadUniverse
  BY <1>1, <1>2 DEF LoadUniverse, WorkOK
<1>3. CASE NextBatch
  <2>1. /\ UNCHANGED <<total, cut, report, saved>>
        /\ taken' \in {taken, taken + BatchSize}
    BY <1>3 DEF NextBatch
  <2>2. taken' \in Nat
    BY <1>1, <2>1 DEF WorkOK
  <2>3. symbols' \in [1..Candidates -> SymbolStates]
    <3>1. LeftFailed \in [1..Candidates -> SymbolStates]
      BY <1>1 DEF LeftFailed, WorkOK, SymbolStates, Outcomes
    <3>2. [s \in 1..Candidates |->
              IF s \in (taken + 1)..(taken + BatchSize) /\ s <= total
              THEN "waiting" ELSE symbols[s]] \in [1..Candidates -> SymbolStates]
      BY <1>1 DEF WorkOK, SymbolStates, Outcomes
    <3> QED BY <1>1, <1>3, <3>1, <3>2 DEF NextBatch, WorkOK
  <2> QED BY <1>1, <2>1, <2>2, <2>3 DEF WorkOK
<1>4. CASE \E s \in 1..Candidates : PickUp(s) \/ GiveUp(s)
  BY <1>1, <1>4 DEF PickUp, GiveUp, WorkOK, SymbolStates, Outcomes
<1>5. CASE CollectBatch
  BY <1>1, <1>5 DEF CollectBatch, WorkOK, SymbolStates, Outcomes
<1>6. CASE Finalise
  BY <1>1, <1>6 DEF Finalise, WorkOK, Reports
<1>7. CASE \E stage \in Stages : Save(stage)
  BY <1>1, <1>7 DEF Save, WorkOK
<1>8. CASE FinishWrite \/ Open \/ CountScanned \/ Publish \/ Complete \/ HandleCancel
          \/ HandleFailure
  BY <1>1, <1>8 DEF FinishWrite, Open, CountScanned, Publish, Complete, HandleCancel,
     HandleFailure, WorkOK
<1> QED BY <1>2, <1>3, <1>4, <1>5, <1>6, <1>7, <1>8 DEF Advance

(* The scan's own steps never bring a cancelled job back.                  *)
LEMMA AdvanceInv ==
    ASSUME ScanInv, Advance
    PROVE  job' \in Jobs /\ CancelledForGood' /\ HalfOK' /\ UpdateIsLive'
<1> USE DEF ScanInv
<1>1. CASE FinishWrite
  <2>1. /\ job' = [job EXCEPT !.response = half.response, !.scanned = half.scanned]
        /\ half' = NoWrite /\ pc' # "writing"
    BY <1>1 DEF FinishWrite, UpdateIsLive
  <2>2. job' \in Jobs /\ CancelledForGood'
    BY <2>1 DEF TypeOK, HalfOK, Jobs, CancelledForGood
  <2>3. 0 \in 0..Candidates
    BY ScanAssumption
  <2> QED BY <2>1, <2>2, <2>3 DEF HalfOK, NoWrite, Reports, UpdateIsLive
<1>2. CASE Open
  <2>1. CASE pc' = "dead" /\ UNCHANGED job
    BY <1>2, <2>1, JobKept DEF Open
  <2>2. CASE pc' = "universe" /\ Note("running")
    <3>1. job' \in Jobs /\ CancelledForGood'
      BY <2>2, NoteInv DEF Statuses
    <3> QED BY <1>2, <2>2, <3>1 DEF Open, HalfOK, UpdateIsLive
  <2> QED BY <1>2, <2>1, <2>2 DEF Open
<1>3. CASE LoadUniverse
  <2>1. CASE pc' \in {"check", "failing"} /\ UNCHANGED <<job, half>>
    BY <1>3, <2>1, JobKept DEF LoadUniverse
  <2>2. CASE pc' # "check" /\ pc' # "failing"
    BY <1>3, <2>2, UpdateInv
  <2> QED BY <1>3, <2>1, <2>2 DEF LoadUniverse, Write, WriteAll
<1>4. CASE NextBatch
  <2>1. CASE UNCHANGED job
    BY <1>4, <2>1, JobKept DEF NextBatch
  <2>2. CASE \E status \in {"running", "partial"} : Note(status)
    <3>1. job' \in Jobs /\ CancelledForGood'
      BY <2>2, NoteInv DEF Statuses
    <3> QED BY <1>4, <3>1 DEF NextBatch, HalfOK, UpdateIsLive
  <2> QED BY <1>4, <2>1, <2>2 DEF NextBatch
<1>5. CASE CountScanned
  <2>1. Scanned \in 0..Candidates
    BY ScanAssumption DEF Scanned, TypeOK
  <2>2. /\ job' = [job EXCEPT !.scanned = Scanned] \/ job' = job
        /\ pc' = "publish" /\ half' = half
    BY <1>5 DEF CountScanned
  <2> QED BY <2>1, <2>2 DEF TypeOK, Jobs, CancelledForGood, HalfOK, UpdateIsLive
<1>6. CASE (\E s \in 1..Candidates : PickUp(s) \/ GiveUp(s)) \/ CollectBatch \/ Finalise
          \/ \E stage \in Stages : Save(stage)
  <2>1. UNCHANGED <<job, half>> /\ pc # "writing" /\ pc' # "writing"
    BY <1>6 DEF PickUp, GiveUp, CollectBatch, Finalise, Save, Stages, After
  <2> QED BY <2>1, JobKept
<1>7. CASE Publish \/ Complete \/ HandleCancel \/ HandleFailure
  BY <1>7, UpdateInv
<1> QED BY <1>1, <1>2, <1>3, <1>4, <1>5, <1>6, <1>7 DEF Advance

(* Every step keeps the invariant.                                         *)
LEMMA ScanStepInv == ASSUME ScanInv, [Next]_vars PROVE ScanInv'
<1> USE DEF ScanInv
<1>1. CASE Advance
  <2>1. job' \in Jobs /\ CancelledForGood' /\ HalfOK' /\ UpdateIsLive'
    BY <1>1, AdvanceInv
  <2>2. WorkOK'
    BY <1>1, WorkInv
  <2> QED BY <2>1, <2>2 DEF TypeOK, WorkOK, Jobs, SymbolStates, HalfOK
<1>2. CASE \E s \in 1..Candidates : Answer(s)
  <2>1. UNCHANGED <<job, half, pc, total, taken, cut, report, saved>>
    BY <1>2 DEF Answer
  <2>2. symbols' \in [1..Candidates -> SymbolStates]
    BY <1>2 DEF Answer, TypeOK, SymbolStates, Outcomes
  <2> QED BY <2>1, <2>2
          DEF TypeOK, SymbolStates, CancelledForGood, HalfOK, UpdateIsLive
<1>3. CASE Cancel
  BY <1>3 DEF Cancel, TypeOK, Statuses, Terminal, CancelledForGood, HalfOK,
              UpdateIsLive, worker
<1>4. CASE PollStatus \/ PollResponse \/ PollAgain \/ UNCHANGED vars
  <2>1. UNCHANGED <<job, half, pc, total, taken, symbols, cut, report, saved>>
    BY <1>4 DEF PollStatus, PollResponse, PollAgain, vars, worker
  <2> QED BY <2>1 DEF TypeOK, CancelledForGood, HalfOK, UpdateIsLive
<1> QED BY <1>1, <1>2, <1>3, <1>4 DEF Next

(* A scan begins with the invariant.                                       *)
LEMMA ScanInitInv == ASSUME Init PROVE ScanInv
<1>1. 0 \in 0..Candidates
  BY ScanAssumption
<1>2. job \in Jobs /\ HalfOK /\ CancelledForGood /\ UpdateIsLive
  BY <1>1 DEF Init, Jobs, Statuses, Reports, HalfOK, NoWrite, CancelledForGood, UpdateIsLive
<1>3. WorkOK
  BY <1>1 DEF Init, WorkOK, SymbolStates, Reports
<1> QED BY <1>2, <1>3, TypeSplit DEF ScanInv, HalfOK

(* ScanInv holds in every reachable state.                                 *)
THEOREM ScanInvariant == Spec => []ScanInv
<1>1. Init => ScanInv
  BY ScanInitInv
<1>2. ScanInv /\ [Next]_vars => ScanInv'
  BY ScanStepInv
<1> QED BY <1>1, <1>2, PTL DEF Spec
-----------------------------------------------------------------------------
(* The job and the scan's own state keep their types.                      *)
THEOREM ScanTypes == Spec => []TypeOK
<1>1. ScanInv => TypeOK
  BY DEF ScanInv
<1> QED BY <1>1, ScanInvariant, PTL

(* A cancellation is final: progress reports, results, failures and the    *)
(* deadline of the thread that is still running do not undo it.            *)
THEOREM CancelIsFinal == Spec => []CancelledForGood
<1>1. ScanInv => CancelledForGood
  BY DEF ScanInv
<1> QED BY <1>1, ScanInvariant, PTL

(* The results shown when the job is cancelled stay shown.                 *)
THEOREM CancelKeepsShown == Spec => CancelKeepsResults
<1>1. ASSUME ScanInv, [Next]_vars, job.cancel, job.response # "none"
      PROVE  job'.response = job.response
  <2> USE DEF ScanInv
  <2>1. CASE FinishWrite
    BY <1>1, <2>1 DEF FinishWrite, UpdateIsLive, TypeOK
  <2>2. CASE Advance /\ ~FinishWrite
    <3>1. CASE \E status : job' = [job EXCEPT !.status = status]
      BY <3>1 DEF TypeOK
    <3>2. CASE job' = job \/ job' = [job EXCEPT !.scanned = Scanned]
      BY <1>1, <3>2 DEF TypeOK
    <3> QED BY <2>2, <3>1, <3>2
            DEF Advance, Open, LoadUniverse, NextBatch, PickUp, GiveUp, CollectBatch,
                CountScanned, Publish, Finalise, Save, Complete, HandleCancel, HandleFailure,
                Note, Write, WriteAll
  <2>3. CASE Cancel
    BY <2>3 DEF Cancel, TypeOK
  <2>4. CASE (\E s \in 1..Candidates : Answer(s)) \/ PollStatus \/ PollResponse
            \/ PollAgain \/ UNCHANGED vars
    BY <2>4 DEF Answer, PollStatus, PollResponse, PollAgain, vars
  <2> QED BY <1>1, <2>1, <2>2, <2>3, <2>4 DEF Next
<1>2. ScanInv /\ [Next]_vars
         => [job.cancel /\ job.response # "none" => job'.response = job.response]_vars
  BY <1>1
<1> QED BY <1>2, ScanInvariant, PTL DEF Spec, CancelKeepsResults
-----------------------------------------------------------------------------
(* What the progress of the scan is backed by.                             *)

(* Where the coroutine is, or will be after the update under way.          *)
Heading(where) == pc = where \/ (pc = "writing" /\ half.then = where)

(* Batches that were taken up are settled, but for the one under way.      *)
BatchesSettled ==
    /\ \A where \in {"start", "universe"} : Heading(where) => taken = 0
    /\ Heading("batch") =>
         \A s \in 1..total : s <= taken - BatchSize => symbols[s] \in Outcomes
    /\ \A where \in {"check", "count", "publish"} : Heading(where) =>
         \A s \in 1..total : s <= taken => symbols[s] \in Outcomes

(* The symbols after them are untouched while the loop goes on.            *)
RestUntouched ==
    (\E where \in {"start", "universe", "check", "batch", "count", "publish"} :
         Heading(where))
      => \A s \in 1..Candidates : s > taken => symbols[s] = "todo"

(* A batch that was cut ends the loop and leaves failures; a loop that ends *)
(* otherwise has settled every symbol.                                     *)
LoopEnds ==
    /\ cut => With("failed") # {}
    /\ cut => \A where \in {"start", "universe", "check", "batch"} : ~Heading(where)
    /\ \A where \in {"final", "complete"} \cup Stages :
         Heading(where) => cut \/ Settled = 1..total
    /\ job.status = "completed" => Heading("ended") /\ (cut \/ Settled = 1..total)

(* Cancelling and polling touch nothing of the thread.                        *)
LEMMA OtherStepsLeaveTheBatches ==
    ASSUME [Next]_vars, ~Advance, ~\E s \in 1..Candidates : Answer(s)
    PROVE  UNCHANGED <<pc, half, total, taken, symbols, cut>>
  BY DEF Next, Cancel, PollStatus, PollResponse, PollAgain, vars, worker

(* Batches are settled when the next one is looked for.                       *)
LEMMA BatchesStep ==
    ASSUME ScanInv, BatchesSettled, [Next]_vars
    PROVE  BatchesSettled'
<1> USE ScanAssumption DEF ScanInv, TypeOK, BatchesSettled
<1>1. CASE FinishWrite
  <2>1. pc = "writing" /\ pc' = half.then /\ pc' # "writing"
    BY <1>1 DEF FinishWrite, UpdateIsLive
  <2>2. UNCHANGED <<total, taken, symbols>>
    BY <1>1 DEF FinishWrite
  <2>3. CASE half.then \in {"start", "universe"}
    BY <2>1, <2>2, <2>3 DEF Heading
  <2>4. CASE half.then \notin {"start", "universe"}
    BY <2>1, <2>2, <2>4 DEF Heading
  <2> QED BY <2>3, <2>4
<1>2. CASE Open
  BY <1>2 DEF Open, Heading
<1>3. CASE LoadUniverse
  <2>1. taken = 0 /\ taken' = 0 /\ \A where \in {"start", "universe", "batch"} : ~Heading(where)'
    BY <1>3 DEF LoadUniverse, Write, WriteAll, Heading
  <2>2. total' \in Int
    BY <1>3 DEF LoadUniverse
  <2>3. \A s \in 1..total' : ~(s <= taken')
    BY <2>1, <2>2
  <2> QED BY <2>1, <2>3
<1>4. CASE NextBatch
  <2>1. CASE pc' = "batch"
    <3>1. taken' = taken + BatchSize /\ total' = total /\ pc = "check"
      BY <1>4, <2>1 DEF NextBatch
    <3>2. \A s \in 1..total : s <= taken => symbols[s] \in Outcomes
      BY <3>1 DEF Heading
    <3>3. \A s \in 1..total : s <= taken => symbols'[s] = symbols[s]
      BY <1>4, <2>1 DEF NextBatch
    <3> QED BY <2>1, <3>1, <3>2, <3>3 DEF Heading
  <2>2. CASE pc' # "batch"
    BY <1>4, <2>2 DEF NextBatch, Heading
  <2> QED BY <2>1, <2>2
<1>5. CASE \E s \in 1..Candidates : PickUp(s) \/ GiveUp(s) \/ Answer(s)
  <2>1. PICK s \in 1..Candidates : PickUp(s) \/ GiveUp(s) \/ Answer(s)
    BY <1>5
  <2>2. /\ pc = "batch" /\ pc' = "batch" /\ symbols[s] \notin Outcomes
        /\ UNCHANGED <<total, taken>> /\ \A r \in 1..Candidates : r # s => symbols'[r] = symbols[r]
    BY <2>1 DEF PickUp, GiveUp, Answer, Outcomes
  <2> QED BY <2>2 DEF Heading
<1>6. CASE CollectBatch
  <2>1. pc = "batch" /\ pc' \in {"cancelling", "count"} /\ UNCHANGED <<total, taken>>
    BY <1>6 DEF CollectBatch
  <2>2. \A s \in 1..total : s <= taken => symbols'[s] \in Outcomes
    <3> SUFFICES ASSUME NEW s \in 1..total, s <= taken PROVE symbols'[s] \in Outcomes
      OBVIOUS
    <3>1. s \in Pending \/ symbols[s] \in Outcomes
      BY <2>1 DEF Pending, Batch, Settled, Heading
    <3>2. symbols'[s] = IF s \in Pending THEN "failed" ELSE symbols[s]
      BY <1>6 DEF CollectBatch
    <3> QED BY <3>1, <3>2 DEF Outcomes
  <2> QED BY <2>1, <2>2 DEF Heading
<1>7. CASE Publish
  <2>1. /\ pc = "publish"
        /\ \A where \in {"start", "universe", "batch", "count", "publish"} : ~Heading(where)'
    BY <1>7 DEF Publish, Write, WriteAll, Heading
  <2>3. UNCHANGED <<total, taken, symbols>>
    BY <1>7 DEF Publish
  <2> QED BY <2>1, <2>3 DEF Heading
<1>8. CASE CountScanned \/ Finalise \/ \E stage \in Stages : Save(stage)
  BY <1>8 DEF CountScanned, Finalise, Save, Stages, After, Heading
<1>9. CASE Complete \/ HandleCancel \/ HandleFailure
  <2>1. /\ \A where \in {"start", "universe", "batch", "check", "count", "publish"} :
             ~Heading(where)'
        /\ UNCHANGED <<total, taken, symbols>>
    BY <1>9 DEF Complete, HandleCancel, HandleFailure, Write, WriteAll, Heading
  <2> QED BY <2>1
<1>10. CASE ~Advance /\ ~\E s \in 1..Candidates : Answer(s)
  BY <1>10, OtherStepsLeaveTheBatches DEF Heading
<1> QED BY <1>1, <1>2, <1>3, <1>4, <1>5, <1>6, <1>7, <1>8, <1>9, <1>10 DEF Advance

(* What is left of the universe is left alone.                             *)
LEMMA UntouchedStep ==
    ASSUME ScanInv, BatchesSettled, RestUntouched, [Next]_vars
    PROVE  RestUntouched'
<1> DEFINE Loop == {"start", "universe", "check", "batch", "count", "publish"}
<1> USE ScanAssumption DEF ScanInv, TypeOK, RestUntouched
<1>1. CASE FinishWrite
  <2>1. pc = "writing" /\ pc' = half.then /\ pc' # "writing"
    BY <1>1 DEF FinishWrite, UpdateIsLive
  <2>2. UNCHANGED <<taken, symbols>>
    BY <1>1 DEF FinishWrite
  <2> QED BY <2>1, <2>2 DEF Heading
<1>2. CASE Open \/ LoadUniverse \/ CountScanned \/ Publish
  <2>1. UNCHANGED <<taken, symbols>> /\ pc \in {"start", "universe", "count", "publish"}
    BY <1>2 DEF Open, LoadUniverse, CountScanned, Publish
  <2> QED BY <2>1 DEF Heading
<1>3. CASE NextBatch
  <2>1. CASE pc' = "batch"
    <3>1. pc = "check" /\ taken' = taken + BatchSize
      BY <1>3, <2>1 DEF NextBatch
    <3>2. \A s \in 1..Candidates : s > taken' => symbols'[s] = symbols[s] /\ s > taken
      BY <1>3, <2>1, <3>1 DEF NextBatch
    <3> QED BY <3>1, <3>2 DEF Heading
  <2>2. CASE pc' # "batch"
    <3>1. \A where \in Loop : ~Heading(where)'
      BY <1>3, <2>2 DEF NextBatch, Heading
    <3> QED BY <3>1
  <2> QED BY <2>1, <2>2
<1>4. CASE \E s \in 1..Candidates : PickUp(s) \/ GiveUp(s) \/ Answer(s)
  <2>1. PICK s \in 1..Candidates : PickUp(s) \/ GiveUp(s) \/ Answer(s)
    BY <1>4
  <2>2. /\ pc = "batch" /\ pc' = "batch" /\ s <= taken /\ UNCHANGED taken
        /\ \A r \in 1..Candidates : r # s => symbols'[r] = symbols[r]
    BY <2>1 DEF PickUp, GiveUp, Answer, Batch
  <2> QED BY <2>2 DEF Heading
<1>5. CASE CollectBatch
  <2>1. pc = "batch" /\ UNCHANGED taken
    BY <1>5 DEF CollectBatch
  <2>2. \A s \in 1..Candidates : s > taken => symbols'[s] = symbols[s]
    <3> SUFFICES ASSUME NEW s \in 1..Candidates, s > taken PROVE symbols'[s] = symbols[s]
      OBVIOUS
    <3>1. s \notin Pending
      BY DEF Pending, Batch
    <3> QED BY <1>5, <3>1 DEF CollectBatch
  <2> QED BY <2>1, <2>2 DEF Heading
<1>6. CASE Finalise \/ Complete \/ HandleCancel \/ HandleFailure \/ \E stage \in Stages : Save(stage)
  <2>1. \A where \in Loop : ~Heading(where)'
    BY <1>6 DEF Finalise, Complete, HandleCancel, HandleFailure, Save, Stages, After, Write,
       WriteAll, Heading
  <2> QED BY <2>1
<1>7. CASE ~Advance /\ ~\E s \in 1..Candidates : Answer(s)
  BY <1>7, OtherStepsLeaveTheBatches DEF Heading
<1> QED BY <1>1, <1>2, <1>3, <1>4, <1>5, <1>6, <1>7 DEF Advance

(* What is settled stays settled.                                          *)
LEMMA SettledGrows ==
    ASSUME ScanInv, BatchesSettled, RestUntouched, [Next]_vars
    PROVE  Settled \subseteq Settled' /\ With("failed") \subseteq With("failed")'
<1> USE ScanAssumption DEF ScanInv, TypeOK
<1>1. CASE LoadUniverse
  <2>1. \A s \in 1..Candidates : symbols[s] = "todo"
    <3>1. taken = 0 /\ pc = "universe"
      BY <1>1 DEF LoadUniverse, BatchesSettled, Heading
    <3> QED BY <3>1 DEF RestUntouched, Heading
  <2>2. Settled = {} /\ With("failed") = {}
    BY <2>1 DEF Settled, With, Outcomes
  <2> QED BY <2>2
<1>2. CASE NextBatch
  <2>1. pc = "check" /\ UNCHANGED total
    BY <1>2 DEF NextBatch
  <2>2. ASSUME NEW s \in 1..total, symbols[s] \in Outcomes PROVE symbols'[s] = symbols[s]
    <3>1. s <= taken
      BY <2>1, <2>2 DEF RestUntouched, Heading, Outcomes
    <3>2. s \notin (taken + 1)..total /\ s \notin (taken + 1)..(taken + BatchSize)
      BY <3>1
    <3> QED BY <1>2, <2>2, <3>2 DEF NextBatch, LeftFailed
  <2> QED BY <2>1, <2>2 DEF Settled, With, Outcomes
<1>3. CASE \E s \in 1..Candidates : PickUp(s) \/ GiveUp(s) \/ Answer(s)
  BY <1>3 DEF PickUp, GiveUp, Answer, Settled, With, Outcomes
<1>4. CASE CollectBatch
  <2>1. UNCHANGED total /\ \A s \in 1..total : s \in Settled => symbols'[s] = symbols[s]
    BY <1>4 DEF CollectBatch, Pending
  <2> QED BY <2>1 DEF Settled, With, Outcomes
<1>5. CASE UNCHANGED <<total, symbols>>
  BY <1>5 DEF Settled, With
<1>6. CASE FinishWrite \/ Open \/ CountScanned \/ Publish \/ Finalise \/ Complete
          \/ HandleCancel \/ HandleFailure \/ \E stage \in Stages : Save(stage)
  BY <1>5, <1>6 DEF FinishWrite, Open, CountScanned, Publish, Finalise, Complete,
     HandleCancel, HandleFailure, Save
<1>7. CASE ~Advance /\ ~\E s \in 1..Candidates : Answer(s)
  BY <1>5, <1>7, OtherStepsLeaveTheBatches
<1> QED BY <1>1, <1>2, <1>3, <1>4, <1>6, <1>7 DEF Advance

(* With how the loop ends, a scan that completes has settled its universe. *)
LEMMA LoopEndsStep ==
    ASSUME ScanInv, BatchesSettled, RestUntouched, LoopEnds, [Next]_vars
    PROVE  LoopEnds'
<1> USE ScanAssumption DEF ScanInv, TypeOK, LoopEnds
<1>1. CASE FinishWrite
  <2>1. pc = "writing" /\ pc' = half.then /\ pc' # "writing"
    BY <1>1 DEF FinishWrite, UpdateIsLive
  <2>2. UNCHANGED <<total, symbols, cut>> /\ job'.status = job.status
    BY <1>1 DEF FinishWrite
  <2>3. With("failed")' = With("failed") /\ Settled' = Settled
    BY <2>2 DEF With, Settled
  <2>4. \A where \in {"start", "universe", "check", "batch", "final", "complete"} \cup Stages :
           Heading(where)' => Heading(where)
    BY <2>1 DEF Heading, Stages
  <2>5. Heading("ended") => Heading("ended")'
    BY <2>1 DEF Heading
  <2> QED BY <2>2, <2>3, <2>4, <2>5
<1>2. CASE NextBatch
  <2>1. pc = "check" /\ UNCHANGED <<total, cut>> /\ pc' # "writing"
    BY <1>2 DEF NextBatch
  <2>2. ~cut /\ job.status # "completed" /\ job'.status # "completed"
    BY <1>2, <2>1 DEF Heading, NextBatch, Note
  <2>3. \A s \in 1..total : s <= taken => symbols[s] \in Outcomes
    BY <2>1 DEF BatchesSettled, Heading
  <2>4. ASSUME pc' = "final" PROVE \A s \in 1..total : symbols'[s] \in Outcomes
    <3>1. CASE symbols' = symbols /\ taken >= total
      BY <2>3, <3>1
    <3>2. CASE symbols' = LeftFailed
      BY <2>3, <3>2 DEF LeftFailed, Outcomes
    <3> QED BY <1>2, <2>4, <3>1, <3>2 DEF NextBatch
  <2>5. pc' \notin {"complete"} \cup Stages
    BY <1>2 DEF NextBatch, Stages
  <2> QED BY <2>1, <2>2, <2>4, <2>5 DEF Heading, Settled
<1>3. CASE CollectBatch
  <2>1. /\ pc = "batch" /\ pc' \in {"cancelling", "count"} /\ UNCHANGED total
        /\ cut' = (Pending # {}) /\ job'.status = job.status
    BY <1>3 DEF CollectBatch
  <2>2. ASSUME cut' PROVE With("failed")' # {}
    <3>1. PICK s \in Pending : TRUE
      BY <2>1, <2>2
    <3>2. s \in 1..total
      BY <3>1 DEF Pending, Batch
    <3>3. symbols'[s] = "failed"
      BY <1>3, <3>1, <3>2 DEF CollectBatch
    <3> QED BY <2>1, <3>2, <3>3 DEF With
  <2>3. job.status # "completed"
    BY <2>1 DEF Heading
  <2> QED BY <2>1, <2>2, <2>3 DEF Heading, Stages
<1>4. CASE Publish
  <2>1. /\ pc = "publish" /\ UNCHANGED <<total, symbols, cut>> /\ job.status # "completed"
    BY <1>4 DEF Publish, Heading
  <2>2. /\ cut => \A where \in {"start", "universe", "check", "batch"} : ~Heading(where)'
        /\ Heading("final")' => cut
        /\ \A where \in {"complete"} \cup Stages : ~Heading(where)'
        /\ job'.status # "completed"
    BY <1>4, <2>1 DEF Publish, Write, WriteAll, Heading, Stages
  <2> QED BY <2>1, <2>2 DEF With
<1>5. CASE Complete
  <2>1. pc = "complete" /\ UNCHANGED <<total, symbols, cut>>
    BY <1>5 DEF Complete
  <2>2. /\ Heading("ended")'
        /\ \A where \in {"start", "universe", "check", "batch", "final", "complete"} \cup Stages :
             ~Heading(where)'
    BY <1>5 DEF Complete, WriteAll, Heading, Stages
  <2>3. cut \/ Settled = 1..total
    BY <2>1 DEF Heading
  <2> QED BY <2>1, <2>2, <2>3 DEF With, Settled
<1>6. CASE Open \/ LoadUniverse \/ HandleCancel \/ HandleFailure
  <2>1. UNCHANGED cut /\ pc \in {"start", "universe", "cancelling", "failing"}
    BY <1>6 DEF Open, LoadUniverse, HandleCancel, HandleFailure
  <2>2. job.status # "completed" /\ job'.status # "completed"
    BY <1>6, <2>1 DEF Heading, Open, LoadUniverse, HandleCancel, HandleFailure, Note, Write, WriteAll
  <2>3. /\ \A where \in {"final", "complete"} \cup Stages : ~Heading(where)'
        /\ cut => \A where \in {"start", "universe", "check", "batch"} : ~Heading(where)'
    BY <1>6, <2>1 DEF Heading, Open, LoadUniverse, HandleCancel, HandleFailure, Write, WriteAll, Stages
  <2>4. With("failed") \subseteq With("failed")'
    BY SettledGrows
  <2> QED BY <2>1, <2>2, <2>3, <2>4
<1>7. CASE Finalise \/ \E stage \in Stages : Save(stage)
  <2>1. /\ UNCHANGED <<job, half, total, symbols, cut>> /\ pc \in {"final"} \cup Stages
        /\ pc' \in {"cancelling", "complete", "failing"} \cup Stages
    BY <1>7 DEF Finalise, Save, Stages, After
  <2>2. cut \/ Settled = 1..total
    BY <2>1 DEF Heading
  <2>3. job.status # "completed"
    BY <2>1 DEF Heading, Stages
  <2>4. \A where \in {"start", "universe", "check", "batch"} : ~Heading(where)'
    BY <2>1 DEF Heading, Stages
  <2> QED BY <2>1, <2>2, <2>3, <2>4 DEF With, Settled
<1>8. CASE \E s \in 1..Candidates : PickUp(s) \/ GiveUp(s) \/ Answer(s)
  <2>1. pc = "batch" /\ UNCHANGED <<pc, half, job, cut>>
    BY <1>8 DEF PickUp, GiveUp, Answer
  <2>2. ~cut /\ job.status # "completed"
    BY <2>1 DEF Heading
  <2> QED BY <2>1, <2>2 DEF Heading, Stages
<1>9. CASE ~Advance /\ ~\E s \in 1..Candidates : Answer(s)
  <2>1. UNCHANGED <<pc, half, total, symbols, cut>>
    BY <1>9, OtherStepsLeaveTheBatches
  <2>2. job'.status = "completed" => job.status = "completed"
    BY <1>9 DEF Next, Cancel, PollStatus, PollResponse, PollAgain, vars
  <2> QED BY <2>1, <2>2 DEF Heading, With, Settled
<1>10. CASE CountScanned
  <2>1. /\ pc = "count" /\ pc' = "publish" /\ UNCHANGED <<total, symbols, cut>>
        /\ job'.status = job.status
    BY <1>10 DEF CountScanned
  <2>2. job.status # "completed"
    BY <2>1 DEF Heading
  <2> QED BY <2>1, <2>2 DEF Heading, With, Stages
<1> QED BY <1>1, <1>2, <1>3, <1>4, <1>5, <1>6, <1>7, <1>8, <1>9, <1>10 DEF Advance

(* What a count of scanned symbols claims, unless it is an earlier scan's. *)
Backed(response, count) == response # "cached" => 1..count \subseteq Settled

CountsBacked ==
    /\ Backed(job.response, job.scanned)
    /\ job.response = "cached" => pc = "ended"
    /\ pc = "writing" => Backed(half.response, half.scanned)
    /\ pc = "writing" /\ half.response = "cached" => half.then = "ended"

ProgressInv == ScanInv /\ BatchesSettled /\ RestUntouched /\ LoopEnds /\ CountsBacked

(* An update claims no more than the job did, or than what it counted.     *)
LEMMA WriteBacked ==
    ASSUME ProgressInv, [Next]_vars, NEW status, NEW count, NEW response, NEW then,
           WriteAll(status, count, response, then), pc # "writing", then # "writing",
           job.response # "cached", count = job.scanned \/ count = 0 \/ response = "cached",
           response = "cached" => then = "ended"
    PROVE  CountsBacked'
<1> USE DEF ProgressInv, ScanInv, TypeOK, CountsBacked, Backed
<1>1. Settled \subseteq Settled' /\ 1..0 = {}
  BY SettledGrows
<1>2. job'.response = job.response /\ job'.scanned = job.scanned
  BY DEF WriteAll
<1>3. CASE Accepts(status)
  <2>1. half'.response = response /\ half'.scanned = count /\ half'.then = then
    BY <1>3 DEF WriteAll
  <2> QED BY <1>1, <1>2, <2>1
<1>4. CASE ~Accepts(status)
  <2>1. pc' # "writing"
    BY <1>4 DEF WriteAll
  <2> QED BY <1>1, <1>2, <2>1
<1> QED BY <1>3, <1>4

(* A step keeps the counts shown, and those an update is still to write, backed.*)
LEMMA CountsStep ==
    ASSUME ProgressInv, [Next]_vars PROVE CountsBacked'
<1> USE ScanAssumption DEF ProgressInv, ScanInv, TypeOK, CountsBacked, Backed
<1>1. Settled \subseteq Settled'
  BY SettledGrows
<1>2. CASE FinishWrite
  <2>1. /\ job'.response = half.response /\ job'.scanned = half.scanned
        /\ pc = "writing" /\ pc' = half.then /\ pc' # "writing"
    BY <1>2 DEF FinishWrite, UpdateIsLive
  <2> QED BY <1>1, <2>1
<1>3. CASE LoadUniverse /\ pc' \notin {"check", "failing"}
  <2>1. PICK response \in {"cached", "empty"} :
           WriteAll("failed", job.scanned, response, "ended")
    BY <1>3 DEF LoadUniverse, Write
  <2>2. pc = "universe"
    BY <1>3 DEF LoadUniverse
  <2> QED BY <2>1, <2>2, WriteBacked
<1>4. CASE Publish
  <2>1. PICK status \in {"partial", "running"}, then \in {"final", "check"} :
           WriteAll(status, job.scanned, "partial", then)
    BY <1>4 DEF Publish, Write
  <2>2. pc = "publish"
    BY <1>4 DEF Publish
  <2> QED BY <2>1, <2>2, WriteBacked
<1>5. CASE Complete
  <2>1. PICK count \in ScannedCount : WriteAll("completed", count, report, "ended")
    BY <1>5 DEF Complete
  <2>2. count = job.scanned \/ count = 0 \/ report = "cached"
    BY DEF ScannedCount
  <2>3. pc = "complete"
    BY <1>5 DEF Complete
  <2> QED BY <2>1, <2>2, <2>3, WriteBacked
<1>6. CASE HandleCancel
  <2>1. WriteAll("cancelled", job.scanned, job.response, "ended") /\ pc = "cancelling"
    BY <1>6 DEF HandleCancel, Write, CancelledResponse
  <2> QED BY <2>1, WriteBacked
<1>7. CASE HandleFailure
  <2>1. PICK response \in {"cached", "none"} :
           WriteAll("failed", job.scanned, response, "ended")
    BY <1>7 DEF HandleFailure, Write
  <2>2. pc = "failing"
    BY <1>7 DEF HandleFailure
  <2> QED BY <2>1, <2>2, WriteBacked
<1>8. CASE CountScanned
  <2>1. pc = "count" /\ pc' = "publish" /\ job'.response = job.response
    BY <1>8 DEF CountScanned
  <2>2. CASE job'.scanned = job.scanned
    BY <1>1, <2>1, <2>2
  <2>3. CASE job'.scanned = Scanned
    <3>1. UNCHANGED <<total, taken>>
      BY <1>8 DEF CountScanned
    <3>2. \A s \in 1..total : s <= taken => symbols'[s] \in Outcomes
      BY <2>1, <3>1, BatchesStep DEF BatchesSettled, Heading
    <3>3. 1..job'.scanned \subseteq Settled'
      BY <2>3, <3>1, <3>2 DEF Scanned, Settled
    <3> QED BY <2>1, <3>3
  <2> QED BY <1>8, <2>2, <2>3 DEF CountScanned
<1>9. CASE UNCHANGED <<job.response, job.scanned>> /\ pc' # "writing"
           /\ (job.response = "cached" => pc' = "ended")
  BY <1>1, <1>9
<1>10. CASE Open \/ (LoadUniverse /\ pc' \in {"check", "failing"}) \/ NextBatch \/ CollectBatch
           \/ Finalise \/ (\E s \in 1..Candidates : PickUp(s) \/ GiveUp(s) \/ Answer(s))
           \/ \E stage \in Stages : Save(stage)
  <2>1. pc # "ended" /\ pc' # "writing"
    BY <1>10 DEF Open, LoadUniverse, NextBatch, CollectBatch, Finalise, PickUp, GiveUp, Answer,
       Save, Stages, After
  <2>2. CASE LoadUniverse /\ pc' \in {"check", "failing"}
    <3>1. job' = job
      BY <2>2 DEF LoadUniverse, Write, WriteAll
    <3> QED BY <1>9, <2>1, <3>1
  <2>3. CASE ~(LoadUniverse /\ pc' \in {"check", "failing"})
    <3>1. CASE job' = job
      BY <1>9, <2>1, <3>1
    <3>2. CASE \E status \in Statuses : Note(status)
      <4>1. job'.response = job.response /\ job'.scanned = job.scanned
        BY <3>2 DEF Note
      <4> QED BY <1>9, <2>1, <4>1
    <3>3. job' = job \/ \E status \in Statuses : Note(status)
      <4> HIDE DEF ProgressInv, ScanInv, TypeOK
      <4> QED BY <1>10, <2>3 DEF Open, NextBatch, CollectBatch, Finalise, PickUp, GiveUp,
              Answer, Save, Statuses
    <3> QED BY <3>1, <3>2, <3>3
  <2> QED BY <1>10, <2>2, <2>3
<1>11. CASE ~Advance /\ ~\E s \in 1..Candidates : Answer(s)
  <2>1. UNCHANGED <<pc, half>>
    BY <1>11, OtherStepsLeaveTheBatches
  <2>2. job'.response = job.response /\ job'.scanned = job.scanned
    BY <1>11 DEF Next, Cancel, PollStatus, PollResponse, PollAgain, vars
  <2> QED BY <1>1, <2>1, <2>2
<1> HIDE DEF ProgressInv, ScanInv, TypeOK, CountsBacked, Backed
<1>12. CASE Advance
  <2>1. CASE LoadUniverse
    BY <2>1, <1>3, <1>10
  <2>2. CASE Open \/ NextBatch \/ CollectBatch \/ Finalise
    BY <2>2, <1>10
  <2>3. CASE \E s \in 1..Candidates : PickUp(s) \/ GiveUp(s)
    <3>1. \E s \in 1..Candidates : PickUp(s) \/ GiveUp(s) \/ Answer(s)
      BY <2>3, Zenon
    <3> QED BY <3>1, <1>10
  <2>4. CASE \E stage \in Stages : Save(stage)
    BY <2>4, <1>10
  <2> QED BY <1>12, <2>1, <2>2, <2>3, <2>4, <1>2, <1>4, <1>5, <1>6, <1>7, <1>8 DEF Advance
<1>13. CASE \E s \in 1..Candidates : Answer(s)
  <2>1. \E s \in 1..Candidates : PickUp(s) \/ GiveUp(s) \/ Answer(s)
    BY <1>13, Zenon
  <2> QED BY <2>1, <1>10
<1> QED BY <1>11, <1>12, <1>13

(* The progress shown is backed by outcomes: whatever batches the deadline  *)
(* cuts and whenever the scan is cancelled, the count never runs ahead of   *)
(* the symbols that have one, and a scan that completes without a cut batch *)
(* accounts for every symbol.                                               *)
THEOREM ProgressBacked == Spec => []ProgressIsBacked
<1>1. Init => ProgressInv
  <2> SUFFICES ASSUME Init PROVE ProgressInv
    OBVIOUS
  <2>1. 1..0 = {}
    OBVIOUS
  <2> QED BY <2>1, ScanInitInv
          DEF Init, NoWrite, ProgressInv, BatchesSettled, RestUntouched, LoopEnds, CountsBacked,
              Backed, Heading, Stages
<1>2. ProgressInv /\ [Next]_vars => ProgressInv'
  BY ScanStepInv, BatchesStep, UntouchedStep, LoopEndsStep, CountsStep DEF ProgressInv
<1>3. ProgressInv => ProgressIsBacked
  <2> SUFFICES ASSUME ProgressInv PROVE ProgressIsBacked
    OBVIOUS
  <2>1. ASSUME job.response # "cached" PROVE job.scanned <= Cardinality(Settled)
    <3>1. job.scanned \in Nat /\ 1..job.scanned \subseteq Settled
      BY <2>1, ScanAssumption DEF ProgressInv, ScanInv, TypeOK, CountsBacked, Backed
    <3>2. IsFiniteSet(1..total) /\ Settled \subseteq 1..total
      BY FS_Interval DEF ProgressInv, ScanInv, TypeOK, Settled
    <3>3. IsFiniteSet(Settled)
      BY <3>2, FS_Subset
    <3>4. Cardinality(1..job.scanned) = job.scanned
      BY <3>1, FS_Interval
    <3>5. Cardinality(1..job.scanned) <= Cardinality(Settled)
      BY <3>1, <3>3, FS_Subset
    <3> QED BY <3>4, <3>5
  <2> QED BY <2>1 DEF ProgressIsBacked, ProgressInv, LoopEnds
<1> QED BY <1>1, <1>2, <1>3, PTL DEF Spec


-----------------------------------------------------------------------------
(* The scans of the two markets implement ScanJob.                            *)

LEMMA MarketStepIsScanStep == ASSUME [MarketNext]_marketVars PROVE [Next]_vars
<1>1. CASE ScanAdvances
  BY <1>1 DEF ScanAdvances, ReportIsShown, ScanOpens, UniverseLoads, BatchStarts,
     SymbolIsPickedUp, SymbolFails, BatchIsCollected, ScannedIsCounted, ReportIsPublished,
     ReportIsFinalised, StageIsSaved, ScanCompletes, ScanIsCancelled, ScanFails,
     Next, Advance
<1>2. CASE \E s \in 1..Candidates : SignalIsRead(s)
  BY <1>2 DEF SignalIsRead, Next
<1>3. CASE ApiActs
  BY <1>3 DEF ApiActs, Next
<1>4. CASE UNCHANGED marketVars
  BY <1>4 DEF marketVars
<1> QED BY <1>1, <1>2, <1>3, <1>4 DEF MarketNext

(* Whatever the market, the signals, the filters and the fallbacks, a scan is *)
(* one of ScanJob.                                                            *)
THEOREM MarketScanImplementsScanJob == MarketSpec => Spec
<1>1. MarketInit => Init
  BY DEF MarketInit
<1>2. [MarketNext]_marketVars => [Next]_vars
  BY MarketStepIsScanStep
<1> QED BY <1>1, <1>2, PTL DEF MarketSpec, Spec

(* A cancelled scan of either market stays cancelled.                         *)
THEOREM MarketCancelIsFinal == MarketSpec => []CancelledForGood
  BY MarketScanImplementsScanJob, CancelIsFinal, PTL

(* A cancellation keeps the results that either market's scan has shown.      *)
THEOREM MarketCancelKeepsShown == MarketSpec => CancelKeepsResults
  BY MarketScanImplementsScanJob, CancelKeepsShown, PTL

(* The progress that either market's scan shows is backed by outcomes.        *)
THEOREM MarketProgressBacked == MarketSpec => []ProgressIsBacked
  BY MarketScanImplementsScanJob, ProgressBacked, PTL

(* The types of the job and of the scan's own state hold of both markets.     *)
THEOREM MarketScanTypes == MarketSpec => []TypeOK
  BY MarketScanImplementsScanJob, ScanTypes, PTL

-----------------------------------------------------------------------------
(* A report that says "ready".                                                *)

LEMMA RankedState ==
    ASSUME NEW signals, NEW failed
    PROVE  /\ "state" \in DOMAIN Ranked(signals, failed)
           /\ Ranked(signals, failed).state = "ready" => failed = {}
<1>1. CASE market = "futures"
  BY <1>1 DEF Ranked, FuturesReport
<1>2. CASE market # "futures"
  BY <1>2 DEF Ranked, SpotReport
<1> QED BY <1>1, <1>2

(* A report made is only ready with nothing failed, of a complete scan of a   *)
(* live universe.                                                             *)
LEMMA ReportState ==
    ASSUME NEW partial \in BOOLEAN
    PROVE  /\ "state" \in DOMAIN Report(partial)
           /\ Report(partial).state = "ready" =>
                ~partial /\ With("failed") = {} /\ source \notin {"cache", "fallback"}
<1> DEFINE ranked == Ranked({found[s] : s \in With("signal")}, With("failed"))
           state == StateOf(ranked.state, partial)
           made == [ranked EXCEPT !.state = state, !.scanned = job.scanned]
<1>1. "state" \in DOMAIN ranked /\ (ranked.state = "ready" => With("failed") = {})
  BY RankedState
<1>2. Report(partial) = made
  BY DEF Report
<1>3. DOMAIN made = DOMAIN ranked
  OBVIOUS
<1>4. made.state = state
  <2> HIDE DEF ranked, state
  <2> QED BY <1>1
<1>5. state = "ready" =>
        ~partial /\ ranked.state = "ready" /\ source \notin {"cache", "fallback"}
  BY DEF StateOf
<1> QED BY <1>1, <1>2, <1>3, <1>4, <1>5

(* Where the universe is known to be usable, now or after the update.         *)
Working == {"check", "batch", "count", "publish", "final"}
SourceKnown == (\E where \in Working : Heading(where)) =>
    source \in {"live", "cache", "fallback"}

(* What a report that is ready says, and that nothing changes it any more.    *)
Whole ==
    /\ Settled = 1..total /\ With("failed") = {} /\ source = "live"
    /\ \A where \in {"start", "universe", "batch", "count", "publish"} : ~Heading(where)
    /\ Heading("check") => taken >= total

ReportsHaveState ==
    /\ "state" \in DOMAIN draft /\ "state" \in DOMAIN shown
    /\ past = Unknown \/ "state" \in DOMAIN past

ReadyInv ==
    /\ ScanInv
    /\ SourceKnown /\ BatchesSettled /\ RestUntouched /\ LoopEnds
    /\ ReportsHaveState
    /\ draft.state = "ready" => Whole
    /\ shown.state = "ready" => Whole

(* Nothing is ready, cut or batched before the job starts.                    *)
LEMMA ReadyInit ==
    ASSUME MarketInit
    PROVE  /\ SourceKnown /\ BatchesSettled /\ RestUntouched /\ LoopEnds
           /\ ReportsHaveState /\ draft.state # "ready" /\ shown.state # "ready"
  BY PastRunsAssumption DEF MarketInit, Init, NoWrite, SourceKnown, BatchesSettled,
     RestUntouched, LoopEnds, ReportsHaveState, Working, Heading, Nothing, Stages
-----------------------------------------------------------------------------
(* The steps of the thread, as far as the scan's progress is concerned.       *)

LEMMA OtherStepsLeaveTheData ==
    ASSUME [MarketNext]_marketVars, ~ScanAdvances
    PROVE  /\ UNCHANGED <<pc, half, total, taken, source, draft, shown, past>>
           /\ UNCHANGED symbols \/ pc = "batch"
<1>1. CASE \E s \in 1..Candidates : SignalIsRead(s)
  BY <1>1 DEF SignalIsRead, Answer
<1>2. CASE ApiActs \/ UNCHANGED marketVars
  BY <1>2 DEF ApiActs, Cancel, PollStatus, PollResponse, PollAgain, marketVars, dataVars,
     vars, worker
<1> QED BY <1>1, <1>2 DEF MarketNext

(* Where the universe came from is known while the thread works on it.        *)
LEMMA SourceStep ==
    ASSUME ScanInv, SourceKnown, [MarketNext]_marketVars
    PROVE  SourceKnown'
<1> USE DEF SourceKnown, Working
<1>1. CASE ReportIsShown
  <2>1. pc = "writing" /\ pc' = half.then /\ pc' # "writing" /\ UNCHANGED source
    BY <1>1 DEF ReportIsShown, FinishWrite, ScanInv, UpdateIsLive
  <2> QED BY <2>1 DEF Heading
<1>2. CASE UniverseLoads
  <2>1. CASE pc' = "check"
    BY <1>2, <2>1 DEF UniverseLoads, Sources
  <2>2. CASE pc' # "check"
    BY <1>2, <2>2 DEF UniverseLoads, LoadUniverse, Write, WriteAll, Heading
  <2> QED BY <2>1, <2>2
<1>3. CASE ScanOpens \/ ScanCompletes \/ ScanIsCancelled \/ ScanFails
  <2>1. \A where \in Working : ~Heading(where)'
    BY <1>3 DEF ScanOpens, Open, ScanCompletes, Complete, ScanIsCancelled, HandleCancel,
       ScanFails, HandleFailure, Write, WriteAll, Heading
  <2> QED BY <2>1
<1>4. CASE BatchStarts \/ BatchIsCollected \/ ScannedIsCounted \/ ReportIsPublished
          \/ ReportIsFinalised
          \/ \E s \in 1..Candidates : SymbolIsPickedUp(s) \/ SymbolFails(s)
  <2>1. pc \in Working /\ UNCHANGED source
    BY <1>4 DEF BatchStarts, NextBatch, BatchIsCollected, CollectBatch, ScannedIsCounted,
       CountScanned, ReportIsPublished, Publish, ReportIsFinalised, Finalise, SymbolIsPickedUp,
       PickUp, SymbolFails, GiveUp, dataVars
  <2> QED BY <2>1 DEF Heading
<1>5. CASE \E stage \in Stages : StageIsSaved(stage)
  <2>1. \A where \in Working : ~Heading(where)'
    BY <1>5 DEF StageIsSaved, Save, Stages, After, Heading
  <2> QED BY <2>1
<1>6. CASE ~ScanAdvances
  <2>1. UNCHANGED <<pc, half, source>>
    BY <1>6, OtherStepsLeaveTheData
  <2> QED BY <2>1 DEF Heading
<1> QED BY <1>1, <1>2, <1>3, <1>4, <1>5, <1>6 DEF ScanAdvances

(* Once a report is ready nothing is scanned any more.                        *)
LEMMA WholeStays ==
    ASSUME ScanInv, Whole, [MarketNext]_marketVars
    PROVE  Whole'
<1> USE DEF Whole, ScanInv, TypeOK
<1>1. CASE ReportIsShown
  <2>1. /\ pc = "writing" /\ pc' = half.then /\ pc' # "writing"
        /\ UNCHANGED <<source, total, taken, symbols>>
    BY <1>1 DEF ReportIsShown, FinishWrite, UpdateIsLive
  <2> QED BY <2>1 DEF Heading, Settled, With
<1>2. CASE BatchStarts
  <2>1. pc' = "final" /\ UNCHANGED <<source, total, taken, symbols>>
    BY <1>2 DEF BatchStarts, NextBatch, Heading, dataVars
  <2> QED BY <2>1 DEF Heading, Settled, With
<1>3. CASE ReportIsFinalised \/ ScanCompletes \/ ScanIsCancelled \/ ScanFails
          \/ \E stage \in Stages : StageIsSaved(stage)
  <2>1. /\ UNCHANGED <<source, total, taken, symbols>>
        /\ \A where \in {"start", "universe", "batch", "count", "publish", "check"} :
             ~Heading(where)'
    BY <1>3 DEF ReportIsFinalised, Finalise, ScanCompletes, Complete, ScanIsCancelled,
       HandleCancel, ScanFails, HandleFailure, StageIsSaved, Save, Stages, After, Write,
       WriteAll, Heading, dataVars
  <2> QED BY <2>1 DEF Settled, With
<1>4. CASE ScanOpens \/ UniverseLoads \/ BatchIsCollected \/ ScannedIsCounted
          \/ ReportIsPublished \/ \E s \in 1..Candidates : SymbolIsPickedUp(s) \/ SymbolFails(s)
  BY <1>4 DEF ScanOpens, Open, UniverseLoads, LoadUniverse, BatchIsCollected, CollectBatch,
     ScannedIsCounted, CountScanned, ReportIsPublished, Publish, SymbolIsPickedUp, PickUp,
     SymbolFails, GiveUp, Heading
<1>5. CASE ~ScanAdvances
  <2>1. UNCHANGED <<pc, half, total, taken, source, symbols>>
    BY <1>5, OtherStepsLeaveTheData DEF Heading
  <2> QED BY <2>1 DEF Heading, Settled, With
<1> QED BY <1>1, <1>2, <1>3, <1>4, <1>5 DEF ScanAdvances

(* What a degraded report is.                                                 *)
LEMMA DegradedState ==
    ASSUME ReportsHaveState PROVE "state" \in DOMAIN Degraded /\ Degraded.state = "degraded"
  BY DEF ReportsHaveState, Degraded, Nothing

(* Only a draft is shown.                                                     *)
LEMMA ShownStep == ASSUME [MarketNext]_marketVars PROVE shown' \in {shown, draft}
<1>1. CASE ScanAdvances
  BY <1>1 DEF ScanAdvances, ReportIsShown, ScanOpens, UniverseLoads, BatchStarts,
     SymbolIsPickedUp, SymbolFails, BatchIsCollected, ScannedIsCounted, ReportIsPublished,
     ReportIsFinalised, StageIsSaved, ScanCompletes, ScanIsCancelled, ScanFails, dataVars
<1> QED BY <1>1, OtherStepsLeaveTheData

(* A report becomes ready only when it is complete.                           *)
LEMMA DraftStep ==
    ASSUME ReadyInv, [MarketNext]_marketVars
    PROVE  ReportsHaveState' /\ (draft'.state = "ready" => Whole')
<1> USE DEF ReadyInv
<1>1. CASE UNCHANGED <<draft, past>>
  BY <1>1, WholeStays, ShownStep DEF ReportsHaveState
<1>2. CASE \E stage \in Stages : StageIsSaved(stage)
  <2>1. UNCHANGED draft /\ past' \in {draft, past}
    BY <1>2 DEF StageIsSaved
  <2> QED BY <2>1, WholeStays, ShownStep DEF ReportsHaveState
<1>3. CASE UniverseLoads \/ ScanFails
  <2>1. UNCHANGED past /\ draft' \in {draft, Degraded, Nothing}
    BY <1>3 DEF UniverseLoads, ScanFails
  <2> QED BY <2>1, DegradedState, WholeStays, ShownStep DEF ReportsHaveState, Nothing
<1>4. CASE ReportIsPublished
  <2> DEFINE partial == taken < total
  <2>1. draft' = Report(partial) /\ UNCHANGED past
    BY <1>4 DEF ReportIsPublished
  <2>2. /\ "state" \in DOMAIN Report(partial)
        /\ Report(partial).state = "ready" =>
             ~partial /\ With("failed") = {} /\ source \notin {"cache", "fallback"}
    <3>1. partial \in BOOLEAN
      OBVIOUS
    <3> HIDE DEF partial
    <3> QED BY <3>1, ReportState
  <2>3. ASSUME draft'.state = "ready" PROVE Whole'
    <3>1. ~(taken < total) /\ With("failed") = {} /\ source \notin {"cache", "fallback"}
      BY <2>1, <2>2, <2>3
    <3>2. pc = "publish" /\ UNCHANGED <<total, taken, symbols, source>>
      BY <1>4 DEF ReportIsPublished, Publish
    <3>3. source = "live"
      BY <3>1, <3>2 DEF SourceKnown, Working, Heading
    <3>4. Settled = 1..total
      BY <3>1, <3>2 DEF BatchesSettled, Heading, Settled, ScanInv, TypeOK
    <3>5. \A where \in {"start", "universe", "batch", "count", "publish"} : ~Heading(where)'
      BY <1>4 DEF ReportIsPublished, Publish, Write, WriteAll, Heading
    <3> QED BY <3>1, <3>2, <3>3, <3>4, <3>5 DEF Whole, Settled, With, ScanInv, TypeOK
  <2> QED BY <2>1, <2>2, <2>3, ShownStep DEF ReportsHaveState
<1>5. CASE ReportIsFinalised
  <2>1. /\ pc = "final" /\ pc' \in {"cancelling", "complete", "failing", "run"} /\ UNCHANGED past
        /\ UNCHANGED <<total, taken, symbols, source>>
    BY <1>5 DEF ReportIsFinalised, Finalise
  <2>2. CASE pc' \in {"cancelling", "failing"}
    <3>1. draft' = draft
      BY <1>5, <2>2 DEF ReportIsFinalised
    <3> QED BY <2>1, <3>1, WholeStays, ShownStep DEF ReportsHaveState
  <2>3. CASE pc' = "complete"
    <3>1. draft' = Degraded
      BY <1>5, <2>3 DEF ReportIsFinalised
    <3> QED BY <2>1, <3>1, DegradedState, ShownStep DEF ReportsHaveState
  <2>4. CASE pc' = "run"
    <3> DEFINE partial == With("signal") # {} /\ With("failed") # {}
    <3>1. draft' = Report(partial)
      BY <1>5, <2>4 DEF ReportIsFinalised
    <3>2. "state" \in DOMAIN draft'
      BY <3>1, ReportState
    <3>3. ASSUME draft'.state = "ready" PROVE Whole'
      <4>1. With("failed") = {} /\ source \notin {"cache", "fallback"}
        <5>1. partial \in BOOLEAN
          OBVIOUS
        <5> HIDE DEF partial
        <5> QED BY <3>1, <3>3, <5>1, ReportState
      <4>2. source = "live"
        BY <4>1, <2>1 DEF SourceKnown, Working, Heading
      <4>3. Settled = 1..total
        BY <4>1, <2>1 DEF LoopEnds, Heading
      <4> QED BY <2>1, <2>4, <4>1, <4>2, <4>3 DEF Whole, Settled, With, Heading
    <3> QED BY <2>1, <3>2, <3>3, ShownStep DEF ReportsHaveState
  <2> QED BY <2>1, <2>2, <2>3, <2>4
<1>6. CASE ScanIsCancelled
  <2>1. draft' = shown /\ UNCHANGED past
    BY <1>6 DEF ScanIsCancelled
  <2> QED BY <2>1, WholeStays, ShownStep DEF ReportsHaveState
<1>7. CASE ReportIsShown \/ ScanOpens \/ BatchStarts \/ BatchIsCollected
          \/ ScannedIsCounted \/ ScanCompletes
          \/ \E s \in 1..Candidates : SymbolIsPickedUp(s) \/ SymbolFails(s)
  <2>1. UNCHANGED <<draft, past>>
    BY <1>7 DEF ReportIsShown, ScanOpens, BatchStarts, BatchIsCollected,
       ScannedIsCounted, ScanCompletes, SymbolIsPickedUp, SymbolFails, dataVars
  <2> QED BY <1>1, <2>1
<1>8. CASE ~ScanAdvances
  BY <1>1, <1>8, OtherStepsLeaveTheData
<1> QED BY <1>2, <1>3, <1>4, <1>5, <1>6, <1>7, <1>8 DEF ScanAdvances

(* A report that says "ready" is of every symbol of a live universe, with no  *)
(* failure: whatever the deadlines, the failures, the filters and the         *)
(* fallbacks did.                                                             *)
THEOREM ReadyMeansComplete == MarketSpec => []ReadyIsComplete
<1>1. MarketInit => ReadyInv
  <2>1. MarketInit => Init
    BY DEF MarketInit
  <2>2. Init => ScanInv
    BY ScanInitInv
  <2> QED BY <2>1, <2>2, ReadyInit DEF ReadyInv
<1>2. ReadyInv /\ [MarketNext]_marketVars => ReadyInv'
  <2> SUFFICES ASSUME ReadyInv, [MarketNext]_marketVars PROVE ReadyInv'
    OBVIOUS
  <2>1. [Next]_vars
    BY MarketStepIsScanStep
  <2>2. ScanInv' /\ SourceKnown' /\ BatchesSettled' /\ RestUntouched' /\ LoopEnds'
    BY <2>1, ScanStepInv, SourceStep, BatchesStep, UntouchedStep, LoopEndsStep DEF ReadyInv
  <2>3. ReportsHaveState' /\ (draft'.state = "ready" => Whole')
    BY DraftStep
  <2>4. shown'.state = "ready" => Whole'
    BY ShownStep, WholeStays DEF ReadyInv
  <2> QED BY <2>2, <2>3, <2>4 DEF ReadyInv
<1>3. ReadyInv => ReadyIsComplete
  BY DEF ReadyInv, Whole, ReadyIsComplete
<1> QED BY <1>1, <1>2, <1>3, PTL DEF MarketSpec
=============================================================================
