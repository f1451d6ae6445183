---------------------------- MODULE PaperRuntime ----------------------------
(***************************************************************************)
(* app/bot/runtime.py: the life of the paper bot.  Operator requests       *)
(* (start, stop, pause, resume, reset, manual trades), the background task *)
(* fed by the stream manager, the SQLite recovery state and the restarts   *)
(* of the backend.                                                         *)
(*                                                                         *)
(* The event loop runs one coroutine at a time, and requests hold the      *)
(* runtime lock.  Only stop and reset await between their steps: the task  *)
(* they cancel, which ends without trading.  Every other request is one    *)
(* action.  A write whose failure the code swallows is Attempted; one      *)
(* whose failure it lets through cuts the action short.  A crash between   *)
(* two writes of an action leaves the disk as if the later ones had failed.*)
(*                                                                         *)
(* The account is what recovery is about: how many fills it has seen since *)
(* it was opened and which symbols it holds.  PaperBroker has the money.   *)
(***************************************************************************)
EXTENDS Integers, FiniteSets

CONSTANTS
    Symbols,        \* symbols the operator may trade
    None,           \* no symbol, no record on disk
    Times,          \* candle open times, a set of positive integers
    WarmUp,         \* candles needed before a feature snapshot exists
    MaxSessions,    \* bound: sessions started
    MaxFills,       \* bound: fills of one account
    MaxRestarts,    \* bound: restarts of the backend
    StorageFails,   \* may any write to SQLite fail
    ResetMayFail,   \* may clearing tables fail, other writes apart
    CycleFails      \* may a payload or a read inside a cycle raise

ASSUME RuntimeAssumption ==
    /\ Times \subseteq Nat \ {0}
    /\ {WarmUp, MaxSessions, MaxFills, MaxRestarts} \subseteq Nat
    /\ {StorageFails, ResetMayFail, CycleFails} \subseteq BOOLEAN
    /\ None \notin Symbols

VARIABLES
    live,           \* does the task that start created run
    stopping,       \* the request that has cancelled it: "no", "stop" or "reset"
    status,         \* _status
    hasRunner,      \* _runner is not None
    account,        \* the broker inside the runner
    seen,           \* seen[s]: open times in the runner's candle history
    lastProcessed,  \* _last_processed_candle_open_time of the symbol, 0 for none
    shown,          \* shown[s]: the candle in the stream manager's snapshot
    diskRun,        \* runtime_session_state
    diskBroker,     \* paper_broker_state and paper_broker_positions
    diskFills,      \* rows of fills
    rows,           \* paper_session_runs
    sessions,       \* session ids handed out
    restarts,
    handled,        \* history: cycles run per session and candle
    started,        \* history: has the operator started the bot since the boot
    cut             \* history: sessions that were running when the backend died

memory == <<live, stopping, status, hasRunner, account, seen, lastProcessed, shown>>
disk == <<diskRun, diskBroker, diskFills, rows>>
history == <<sessions, restarts, handled, started, cut>>
vars == <<memory, disk, history>>

SessionIds == 1..MaxSessions

NewAccount == [fills |-> 0, open |-> {}]
NoCandle == [open |-> 0, closed |-> FALSE]
Candles == [open : Times, closed : BOOLEAN]

IdleStatus == [state |-> "stopped", symbol |-> None, session |-> 0,
               recovered |-> FALSE, message |-> FALSE]

RunRecord(st) ==
    [state |-> st.state, symbol |-> st.symbol, session |-> st.session]

NoHistory == [s \in Symbols |-> {}]

Init ==
    /\ live = FALSE /\ stopping = "no" /\ status = IdleStatus /\ hasRunner = FALSE
    /\ account = NewAccount /\ seen = NoHistory /\ lastProcessed = 0
    /\ shown = [s \in Symbols |-> NoCandle]
    /\ diskRun = None /\ diskBroker = None /\ diskFills = 0
    /\ rows = [n \in SessionIds |-> "absent"]
    /\ sessions = 0 /\ restarts = 0 /\ started = FALSE /\ cut = {}
    /\ handled = [n \in SessionIds |-> [s \in Symbols |-> [t \in Times |-> 0]]]
-----------------------------------------------------------------------------
(* A write that may fail, leaving what was there.                          *)
Attempt(new, old) == {new} \cup (IF StorageFails THEN {old} ELSE {})

(* _persist_runtime_state and _persist_broker_state swallow failures.      *)
PersistRun(st) == diskRun' \in Attempt(RunRecord(st), diskRun)

(* Mutant: an insert without the update on conflict.                       *)
PersistBrokerOnce(acct) ==
    diskBroker' = IF hasRunner' /\ diskBroker = None THEN acct ELSE diskBroker

PersistBroker(acct) ==
    diskBroker' \in IF hasRunner' THEN Attempt(acct, diskBroker) ELSE {diskBroker}

(* finish_paper_session_run: an UPDATE, nothing when the row is missing.   *)
Finished(n) ==
    [m \in SessionIds |-> IF m = n /\ rows[m] = "open" THEN "ended" ELSE rows[m]]

(* start_paper_session_run: a row without an end.                          *)
Opened(n) == [rows EXCEPT ![n] = "open"]

(* A trade changes one symbol: it opens, adds to or closes a position.     *)
BuyFill(s) == [fills |-> account.fills + 1, open |-> account.open \cup {s}]
SellFill(s) == [fills |-> account.fills + 1, open |-> account.open \ {s}]

(* insert_fill: one row for a fill, none for a cycle without.              *)
WithRow(acct) == diskFills + (acct.fills - account.fills)

CanFill == account.fills < MaxFills

(* What a cycle may do: nothing, enter when flat, exit when holding.       *)
AutoOutcomes(s) ==
    {account} \cup (IF ~CanFill THEN {}
                    ELSE IF s \in account.open THEN {SellFill(s)} ELSE {BuyFill(s)})

ManualOutcomes(s) ==
    {account} \cup (IF CanFill THEN {BuyFill(s)} ELSE {})
              \cup (IF CanFill /\ s \in account.open THEN {SellFill(s)} ELSE {})

-----------------------------------------------------------------------------
(* Mutant: stop does not hold the lock while it waits.                     *)
LockIgnored == TRUE

(* asyncio.Lock: stop holds it until the cancelled task is over.           *)
LockIsFree == stopping = "no"

(* _task is there and not done; stop forgets it before it awaits it.       *)
HasTask == live /\ stopping = "no"

(* start: refused while a task runs.  The runner, with its account and     *)
(* candle history, is kept if there is one.  When the session row cannot   *)
(* be written the request fails before the task is created.                *)
Start(s) ==
    /\ LockIsFree /\ ~HasTask /\ sessions < MaxSessions
    /\ sessions' = sessions + 1
    /\ status' = [state |-> "running", symbol |-> s, session |-> sessions + 1,
                  recovered |-> FALSE, message |-> FALSE]
    /\ hasRunner' = TRUE
    /\ lastProcessed' = 0
    /\ started' = TRUE
    /\ PersistRun(status') /\ PersistBroker(account)
    /\ \/ rows' = Opened(sessions + 1) /\ live' = TRUE
       \/ StorageFails /\ UNCHANGED <<rows, live>>
    /\ UNCHANGED <<stopping, account, seen, shown, diskFills, restarts, handled, cut>>

Stopped == [status EXCEPT !.state = "stopped"]

(* Mutant: the task is forgotten and not cancelled.                        *)
CancelForgotten(request) ==
    /\ LockIsFree /\ HasTask
    /\ status' = Stopped
    /\ UNCHANGED <<live, stopping, hasRunner, account, seen, lastProcessed, shown, disk, history>>

(* stop, by itself or for a reset, cancels the task and awaits its end.    *)
CancelTask(request) ==
    /\ LockIsFree /\ HasTask
    /\ stopping' = request
    /\ UNCHANGED <<live, status, hasRunner, account, seen, lastProcessed, shown, disk, history>>

(* The task's finally block finishes the session and persists.  What it    *)
(* raises comes out of the request.  (A task cancelled before its first    *)
(* step skips the block; stop repeats all of it.)                          *)
TaskIsCancelled ==
    /\ live /\ stopping # "no"
    /\ live' = FALSE
    /\ status' = Stopped
    /\ \/ /\ rows' = Finished(status.session)
          /\ PersistRun(status')
          /\ UNCHANGED stopping
       \/ /\ StorageFails
          /\ stopping' = "no"
          /\ UNCHANGED <<rows, diskRun>>
    /\ UNCHANGED <<hasRunner, account, seen, lastProcessed, shown, diskBroker, diskFills, history>>

(* The rest of stop, or all of it when there is no task.  A reset gets no  *)
(* further if finishing the session raises.                                *)
Stop ==
    /\ ~live /\ stopping' = "no"
    /\ status' = Stopped
    /\ hasRunner' = hasRunner
    /\ PersistRun(status') /\ PersistBroker(account)
    /\ \/ stopping # "reset" /\ rows' = Finished(status.session)
       \/ StorageFails /\ UNCHANGED rows
    /\ UNCHANGED <<live, account, seen, lastProcessed, shown, diskFills, history>>

Pause ==
    /\ LockIsFree /\ HasTask
    /\ status' = [status EXCEPT !.state = "paused"]
    /\ PersistRun(status')
    /\ UNCHANGED <<live, stopping, hasRunner, account, seen, lastProcessed, shown,
                   diskBroker, diskFills, rows, history>>

Resume ==
    /\ LockIsFree /\ HasTask
    /\ status' = [status EXCEPT !.state = "running"]
    /\ PersistRun(status')
    /\ UNCHANGED <<live, stopping, hasRunner, account, seen, lastProcessed, shown,
                   diskBroker, diskFills, rows, history>>

(* Mutant: the tables of the broker state are missing from the list.       *)
ClearAllButBroker ==
    /\ diskRun' = None /\ diskFills' = 0
    /\ rows' = [n \in SessionIds |-> "absent"]
    /\ UNCHANGED diskBroker

(* clear_all: one transaction over every table.                            *)
ClearAll ==
    /\ diskRun' = None /\ diskBroker' = None /\ diskFills' = 0
    /\ rows' = [n \in SessionIds |-> "absent"]

(* The reset endpoint: stop, drop the runner, clear the recovery state,    *)
(* then every table.  The stream manager's snapshots stay.                 *)
DropRunner ==
    /\ hasRunner' = FALSE /\ account' = NewAccount /\ seen' = NoHistory
    /\ lastProcessed' = 0
    /\ UNCHANGED <<live, shown, history>>

Reset ==
    /\ ~live /\ stopping # "stop" /\ stopping' = "no"
    /\ status' = IdleStatus
    /\ DropRunner
    /\ ClearAll

(* A clear that raises after the stop: the recovery state is gone in part, *)
(* or in full with the other tables kept.                                  *)
ResetFails ==
    /\ StorageFails \/ ResetMayFail
    /\ ~live /\ stopping # "stop" /\ stopping' = "no"
    /\ rows' = Finished(status.session)
    /\ DropRunner
    /\ \/ /\ status' = Stopped
          /\ diskRun' \in {None} \cup Attempt(RunRecord(Stopped), diskRun)
          /\ diskBroker' \in IF hasRunner THEN Attempt(account, diskBroker) ELSE {diskBroker}
       \/ /\ status' = IdleStatus
          /\ diskRun' \in Attempt(RunRecord(IdleStatus), None)
          /\ diskBroker' = None
    /\ UNCHANGED diskFills

(* A manual trade needs the runtime's symbol, warm history and a status    *)
(* other than stopped; the task need not be alive.  Writing its rows may   *)
(* raise after the broker has traded.                                      *)
ManualTrade(s) ==
    /\ LockIsFree
    /\ hasRunner /\ status.symbol = s /\ status.state # "stopped"
    /\ Cardinality(seen[s]) >= WarmUp
    /\ account' \in ManualOutcomes(s)
    /\ hasRunner' = hasRunner
    /\ \/ /\ diskFills' = WithRow(account')
          /\ PersistBroker(account')
       \/ /\ StorageFails
          /\ diskFills' \in {diskFills, WithRow(account')}
          /\ UNCHANGED diskBroker
    /\ UNCHANGED <<live, stopping, status, seen, lastProcessed, shown, diskRun, rows, history>>
-----------------------------------------------------------------------------
(* _run's except and finally: the task is gone, the status says error, the *)
(* session is finished and the status persisted, unless finishing raises.  *)
(* earlier: what runtime_session_state may hold when the exception comes.  *)
TaskDies(earlier) ==
    /\ live' = FALSE
    /\ status' = [status EXCEPT !.state = "error"]
    /\ \/ /\ rows' = Finished(status.session)
          /\ \E old \in earlier : diskRun' \in Attempt(RunRecord(status'), old)
       \/ /\ StorageFails
          /\ diskRun' \in earlier
          /\ UNCHANGED rows

(* Mutant: pausing does not stop the cycles.                               *)
DueThoughPaused(candle) == candle.closed /\ candle.open > lastProcessed

(* Mutant: the last candle is due again.                                   *)
DueAgain(candle) ==
    /\ status.state # "paused"
    /\ candle.closed
    /\ candle.open >= lastProcessed

Due(candle) ==
    /\ status.state # "paused"
    /\ candle.closed
    /\ candle.open > lastProcessed

(* process_snapshot and what follows it, all of it.                        *)
CycleCompletes(s, candle) ==
    /\ account' \in AutoOutcomes(s)
    /\ diskFills' = WithRow(account')
    /\ PersistRun(status) /\ PersistBroker(account')
    /\ lastProcessed' = candle.open
    /\ UNCHANGED <<live, status, rows>>

(* An exception before, at or after the fill's row: an insert, or the AI   *)
(* advisory, which reads storage before the broker state is saved.         *)
CycleRaises(s) ==
    /\ StorageFails \/ CycleFails
    /\ account' \in AutoOutcomes(s)
    /\ diskFills' \in IF StorageFails
                      THEN diskFills..WithRow(account')
                      ELSE {WithRow(account')}
    /\ TaskDies(Attempt(RunRecord(status), diskRun))
    /\ UNCHANGED <<diskBroker, lastProcessed>>

(* Mutant: a snapshot without a candle is taken for one.                   *)
HistoryUnguarded(s, candle) ==
    IF \A t \in seen[s] : t <= candle.open THEN seen[s] \cup {candle.open} ELSE seen[s]

(* _upsert_candle: the history grows at its end, an older kline is ignored.*)
History(s, candle) ==
    IF \A t \in seen[s] \cup {0} : t <= candle.open
    THEN seen[s] \cup ({candle.open} \ {0})
    ELSE seen[s]

(* One market event: a kline replaces the candle of the snapshot, a trade  *)
(* or book tick shows the same candle again.                               *)
Deliver(s, candle) ==
    /\ HasTask /\ status.symbol = s
    /\ candle \in Candles \cup {shown[s]}
    /\ shown' = [shown EXCEPT ![s] = candle]
    /\ seen' = [seen EXCEPT ![s] = History(s, candle)]
    /\ hasRunner' = hasRunner
    /\ IF Due(candle)
       THEN /\ CycleCompletes(s, candle) \/ CycleRaises(s)
            /\ handled' = [handled EXCEPT ![status.session][s][candle.open] = @ + 1]
       ELSE /\ PersistRun(status)
            /\ UNCHANGED <<live, status, account, lastProcessed, diskBroker,
                           diskFills, rows, handled>>
    /\ UNCHANGED <<stopping, sessions, restarts, started, cut>>

(* A payload that does not parse ends the task.                            *)
StreamRaises ==
    /\ HasTask /\ CycleFails
    /\ TaskDies({diskRun})
    /\ UNCHANGED <<stopping, hasRunner, account, seen, lastProcessed, shown, diskBroker,
                   diskFills, history>>

(* Mutant: the recovered session comes back as running.                    *)
RestoredAsIs(record) ==
    IF record = None THEN IdleStatus
    ELSE [state |-> record.state, symbol |-> record.symbol,
          session |-> record.session, recovered |-> TRUE, message |-> FALSE]

(* get_paper_broker_state, and the account built from it.                  *)
RecoveredAccount == IF diskBroker = None THEN NewAccount ELSE diskBroker

(* The backend dies, at any moment, and boots: _restore_from_storage.      *)
Restored(record) ==
    IF record = None THEN IdleStatus
    ELSE [state     |-> IF record.state \in {"running", "paused"}
                        THEN "paused" ELSE record.state,
          symbol    |-> record.symbol,
          session   |-> record.session,
          recovered |-> TRUE,
          message   |-> record.state \in {"running", "paused"}]

Restart ==
    /\ restarts < MaxRestarts
    /\ restarts' = restarts + 1
    /\ live' = FALSE /\ stopping' = "no"
    /\ status' = Restored(diskRun)
    /\ hasRunner' = (diskBroker # None)
    /\ account' = RecoveredAccount
    /\ seen' = NoHistory /\ lastProcessed' = 0
    /\ shown' = [s \in Symbols |-> NoCandle]
    /\ diskRun' \in IF diskRun = None THEN {None}
                    ELSE Attempt(RunRecord(status'), diskRun)
    /\ started' = FALSE
    /\ cut' = cut \cup {n \in SessionIds : rows[n] = "open"}
    /\ UNCHANGED <<diskBroker, diskFills, rows, sessions, handled>>

Next ==
    \/ \E s \in Symbols : Start(s) \/ ManualTrade(s)
    \/ \E request \in {"stop", "reset"} : CancelTask(request)
    \/ TaskIsCancelled \/ Stop \/ Reset \/ ResetFails
    \/ Pause \/ Resume
    \/ \E s \in Symbols : \E candle \in Candles \cup {NoCandle} : Deliver(s, candle)
    \/ StreamRaises
    \/ Restart

Spec == Init /\ [][Next]_vars
-----------------------------------------------------------------------------
States == {"stopped", "running", "paused", "error"}
Accounts == [fills : 0..MaxFills, open : SUBSET Symbols]
Sessions == 0..MaxSessions

TypeOK ==
    /\ stopping \in {"no", "stop", "reset"}
    /\ live \in BOOLEAN /\ hasRunner \in BOOLEAN /\ started \in BOOLEAN
    /\ status \in [state : States, symbol : Symbols \cup {None},
                   session : Sessions, recovered : BOOLEAN, message : BOOLEAN]
    /\ account \in Accounts
    /\ seen \in [Symbols -> SUBSET Times]
    /\ lastProcessed \in Times \cup {0}
    /\ shown \in [Symbols -> Candles \cup {NoCandle}]
    /\ diskRun = None \/ diskRun \in [state : States, symbol : Symbols \cup {None},
                                      session : Sessions]
    /\ diskBroker = None \/ diskBroker \in Accounts
    /\ diskFills \in Nat
    /\ rows \in [SessionIds -> {"absent", "open", "ended"}]
    /\ sessions \in Sessions /\ restarts \in 0..MaxRestarts
    /\ cut \subseteq SessionIds

(* Whoever reads the status can trust it about the task: a running task is *)
(* announced as running or paused, under its own symbol and session, and   *)
(* it has a runner to work with.                                           *)
LiveTaskIsAnnounced ==
    live => /\ status.state \in {"running", "paused"}
            /\ status.symbol \in Symbols /\ status.session = sessions
            /\ hasRunner /\ ~status.recovered

(* Restoring a session never trades by itself: a candle is only traded     *)
(* while the status says running and after the operator has started the    *)
(* bot in this life of the backend.                                        *)
TradesOnlyWhenAsked ==
    [][handled' # handled => started /\ status.state = "running"]_vars

(* Reconnects, repeated ticks and klines out of order: within a session    *)
(* candles are traded once each and in increasing order.                   *)
InOrderWithinSession ==
    [][\A n \in SessionIds, s \in Symbols, t \in Times :
          handled'[n][s][t] # handled[n][s][t]
             => \A u \in Times : u >= t => handled[n][s][u] = 0]_vars

(* Without storage failures the status does not claim more than there is:  *)
(* running or paused means a live task, or a session recovered paused.     *)
StatusIsHonest ==
    status.state \in {"running", "paused"} =>
        live \/ (status.state = "paused" /\ status.message)

(* With no write failing, whenever the backend may die it has just saved   *)
(* the status it shows and, unless a cycle raised, the account it holds.   *)
AccountIsSaved == hasRunner /\ status.state # "error" => diskBroker = account
StatusIsSaved == diskRun # None => diskRun = RunRecord(status)
MemoryIsSaved == AccountIsSaved /\ StatusIsSaved

(* The account a restart recovers never holds a fill without its row: the  *)
(* rows are written first.                                                 *)
RowsBeforeAccount == RecoveredAccount.fills <= diskFills

(* Recovery is safe: the account that would be recovered has every fill    *)
(* that has a row.                                                         *)
RecoveredAccountHasEveryFill == diskFills <= RecoveredAccount.fills

(* A session that the backend survived has its end recorded.               *)
SessionsAreFinished ==
    \A n \in SessionIds : rows[n] = "open" =>
        n \in cut \/ (live /\ n = status.session)

(* What the recovery message asks for can be done.                         *)
RecoveredCanResume == status.message /\ status.state = "paused" => ENABLED Resume
=============================================================================
