------------------------- MODULE PaperRuntimeProofs -------------------------
(***************************************************************************)
(* For every set of symbols and candle times, any number of sessions,      *)
(* fills and restarts, and with every write and every cycle free to fail:  *)
(* the task does only what the status announces, and candles trade once    *)
(* each and in order within a session.  With storage that works, the       *)
(* account a restart recovers never holds a fill without its row.          *)
(***************************************************************************)
EXTENDS PaperRuntime, TLAPS

Records == [state : States, symbol : Symbols \cup {None}, session : Sessions]

(* What a trade may leave is an account, and at most one fill more.        *)
LEMMA OutcomeTypes ==
    ASSUME TypeOK, NEW s \in Symbols,
           NEW acct \in AutoOutcomes(s) \cup ManualOutcomes(s)
    PROVE  /\ acct \in Accounts
           /\ acct.fills - account.fills \in 0..1
           /\ WithRow(acct) \in Nat /\ diskFills <= WithRow(acct)
<1>1. account \in Accounts /\ MaxFills \in Nat /\ diskFills \in Nat
  BY RuntimeAssumption DEF TypeOK
<1>2. account.fills \in 0..MaxFills /\ account.open \subseteq Symbols
  BY <1>1 DEF Accounts
<1>3. CASE acct = account
  BY <1>1, <1>2, <1>3 DEF WithRow
<1>4. CASE CanFill /\ (acct = BuyFill(s) \/ acct = SellFill(s))
  <2>1. account.fills + 1 \in 0..MaxFills
    BY <1>1, <1>2, <1>4 DEF CanFill
  <2>2. acct \in Accounts /\ acct.fills = account.fills + 1
    BY <1>2, <1>4, <2>1 DEF BuyFill, SellFill, Accounts
  <2> QED BY <1>1, <1>2, <2>2 DEF WithRow
<1>5. acct = account \/ (CanFill /\ (acct = BuyFill(s) \/ acct = SellFill(s)))
  BY DEF AutoOutcomes, ManualOutcomes
<1> QED BY <1>3, <1>4, <1>5

(* What is saved of a status is a record of the table.                     *)
LEMMA RunRecordType ==
    ASSUME TypeOK
    PROVE  RunRecord(status) \in Records /\ RunRecord(IdleStatus) \in Records
  BY RuntimeAssumption DEF TypeOK, RunRecord, IdleStatus, Records, States, Sessions

-----------------------------------------------------------------------------
(* A live task has been asked for in this life of the backend, under a     *)
(* session of its own.                                                     *)
LiveWasStarted == live => started /\ sessions \in SessionIds

HandledOK == handled \in [SessionIds -> [Symbols -> [Times -> Nat]]]

(* The live session has handled no candle after the last processed one,    *)
(* and the sessions to come have handled none.                             *)
HandledUpToLast ==
    /\ \A n \in SessionIds, s \in Symbols, t \in Times :
          n > sessions => handled[n][s][t] = 0
    /\ live => \A s \in Symbols, t \in Times :
          t > lastProcessed => handled[status.session][s][t] = 0

(* The inductive invariant.                                                *)
RuntimeInv ==
    TypeOK /\ LiveTaskIsAnnounced /\ LiveWasStarted /\ HandledOK /\ HandledUpToLast

(* The backend boots without a task.                                       *)
LEMMA RuntimeInitInv == Init => RuntimeInv
<1> SUFFICES ASSUME Init PROVE RuntimeInv
  OBVIOUS
<1>1. IdleStatus \in [state : States, symbol : Symbols \cup {None},
                      session : Sessions, recovered : BOOLEAN, message : BOOLEAN]
  BY RuntimeAssumption DEF IdleStatus, States, Sessions
<1>2. account \in Accounts /\ rows \in [SessionIds -> {"absent", "open", "ended"}]
  BY RuntimeAssumption DEF Init, NewAccount, Accounts
<1>3. seen \in [Symbols -> SUBSET Times] /\ shown \in [Symbols -> Candles \cup {NoCandle}]
  BY DEF Init, NoHistory
<1>4. /\ live \in BOOLEAN /\ hasRunner \in BOOLEAN /\ started \in BOOLEAN
      /\ stopping \in {"no", "stop", "reset"}
      /\ diskFills \in Nat /\ cut \subseteq SessionIds
      /\ sessions \in Sessions /\ restarts \in 0..MaxRestarts
  <2>1. MaxSessions \in Nat /\ MaxRestarts \in Nat
    BY RuntimeAssumption
  <2>2. diskFills \in Nat /\ sessions \in Sessions /\ restarts \in 0..MaxRestarts
    BY <2>1 DEF Init, Sessions
  <2> QED BY <2>2 DEF Init
<1>5. TypeOK
  BY <1>1, <1>2, <1>3, <1>4 DEF Init, TypeOK
<1> QED BY <1>5 DEF Init, RuntimeInv, LiveTaskIsAnnounced, LiveWasStarted,
                    HandledOK, HandledUpToLast, SessionIds

(* A start announces a task under a session no candle was handled in.      *)
LEMMA StartInv == ASSUME RuntimeInv, NEW s \in Symbols, Start(s) PROVE RuntimeInv'
<1> USE DEF RuntimeInv
<1>1. sessions + 1 \in SessionIds /\ sessions' = sessions + 1 /\ sessions \in Nat
  BY RuntimeAssumption DEF Start, TypeOK, Sessions, SessionIds
<1>2. /\ status' \in [state : States, symbol : Symbols \cup {None},
                      session : Sessions, recovered : BOOLEAN, message : BOOLEAN]
      /\ RunRecord(status') \in Records
  BY <1>1, RuntimeAssumption
     DEF Start, States, Sessions, SessionIds, RunRecord, Records
<1>3. diskRun' = None \/ diskRun' \in Records
  BY <1>2 DEF Start, PersistRun, Attempt, TypeOK, Records
<1>4. diskBroker' = None \/ diskBroker' \in Accounts
  BY DEF Start, PersistBroker, Attempt, TypeOK
<1>5. rows' \in [SessionIds -> {"absent", "open", "ended"}] /\ live' \in BOOLEAN
  BY DEF Start, TypeOK, Opened
<1>6. TypeOK'
  BY <1>1, <1>2, <1>3, <1>4, <1>5 DEF Start, TypeOK, Sessions, SessionIds, Records
<1>7. LiveTaskIsAnnounced' /\ LiveWasStarted' /\ HandledOK'
  BY <1>1 DEF Start, SessionIds, LiveTaskIsAnnounced, LiveWasStarted, HandledOK
<1>8. HandledUpToLast'
  BY <1>1 DEF Start, HandledUpToLast, SessionIds
<1> QED BY <1>6, <1>7, <1>8

(* A request that cancels the task changes nothing else yet.               *)
LEMMA CancelInv ==
    ASSUME RuntimeInv, NEW request \in {"stop", "reset"}, CancelTask(request)
    PROVE  RuntimeInv'
<1>1. /\ stopping' \in {"no", "stop", "reset"}
      /\ UNCHANGED <<live, status, hasRunner, account, seen, lastProcessed, shown>>
      /\ UNCHANGED <<diskRun, diskBroker, diskFills, rows>>
      /\ UNCHANGED <<sessions, restarts, handled, started, cut>>
  BY DEF CancelTask, disk, history
<1> QED BY <1>1 DEF RuntimeInv, TypeOK, LiveTaskIsAnnounced, LiveWasStarted,
                    HandledOK, HandledUpToLast

(* The cancelled task announces itself stopped as it goes.                 *)
LEMMA CancelledInv == ASSUME RuntimeInv, TaskIsCancelled PROVE RuntimeInv'
<1> USE DEF RuntimeInv
<1>1. /\ status' \in [state : States, symbol : Symbols \cup {None},
                      session : Sessions, recovered : BOOLEAN, message : BOOLEAN]
      /\ RunRecord(status') \in Records
  BY DEF TaskIsCancelled, Stopped, TypeOK, States, RunRecord, Records
<1>2. diskRun' = None \/ diskRun' \in Records
  BY <1>1 DEF TaskIsCancelled, PersistRun, Attempt, TypeOK, Records
<1>3. rows' \in [SessionIds -> {"absent", "open", "ended"}]
  BY DEF TaskIsCancelled, Finished, TypeOK
<1>4. /\ stopping' \in {"no", "stop", "reset"} /\ live' = FALSE
      /\ UNCHANGED <<hasRunner, account, seen, lastProcessed, shown, diskBroker, diskFills>>
      /\ UNCHANGED <<sessions, restarts, handled, started, cut>>
  BY DEF TaskIsCancelled, TypeOK, history
<1>5. TypeOK'
  BY <1>1, <1>2, <1>3, <1>4 DEF TypeOK, Records
<1> QED BY <1>4, <1>5 DEF LiveTaskIsAnnounced, LiveWasStarted, HandledOK, HandledUpToLast

(* What stops the task leaves it stopped.                                  *)
LEMMA StopInv == ASSUME RuntimeInv, Stop PROVE RuntimeInv'
<1> USE DEF RuntimeInv
<1>1. /\ status' \in [state : States, symbol : Symbols \cup {None},
                      session : Sessions, recovered : BOOLEAN, message : BOOLEAN]
      /\ RunRecord(status') \in Records
  BY DEF Stop, Stopped, TypeOK, States, RunRecord, Records
<1>2. diskRun' = None \/ diskRun' \in Records
  BY <1>1 DEF Stop, PersistRun, Attempt, TypeOK, Records
<1>3. diskBroker' = None \/ diskBroker' \in Accounts
  BY DEF Stop, PersistBroker, Attempt, TypeOK
<1>4. rows' \in [SessionIds -> {"absent", "open", "ended"}]
  BY DEF Stop, Finished, TypeOK
<1>5. TypeOK'
  BY <1>1, <1>2, <1>3, <1>4 DEF Stop, TypeOK, Records, history
<1> QED BY <1>5 DEF Stop, LiveTaskIsAnnounced, LiveWasStarted, HandledOK,
                    HandledUpToLast, history

(* Pausing and resuming change what is announced, and only of a live task. *)
LEMMA PauseInv == ASSUME RuntimeInv, Pause \/ Resume PROVE RuntimeInv'
<1> USE DEF RuntimeInv
<1>1. /\ status' \in [state : States, symbol : Symbols \cup {None},
                      session : Sessions, recovered : BOOLEAN, message : BOOLEAN]
      /\ RunRecord(status') \in Records
      /\ status'.state \in {"running", "paused"}
      /\ status'.symbol = status.symbol /\ status'.session = status.session
      /\ status'.recovered = status.recovered
  BY DEF Pause, Resume, TypeOK, States, RunRecord, Records
<1>2. diskRun' = None \/ diskRun' \in Records
  BY <1>1 DEF Pause, Resume, PersistRun, Attempt, TypeOK, Records
<1>3. TypeOK'
  BY <1>1, <1>2 DEF Pause, Resume, TypeOK, Records, history
<1>4. LiveTaskIsAnnounced'
  BY <1>1 DEF Pause, Resume, HasTask, LiveTaskIsAnnounced, history
<1> QED BY <1>1, <1>3, <1>4 DEF Pause, Resume, LiveWasStarted, HandledOK,
                    HandledUpToLast, history

(* A reset, completed or not, leaves no task.                              *)
LEMMA ResetInv == ASSUME RuntimeInv, Reset \/ ResetFails PROVE RuntimeInv'
<1> USE DEF RuntimeInv
<1>1. NewAccount \in Accounts /\ NoHistory \in [Symbols -> SUBSET Times]
  BY RuntimeAssumption DEF NewAccount, Accounts, NoHistory
<1>2. /\ IdleStatus \in [state : States, symbol : Symbols \cup {None},
                      session : Sessions, recovered : BOOLEAN, message : BOOLEAN]
      /\ RunRecord(IdleStatus) \in Records
  BY RunRecordType, RuntimeAssumption DEF IdleStatus, States, Sessions
<1>3. /\ Stopped \in [state : States, symbol : Symbols \cup {None},
                      session : Sessions, recovered : BOOLEAN, message : BOOLEAN]
      /\ RunRecord(Stopped) \in Records
  BY DEF Stopped, TypeOK, States, RunRecord, Records
<1>4. rows' \in [SessionIds -> {"absent", "open", "ended"}]
  BY DEF Reset, ResetFails, ClearAll, Finished, TypeOK
<1>5. live' = FALSE /\ DropRunner /\ stopping' = "no"
  BY DEF Reset, ResetFails, DropRunner, TypeOK
<1>6. TypeOK'
  <2>1. CASE Reset
    BY <1>1, <1>2, <1>4, <2>1, RuntimeAssumption
       DEF Reset, DropRunner, ClearAll, TypeOK, history
  <2>2. CASE ResetFails
    <3>1. diskBroker' = None \/ diskBroker' \in Accounts
      BY <2>2 DEF ResetFails, Attempt, TypeOK
    <3>2. diskRun' = None \/ diskRun' \in Records
      BY <1>2, <1>3, <2>2 DEF ResetFails, Attempt, TypeOK, Records
    <3>3. diskFills' = diskFills
          /\ status' \in [state : States, symbol : Symbols \cup {None},
                      session : Sessions, recovered : BOOLEAN, message : BOOLEAN]
      BY <1>2, <1>3, <2>2 DEF ResetFails
    <3> QED BY <1>1, <1>4, <1>5, <3>1, <3>2, <3>3
            DEF DropRunner, TypeOK, Records, history
  <2> QED BY <2>1, <2>2
<1> QED BY <1>5, <1>6 DEF DropRunner, LiveTaskIsAnnounced, LiveWasStarted,
                    HandledOK, HandledUpToLast, history

(* A manual trade touches the account and its rows.                        *)
LEMMA ManualInv == ASSUME RuntimeInv, NEW s \in Symbols, ManualTrade(s) PROVE RuntimeInv'
<1> USE DEF RuntimeInv
<1>1. account' \in ManualOutcomes(s)
  BY DEF ManualTrade
<1>2. account' \in Accounts /\ WithRow(account') \in Nat
  BY <1>1, OutcomeTypes
<1>3. diskFills' \in Nat
  BY <1>2 DEF ManualTrade, TypeOK
<1>4. diskBroker' = None \/ diskBroker' \in Accounts
  BY <1>2 DEF ManualTrade, PersistBroker, Attempt, TypeOK
<1>5. TypeOK'
  BY <1>2, <1>3, <1>4 DEF ManualTrade, TypeOK, history
<1> QED BY <1>5 DEF ManualTrade, LiveTaskIsAnnounced, LiveWasStarted, HandledOK,
                    HandledUpToLast, history

(* A dying task leaves the status in error and the rows it could write.    *)
LEMMA TaskDiesTypes ==
    ASSUME RuntimeInv, NEW earlier, TaskDies(earlier),
           \A old \in earlier : old = None \/ old \in Records
    PROVE  /\ live' = FALSE
           /\ status' \in [state : States, symbol : Symbols \cup {None},
                           session : Sessions, recovered : BOOLEAN, message : BOOLEAN]
           /\ rows' \in [SessionIds -> {"absent", "open", "ended"}]
           /\ diskRun' = None \/ diskRun' \in Records
<1> USE DEF RuntimeInv
<1>1. live' = FALSE /\ status' = [status EXCEPT !.state = "error"]
  BY DEF TaskDies
<1>2. /\ status' \in [state : States, symbol : Symbols \cup {None},
                      session : Sessions, recovered : BOOLEAN, message : BOOLEAN]
      /\ RunRecord(status') \in Records
  BY <1>1 DEF TypeOK, States, RunRecord, Records
<1>3. rows' \in [SessionIds -> {"absent", "open", "ended"}]
  BY DEF TaskDies, Finished, TypeOK
<1>4. diskRun' = None \/ diskRun' \in Records
  BY <1>2 DEF TaskDies, Attempt
<1> QED BY <1>1, <1>2, <1>3, <1>4

(* A payload that does not parse.                                          *)
LEMMA StreamRaisesInv == ASSUME RuntimeInv, StreamRaises PROVE RuntimeInv'
<1> USE DEF RuntimeInv
<1>1. TaskDies({diskRun})
  BY DEF StreamRaises
<1>2. /\ live' = FALSE
      /\ status' \in [state : States, symbol : Symbols \cup {None},
                      session : Sessions, recovered : BOOLEAN, message : BOOLEAN]
      /\ rows' \in [SessionIds -> {"absent", "open", "ended"}]
      /\ diskRun' = None \/ diskRun' \in Records
  BY <1>1, TaskDiesTypes DEF TypeOK, Records
<1>3. TypeOK'
  BY <1>2 DEF StreamRaises, TypeOK, Records, history
<1> QED BY <1>2, <1>3 DEF StreamRaises, LiveTaskIsAnnounced, LiveWasStarted,
                    HandledOK, HandledUpToLast, history

(* A kline older than the history is ignored, an empty snapshot as well.   *)
LEMMA HistoryType ==
    ASSUME TypeOK, NEW s \in Symbols, NEW candle \in Candles \cup {NoCandle}
    PROVE  /\ candle.open \in Times \cup {0}
           /\ History(s, candle) \in SUBSET Times
  BY DEF TypeOK, History, Candles, NoCandle

(* A candle that is due is later than the last one, so this session has    *)
(* not handled it, and handling it makes it the last one.                  *)
LEMMA DueIsNew ==
    ASSUME RuntimeInv, live, NEW s \in Symbols,
           NEW candle \in Candles \cup {NoCandle}, Due(candle)
    PROVE  /\ candle.open \in Times /\ status.session \in SessionIds
           /\ \A t \in Times : t >= candle.open => handled[status.session][s][t] = 0
<1>1. candle \in Candles /\ candle.open \in Times
  BY DEF Due, Candles, NoCandle
<1>2. lastProcessed \in Int /\ Times \subseteq Int
  BY RuntimeAssumption DEF RuntimeInv, TypeOK
<1>3. \A t \in Times : t >= candle.open => t > lastProcessed
  <2>1. candle.open > lastProcessed /\ candle.open \in Int
    BY <1>1, <1>2 DEF Due
  <2> QED BY <1>2, <2>1
<1>4. status.session \in SessionIds
  BY DEF RuntimeInv, LiveTaskIsAnnounced, LiveWasStarted
<1> QED BY <1>1, <1>3, <1>4 DEF RuntimeInv, HandledUpToLast
(* The types after a candle was offered to the strategy.                   *)
LEMMA CycleTypes ==
    ASSUME RuntimeInv, NEW s \in Symbols, NEW candle \in Candles, hasRunner' = hasRunner,
           CycleCompletes(s, candle) \/ CycleRaises(s)
    PROVE  /\ live' \in BOOLEAN /\ account' \in Accounts /\ diskFills' \in Nat
           /\ status' \in [state : States, symbol : Symbols \cup {None},
                           session : Sessions, recovered : BOOLEAN, message : BOOLEAN]
           /\ lastProcessed' \in Times \cup {0}
           /\ diskRun' = None \/ diskRun' \in Records
           /\ diskBroker' = None \/ diskBroker' \in Accounts
           /\ rows' \in [SessionIds -> {"absent", "open", "ended"}]
<1> USE DEF RuntimeInv
<1>1. account' \in AutoOutcomes(s)
  BY DEF CycleCompletes, CycleRaises
<1>2. /\ account' \in Accounts
      /\ WithRow(account') \in Nat /\ diskFills <= WithRow(account') /\ diskFills \in Nat
  BY <1>1, OutcomeTypes DEF TypeOK
<1>3. RunRecord(status) \in Records
  BY RunRecordType
<1>4. \A old \in Attempt(RunRecord(status), diskRun) : old = None \/ old \in Records
  BY <1>3 DEF Attempt, TypeOK, Records
<1>5. CASE CycleCompletes(s, candle)
  <2>1. diskRun' = None \/ diskRun' \in Records
    BY <1>4, <1>5 DEF CycleCompletes, PersistRun
  <2>2. diskBroker' = None \/ diskBroker' \in Accounts
    BY <1>2, <1>5 DEF CycleCompletes, PersistBroker, Attempt, TypeOK
  <2>3. lastProcessed' \in Times
    BY <1>5 DEF CycleCompletes, Candles
  <2> QED BY <1>2, <1>5, <2>1, <2>2, <2>3 DEF CycleCompletes, TypeOK
<1>6. CASE CycleRaises(s)
  <2>1. TaskDies(Attempt(RunRecord(status), diskRun))
    BY <1>6 DEF CycleRaises
  <2>2. diskFills' \in Nat
    BY <1>2, <1>6 DEF CycleRaises
  <2> QED BY <1>2, <1>4, <1>6, <2>1, <2>2, TaskDiesTypes DEF CycleRaises, TypeOK
<1> QED BY <1>5, <1>6

(* After a cycle the task is as announced or gone, and the last candle is  *)
(* the one it handled.                                                     *)
LEMMA CycleTask ==
    ASSUME NEW s, NEW candle, CycleCompletes(s, candle) \/ CycleRaises(s)
    PROVE  live' = FALSE \/ (live' = live /\ status' = status
                             /\ lastProcessed' = candle.open)
  BY DEF CycleCompletes, CycleRaises, TaskDies

(* Handling a candle counts it, in its session and nowhere else.           *)
LEMMA HandledOnce ==
    ASSUME HandledOK, NEW n \in SessionIds, NEW s \in Symbols, NEW t \in Times,
           handled' = [handled EXCEPT ![n][s][t] = @ + 1]
    PROVE  /\ HandledOK'
           /\ \A m \in SessionIds, r \in Symbols, u \in Times :
                 <<m, r, u>> # <<n, s, t>> => handled'[m][r][u] = handled[m][r][u]
  BY DEF HandledOK

(* A market event is traded at most once and in order.                     *)
LEMMA DeliverInv ==
    ASSUME RuntimeInv, NEW s \in Symbols, NEW candle \in Candles \cup {NoCandle},
           Deliver(s, candle)
    PROVE  RuntimeInv'
<1> USE DEF RuntimeInv
<1>1. /\ live /\ hasRunner' = hasRunner /\ status.symbol = s
      /\ UNCHANGED <<stopping, sessions, restarts, started, cut>>
  BY DEF Deliver, HasTask
<1>2. /\ seen' \in [Symbols -> SUBSET Times]
      /\ shown' \in [Symbols -> Candles \cup {NoCandle}]
  BY HistoryType DEF Deliver, TypeOK
<1>3. CASE ~Due(candle)
  <2>1. PersistRun(status) /\ UNCHANGED <<live, status, account, lastProcessed,
                                         diskBroker, diskFills, rows, handled>>
    BY <1>3 DEF Deliver
  <2>2. diskRun' = None \/ diskRun' \in Records
    BY <2>1, RunRecordType DEF PersistRun, Attempt, TypeOK, Records
  <2>3. TypeOK'
    BY <1>1, <1>2, <2>1, <2>2 DEF TypeOK, Records
  <2> QED BY <1>1, <2>1, <2>3
          DEF LiveTaskIsAnnounced, LiveWasStarted, HandledOK, HandledUpToLast
<1>4. CASE Due(candle)
  <2>1. /\ CycleCompletes(s, candle) \/ CycleRaises(s)
        /\ handled' = [handled EXCEPT ![status.session][s][candle.open] = @ + 1]
    BY <1>4 DEF Deliver
  <2>2. /\ candle \in Candles /\ candle.open \in Times
        /\ status.session \in SessionIds /\ status.session = sessions
    BY <1>1, <1>4, DueIsNew DEF Due, NoCandle, LiveTaskIsAnnounced
  <2>3. TypeOK'
    BY <1>1, <1>2, <2>1, <2>2, CycleTypes DEF TypeOK, Records
  <2>4. live' = FALSE \/ (live' = live /\ status' = status
                          /\ lastProcessed' = candle.open)
    BY <2>1, CycleTask
  <2>5. LiveTaskIsAnnounced' /\ LiveWasStarted'
    BY <1>1, <2>4 DEF LiveTaskIsAnnounced, LiveWasStarted
  <2>6. /\ HandledOK'
        /\ \A m \in SessionIds, r \in Symbols, u \in Times :
              <<m, r, u>> # <<status.session, s, candle.open>>
                 => handled'[m][r][u] = handled[m][r][u]
    BY <2>1, <2>2, HandledOnce
  <2>7. \A m \in SessionIds, r \in Symbols, u \in Times :
           m > sessions => handled'[m][r][u] = 0
    BY <2>2, <2>6, RuntimeAssumption DEF HandledUpToLast, SessionIds
  <2>8. ASSUME live', NEW r \in Symbols, NEW u \in Times, u > lastProcessed'
        PROVE  handled'[status'.session][r][u] = 0
    <3>1. status' = status /\ u > candle.open /\ live
      BY <1>1, <2>4, <2>8
    <3>2. candle.open > lastProcessed
      BY <1>4 DEF Due
    <3>3. u > lastProcessed /\ u # candle.open
      <4>1. Times \cup {0} \subseteq Int /\ lastProcessed \in Int
        BY RuntimeAssumption DEF TypeOK
      <4> QED BY <2>2, <3>1, <3>2, <4>1
    <3>4. handled[status.session][r][u] = 0
      BY <3>1, <3>3 DEF HandledUpToLast
    <3> QED BY <2>2, <2>6, <3>1, <3>3, <3>4
  <2>9. HandledUpToLast'
    BY <1>1, <2>7, <2>8 DEF HandledUpToLast
  <2> QED BY <2>3, <2>5, <2>6, <2>9
<1> QED BY <1>3, <1>4

(* A boot comes back without a task, from what the disk holds.             *)
LEMMA RestartInv == ASSUME RuntimeInv, Restart PROVE RuntimeInv'
<1> USE DEF RuntimeInv
<1>1. /\ status' \in [state : States, symbol : Symbols \cup {None},
                      session : Sessions, recovered : BOOLEAN, message : BOOLEAN]
      /\ RunRecord(status') \in Records
  <2>1. CASE diskRun = None
    BY <2>1, RunRecordType, RuntimeAssumption
       DEF Restart, Restored, IdleStatus, States, Sessions
  <2>2. CASE diskRun # None
    <3>1. diskRun \in Records
      BY <2>2 DEF TypeOK, Records
    <3> QED BY <2>2, <3>1 DEF Restart, Restored, Records, States, RunRecord
  <2> QED BY <2>1, <2>2
<1>2. diskRun' = None \/ diskRun' \in Records
  BY <1>1 DEF Restart, Attempt, TypeOK, Records
<1>3. account' \in Accounts
  BY RuntimeAssumption DEF Restart, RecoveredAccount, NewAccount, Accounts, TypeOK
<1>4. /\ seen' \in [Symbols -> SUBSET Times]
      /\ shown' \in [Symbols -> Candles \cup {NoCandle}]
      /\ cut' \subseteq SessionIds
  BY DEF Restart, NoHistory, TypeOK
<1>5. restarts' \in 0..MaxRestarts
  BY RuntimeAssumption DEF Restart, TypeOK
<1>6. TypeOK'
  BY <1>1, <1>2, <1>3, <1>4, <1>5 DEF Restart, TypeOK, Records
<1> QED BY <1>6 DEF Restart, LiveTaskIsAnnounced, LiveWasStarted, HandledOK,
                    HandledUpToLast

(* Nothing happens.                                                        *)
LEMMA StutterInv == ASSUME RuntimeInv, UNCHANGED vars PROVE RuntimeInv'
<1>1. UNCHANGED <<live, stopping, status, hasRunner, account, seen, lastProcessed, shown>>
      /\ UNCHANGED <<diskRun, diskBroker, diskFills, rows>>
      /\ UNCHANGED <<sessions, restarts, handled, started, cut>>
  BY DEF vars, memory, disk, history
<1> QED BY <1>1 DEF RuntimeInv, TypeOK, LiveTaskIsAnnounced, LiveWasStarted,
                    HandledOK, HandledUpToLast

(* Every step keeps the invariant.                                         *)
LEMMA RuntimeStepInv == ASSUME RuntimeInv, [Next]_vars PROVE RuntimeInv'
<1>1. ASSUME NEW s \in Symbols, Start(s) PROVE RuntimeInv'
  BY <1>1, StartInv
<1>2. ASSUME NEW s \in Symbols, ManualTrade(s) PROVE RuntimeInv'
  BY <1>2, ManualInv
<1>3. ASSUME NEW s \in Symbols, NEW candle \in Candles \cup {NoCandle}, Deliver(s, candle)
      PROVE  RuntimeInv'
  BY <1>3, DeliverInv
<1>4. CASE Stop
  BY <1>4, StopInv
<1>5. CASE Pause \/ Resume
  BY <1>5, PauseInv
<1>6. CASE Reset \/ ResetFails
  BY <1>6, ResetInv
<1>7. CASE StreamRaises
  BY <1>7, StreamRaisesInv
<1>8. CASE Restart
  BY <1>8, RestartInv
<1>9. CASE UNCHANGED vars
  BY <1>9, StutterInv
<1>10. ASSUME NEW request \in {"stop", "reset"}, CancelTask(request) PROVE RuntimeInv'
  BY <1>10, CancelInv
<1>11. CASE TaskIsCancelled
  BY <1>11, CancelledInv
<1> QED BY <1>1, <1>2, <1>3, <1>4, <1>5, <1>6, <1>7, <1>8, <1>9, <1>10, <1>11 DEF Next
-----------------------------------------------------------------------------
(* RuntimeInv holds in every reachable state.                              *)
THEOREM RuntimeInvariant == Spec => []RuntimeInv
<1>1. Init => RuntimeInv
  BY RuntimeInitInv
<1>2. RuntimeInv /\ [Next]_vars => RuntimeInv'
  BY RuntimeStepInv
<1> QED BY <1>1, <1>2, PTL DEF Spec

(* The runtime's variables keep their types, whatever fails.               *)
THEOREM RuntimeTypes == Spec => []TypeOK
<1>1. RuntimeInv => TypeOK
  BY DEF RuntimeInv
<1> QED BY <1>1, RuntimeInvariant, PTL

(* A running task is announced as running or paused, under its own symbol  *)
(* and session: start, pause, resume, the steps of stop and reset, a crash,*)
(* a failing cycle or write never leave a task that trades behind a status that      *)
(* says the bot is stopped, in error or merely recovered.                  *)
THEOREM AnnouncedTask == Spec => []LiveTaskIsAnnounced
<1>1. RuntimeInv => LiveTaskIsAnnounced
  BY DEF RuntimeInv
<1> QED BY <1>1, RuntimeInvariant, PTL

(* A step that handles a candle is a delivery to a live task.              *)
LEMMA HandlingStep ==
    ASSUME [Next]_vars, handled' # handled
    PROVE  \E s \in Symbols : \E candle \in Candles \cup {NoCandle} :
              Deliver(s, candle) /\ Due(candle)
<1>1. ASSUME NEW s \in Symbols, Start(s) \/ ManualTrade(s) PROVE FALSE
  BY <1>1 DEF Start, ManualTrade, history
<1>2. /\ ~(Stop \/ Pause \/ Resume \/ Reset \/ ResetFails \/ StreamRaises \/ Restart)
      /\ ~TaskIsCancelled /\ ~\E request \in {"stop", "reset"} : CancelTask(request)
  BY DEF Stop, Pause, Resume, Reset, ResetFails, DropRunner, StreamRaises, Restart,
     TaskIsCancelled, CancelTask, history
<1>3. ~UNCHANGED vars
  BY DEF vars, history
<1>4. \E s \in Symbols : \E candle \in Candles \cup {NoCandle} : Deliver(s, candle)
  BY <1>1, <1>2, <1>3 DEF Next
<1>5. \A s \in Symbols : \A candle \in Candles \cup {NoCandle} :
         Deliver(s, candle) => Due(candle)
  BY DEF Deliver
<1> QED BY <1>4, <1>5

(* A candle is only traded after the operator has started the bot in this  *)
(* life of the backend, and while the status says running: restoring a     *)
(* session never trades by itself, and neither does a paused bot.          *)
THEOREM OnlyWhenAsked == Spec => TradesOnlyWhenAsked
<1>1. ASSUME RuntimeInv, [Next]_vars, handled' # handled
      PROVE  started /\ status.state = "running"
  <2>1. PICK s \in Symbols, candle \in Candles \cup {NoCandle} :
           Deliver(s, candle) /\ Due(candle)
    BY <1>1, HandlingStep
  <2>2. live /\ status.state # "paused"
    BY <2>1 DEF Deliver, Due, HasTask
  <2> QED BY <1>1, <2>2 DEF RuntimeInv, LiveWasStarted, LiveTaskIsAnnounced
<1>2. RuntimeInv /\ [Next]_vars => [handled' # handled => started /\ status.state = "running"]_vars
  BY <1>1
<1> QED BY <1>2, RuntimeInvariant, PTL DEF Spec, TradesOnlyWhenAsked

(* Within a session candles are traded once each and in increasing order,  *)
(* through repeated ticks, klines out of order, pauses and resumes.        *)
THEOREM InOrder == Spec => InOrderWithinSession
<1> DEFINE Ordered == \A n \in SessionIds, s \in Symbols, t \in Times :
          handled'[n][s][t] # handled[n][s][t]
             => \A u \in Times : u >= t => handled[n][s][u] = 0
<1>1. ASSUME RuntimeInv, [Next]_vars, handled' # handled,
             NEW n \in SessionIds, NEW r \in Symbols, NEW t \in Times,
             handled'[n][r][t] # handled[n][r][t]
      PROVE  \A u \in Times : u >= t => handled[n][r][u] = 0
  <2>1. PICK s \in Symbols, candle \in Candles \cup {NoCandle} :
           Deliver(s, candle) /\ Due(candle)
    BY <1>1, HandlingStep
  <2>2. live /\ handled' = [handled EXCEPT ![status.session][s][candle.open] = @ + 1]
    BY <2>1 DEF Deliver, HasTask
  <2>3. /\ candle.open \in Times /\ status.session \in SessionIds
        /\ \A u \in Times : u >= candle.open => handled[status.session][s][u] = 0
    BY <1>1, <2>1, <2>2, DueIsNew
  <2>4. <<n, r, t>> = <<status.session, s, candle.open>>
    BY <1>1, <2>2, <2>3, HandledOnce DEF RuntimeInv
  <2> QED BY <2>3, <2>4
<1>2. RuntimeInv /\ [Next]_vars => [Ordered]_vars
  BY <1>1
<1> QED BY <1>2, RuntimeInvariant, PTL DEF Spec, InOrderWithinSession
-----------------------------------------------------------------------------
(* With storage that works, the account in memory and the account on disk  *)
(* hold no fill without a row.  The first is what makes this inductive:    *)
(* the account in memory is the next one to be saved.                      *)
RowsInv == account.fills <= diskFills /\ RecoveredAccount.fills <= diskFills

(* Saving the account in memory keeps it so.                               *)
LEMMA SavingKeepsRows ==
    ASSUME ~StorageFails, RowsInv, NEW acct, PersistBroker(acct), account' = acct,
           acct.fills <= diskFills', diskFills <= diskFills',
           TypeOK, diskFills' \in Nat, acct \in Accounts
    PROVE  RowsInv'
<1>1. diskBroker' \in {acct, diskBroker}
  BY DEF PersistBroker, Attempt
<1>2. CASE diskBroker' = acct
  BY <1>2, RuntimeAssumption DEF RowsInv, RecoveredAccount, NewAccount, Accounts
<1>3. CASE diskBroker' = diskBroker
  <2>1. RecoveredAccount' = RecoveredAccount
    BY <1>3 DEF RecoveredAccount
  <2>2. RecoveredAccount.fills \in Nat
    BY RuntimeAssumption DEF RecoveredAccount, NewAccount, TypeOK, Accounts
  <2>3. diskFills \in Nat
    BY DEF TypeOK
  <2> QED BY <2>1, <2>2, <2>3 DEF RowsInv
<1> QED BY <1>1, <1>2, <1>3

(* A trade adds its row in the step that adds its fill.                    *)
LEMMA TradeKeepsRows ==
    ASSUME TypeOK, RowsInv, NEW s \in Symbols, account' \in AutoOutcomes(s) \cup ManualOutcomes(s),
           diskFills' = WithRow(account')
    PROVE  /\ account'.fills <= diskFills' /\ diskFills <= diskFills'
           /\ diskFills' \in Nat /\ account' \in Accounts
<1>1. /\ account' \in Accounts /\ account'.fills - account.fills \in 0..1
      /\ diskFills' \in Nat /\ diskFills <= diskFills'
  BY OutcomeTypes
<1>2. account.fills \in Nat /\ account'.fills \in Nat /\ diskFills \in Nat
  BY <1>1, RuntimeAssumption DEF TypeOK, Accounts
<1> QED BY <1>1, <1>2 DEF RowsInv, WithRow

(* A cycle, completed or cut short by its payload.                         *)
LEMMA DeliverRows ==
    ASSUME ~StorageFails, RuntimeInv, RowsInv, NEW s \in Symbols,
           NEW candle \in Candles \cup {NoCandle}, Deliver(s, candle)
    PROVE  RowsInv'
<1> USE DEF RuntimeInv
<1>1. CASE CycleCompletes(s, candle)
  <2>1. account' \in AutoOutcomes(s) /\ diskFills' = WithRow(account')
        /\ PersistBroker(account')
    BY <1>1 DEF CycleCompletes
  <2> QED BY <2>1, TradeKeepsRows, SavingKeepsRows
<1>2. CASE CycleRaises(s)
  <2>1. account' \in AutoOutcomes(s) /\ diskFills' = WithRow(account')
        /\ diskBroker' = diskBroker
    BY <1>2 DEF CycleRaises
  <2>2. account'.fills <= diskFills' /\ diskFills <= diskFills' /\ diskFills' \in Nat
    BY <2>1, TradeKeepsRows
  <2>3. RecoveredAccount' = RecoveredAccount /\ RecoveredAccount.fills \in Nat
    BY <2>1, RuntimeAssumption DEF RecoveredAccount, NewAccount, TypeOK, Accounts
  <2> QED BY <2>2, <2>3 DEF RowsInv, TypeOK
<1>3. CASE UNCHANGED <<account, diskBroker, diskFills>>
  BY <1>3 DEF RowsInv, RecoveredAccount
<1> QED BY <1>1, <1>2, <1>3 DEF Deliver

(* Every step keeps the rows ahead of the accounts.                        *)
LEMMA RowsStep ==
    ASSUME ~StorageFails, RuntimeInv, RowsInv, [Next]_vars PROVE RowsInv'
<1> USE DEF RuntimeInv
<1>1. ASSUME NEW s \in Symbols, Start(s) PROVE RowsInv'
  <2>1. PersistBroker(account) /\ UNCHANGED <<account, diskFills>>
    BY <1>1 DEF Start
  <2> QED BY <2>1, SavingKeepsRows DEF TypeOK, RowsInv
<1>2. ASSUME NEW s \in Symbols, ManualTrade(s) PROVE RowsInv'
  <2>1. account' \in ManualOutcomes(s) /\ diskFills' = WithRow(account')
        /\ PersistBroker(account')
    BY <1>2 DEF ManualTrade
  <2> QED BY <2>1, TradeKeepsRows, SavingKeepsRows
<1>3. ASSUME NEW s \in Symbols, NEW candle \in Candles \cup {NoCandle}, Deliver(s, candle)
      PROVE  RowsInv'
  BY <1>3, DeliverRows
<1>4. CASE Stop
  <2>1. PersistBroker(account) /\ UNCHANGED <<account, diskFills>>
    BY <1>4 DEF Stop
  <2> QED BY <2>1, SavingKeepsRows DEF TypeOK, RowsInv
<1>5. CASE \/ Pause \/ Resume \/ StreamRaises \/ TaskIsCancelled \/ UNCHANGED vars
           \/ \E request \in {"stop", "reset"} : CancelTask(request)
  <2>1. UNCHANGED <<account, diskBroker, diskFills>>
    BY <1>5 DEF Pause, Resume, StreamRaises, TaskIsCancelled, CancelTask, vars, memory, disk
  <2> QED BY <2>1 DEF RowsInv, RecoveredAccount
<1>6. CASE Reset
  BY <1>6 DEF Reset, DropRunner, ClearAll, RowsInv, RecoveredAccount, NewAccount
<1>7. CASE ResetFails
  <2>1. account' = NewAccount /\ diskFills' = diskFills /\ diskFills \in Nat
    BY <1>7 DEF ResetFails, DropRunner, TypeOK
  <2>2. diskBroker' \in {account, diskBroker, None}
    BY <1>7 DEF ResetFails, Attempt
  <2>3. RecoveredAccount'.fills <= diskFills
    BY <2>1, <2>2 DEF RowsInv, RecoveredAccount, NewAccount
  <2> QED BY <2>1, <2>3 DEF RowsInv, NewAccount
<1>8. CASE Restart
  BY <1>8 DEF Restart, RowsInv, RecoveredAccount
<1> QED BY <1>1, <1>2, <1>3, <1>4, <1>5, <1>6, <1>7, <1>8 DEF Next

(* Unless a write fails, the account a restart recovers never holds a fill *)
(* without its row: the rows are written before the account, in a cycle as *)
(* in a manual trade, and a reset clears both.                             *)
THEOREM RowsComeFirst == ASSUME ~StorageFails PROVE Spec => []RowsBeforeAccount
<1>1. Init => RowsInv
  BY DEF Init, RowsInv, RecoveredAccount, NewAccount
<1>2. RuntimeInv /\ RowsInv /\ [Next]_vars => RowsInv'
  BY RowsStep
<1>3. RowsInv => RowsBeforeAccount
  BY DEF RowsInv, RowsBeforeAccount
<1> QED BY <1>1, <1>2, <1>3, RuntimeInvariant, PTL DEF Spec
-----------------------------------------------------------------------------
(* With storage that works, what is saved is what the backend has, what the *)
(* status claims is there, and sessions that are over have an end.          *)
SavedInv == StatusIsHonest /\ MemoryIsSaved /\ SessionsAreFinished

(* A write that cannot fail is made.                                        *)
LEMMA WritesAreMade ==
    ASSUME ~StorageFails
    PROVE  /\ \A new, old : Attempt(new, old) = {new}
           /\ \A acct : PersistBroker(acct) =>
                diskBroker' = IF hasRunner' THEN acct ELSE diskBroker
           /\ \A st : PersistRun(st) => diskRun' = RunRecord(st)
  BY DEF Attempt, PersistBroker, PersistRun

(* A start finds no task, and so no open session that is not cut.           *)
LEMMA StartSaved ==
    ASSUME ~StorageFails, RuntimeInv, SavedInv, NEW s \in Symbols, Start(s)
    PROVE  SavedInv'
<1> USE DEF SavedInv
<1>1. /\ ~live /\ live' /\ rows' = Opened(sessions + 1) /\ cut' = cut
      /\ status'.state = "running" /\ status'.session = sessions + 1
  BY DEF Start, HasTask, LockIsFree
<1>2. diskRun' = RunRecord(status)' /\ diskBroker' = account /\ account' = account
  <2>1. PersistRun(status') /\ PersistBroker(account) /\ hasRunner'
    BY DEF Start
  <2> QED BY <2>1, WritesAreMade DEF Start, RunRecord
<1>3. ASSUME NEW n \in SessionIds, rows'[n] = "open"
      PROVE  n \in cut' \/ n = status'.session
  <2>1. rows \in [SessionIds -> {"absent", "open", "ended"}]
    BY DEF RuntimeInv, TypeOK
  <2>2. n = sessions + 1 \/ rows[n] = "open"
    BY <1>1, <1>3, <2>1 DEF Opened
  <2> QED BY <1>1, <2>2 DEF SessionsAreFinished
<1>4. StatusIsHonest' /\ SessionsAreFinished'
  BY <1>1, <1>3 DEF StatusIsHonest, SessionsAreFinished
<1> QED BY <1>2, <1>4 DEF MemoryIsSaved, AccountIsSaved, StatusIsSaved

(* The rows of a session that ends: no other is open but those cut.         *)
LEMMA EndsSession ==
    ASSUME RuntimeInv, SessionsAreFinished, rows' = Finished(status.session), cut' = cut
    PROVE  SessionsAreFinished'
<1>1. ASSUME NEW n \in SessionIds, rows'[n] = "open" PROVE n \in cut'
  <2>1. n # status.session /\ rows[n] = "open"
    BY <1>1 DEF Finished
  <2> QED BY <2>1 DEF SessionsAreFinished
<1> QED BY <1>1 DEF SessionsAreFinished

(* A stop saves the stopped status and the end of its session.                *)
LEMMA StopSaved ==
    ASSUME ~StorageFails, RuntimeInv, SavedInv, Stop
    PROVE  SavedInv'
<1> USE DEF SavedInv
<1>1. /\ rows' = Finished(status.session) /\ cut' = cut /\ account' = account
      /\ status' = Stopped /\ hasRunner' = hasRunner
  BY WritesAreMade DEF Stop, history
<1>2. status'.state = "stopped"
  BY <1>1 DEF Stopped, RuntimeInv, TypeOK
<1>3. diskRun' = RunRecord(status)' /\ (hasRunner' => diskBroker' = account)
  <2>1. PersistRun(status') /\ PersistBroker(account)
    BY DEF Stop
  <2> QED BY <2>1, WritesAreMade DEF RunRecord
<1>4. SessionsAreFinished'
  BY <1>1, EndsSession
<1> QED BY <1>1, <1>2, <1>3, <1>4
     DEF StatusIsHonest, MemoryIsSaved, AccountIsSaved, StatusIsSaved

(* A task that was cancelled has ended its session and saved that it stopped. *)
LEMMA CancelledSaved ==
    ASSUME ~StorageFails, RuntimeInv, SavedInv, TaskIsCancelled
    PROVE  SavedInv'
<1> USE DEF SavedInv
<1>1. /\ live /\ rows' = Finished(status.session) /\ status' = Stopped /\ PersistRun(status')
      /\ UNCHANGED <<cut, account, hasRunner, diskBroker>>
  BY DEF TaskIsCancelled, history
<1>2. status'.state = "stopped" /\ status.state # "error"
  BY <1>1 DEF Stopped, RuntimeInv, TypeOK, LiveTaskIsAnnounced
<1>3. diskRun' = RunRecord(status)'
  BY <1>1, WritesAreMade DEF RunRecord
<1>4. SessionsAreFinished'
  BY <1>1, EndsSession
<1> QED BY <1>1, <1>2, <1>3, <1>4
     DEF StatusIsHonest, MemoryIsSaved, AccountIsSaved, StatusIsSaved

(* A clear that fails comes after the stop: the status it leaves in memory is *)
(* the one on disk, if any, and the runner is gone.                           *)
LEMMA ResetFailsSaved ==
    ASSUME ~StorageFails, RuntimeInv, SavedInv, ResetFails
    PROVE  SavedInv'
<1> USE DEF SavedInv
<1>1. /\ rows' = Finished(status.session) /\ cut' = cut /\ hasRunner' = FALSE
      /\ status' = Stopped \/ status' = IdleStatus
  BY DEF ResetFails, DropRunner, history
<1>2. status'.state = "stopped"
  BY <1>1 DEF Stopped, IdleStatus, RuntimeInv, TypeOK
<1>3. diskRun' # None => diskRun' = RunRecord(status')
  BY WritesAreMade DEF ResetFails
<1>4. SessionsAreFinished'
  BY <1>1, EndsSession
<1> QED BY <1>1, <1>2, <1>3, <1>4
     DEF StatusIsHonest, MemoryIsSaved, AccountIsSaved, StatusIsSaved, RunRecord

(* Pausing and resuming need a live task, which is never in error.          *)
LEMMA PauseSaved ==
    ASSUME ~StorageFails, RuntimeInv, SavedInv, Pause \/ Resume
    PROVE  SavedInv'
<1> USE DEF SavedInv
<1>1. /\ live /\ live' = live /\ status.state # "error" /\ PersistRun(status')
      /\ status'.session = status.session
      /\ UNCHANGED <<hasRunner, account, diskBroker, rows, cut>>
  BY DEF Pause, Resume, HasTask, RuntimeInv, LiveTaskIsAnnounced, TypeOK, history
<1>2. diskRun' = RunRecord(status)'
  BY <1>1, WritesAreMade DEF RunRecord
<1> QED BY <1>1, <1>2 DEF StatusIsHonest, MemoryIsSaved, AccountIsSaved, StatusIsSaved,
                           SessionsAreFinished

(* A task that dies ends its session and leaves the error saved.            *)
LEMMA DyingIsSaved ==
    ASSUME ~StorageFails, RuntimeInv, SavedInv, NEW earlier, TaskDies(earlier), cut' = cut
    PROVE  SavedInv'
<1> USE DEF SavedInv
<1>1. /\ rows' = Finished(status.session) /\ status' = [status EXCEPT !.state = "error"]
      /\ \E old \in earlier : diskRun' \in Attempt(RunRecord(status'), old)
  BY DEF TaskDies
<1>2. diskRun' = RunRecord(status)'
  BY <1>1, WritesAreMade DEF RunRecord
<1>3. status'.state = "error"
  BY <1>1 DEF RuntimeInv, TypeOK
<1>4. SessionsAreFinished'
  BY <1>1, EndsSession
<1> QED BY <1>2, <1>3, <1>4 DEF StatusIsHonest, MemoryIsSaved, AccountIsSaved, StatusIsSaved

(* A manual trade and a cycle save the account they leave.                  *)
LEMMA TradeSaved ==
    ASSUME ~StorageFails, SavedInv, PersistBroker(account'),
           PersistRun(status) \/ diskRun' = diskRun,
           UNCHANGED <<live, status, hasRunner, rows, cut>>
    PROVE  SavedInv'
<1> USE DEF SavedInv
<1>1. (hasRunner' => diskBroker' = account') /\ (diskRun' # None => diskRun' = RunRecord(status))
  BY WritesAreMade DEF MemoryIsSaved, StatusIsSaved
<1> QED BY <1>1 DEF StatusIsHonest, MemoryIsSaved, AccountIsSaved, StatusIsSaved,
                     SessionsAreFinished, RunRecord

(* A candle saves the account it leaves, or is one whose cycle raised.        *)
LEMMA DeliverSaved ==
    ASSUME ~StorageFails, RuntimeInv, SavedInv, NEW s \in Symbols,
           NEW candle \in Candles \cup {NoCandle}, Deliver(s, candle)
    PROVE  SavedInv'
<1>1. hasRunner' = hasRunner /\ cut' = cut
  BY DEF Deliver
<1>2. CASE CycleCompletes(s, candle)
  <2>1. PersistRun(status) /\ PersistBroker(account') /\ UNCHANGED <<live, status, rows>>
    BY <1>2 DEF CycleCompletes
  <2> QED BY <1>1, <2>1, TradeSaved
<1>3. CASE CycleRaises(s)
  BY <1>1, <1>3, DyingIsSaved DEF CycleRaises
<1>4. CASE PersistRun(status) /\ UNCHANGED <<live, status, account, diskBroker, rows>>
  BY <1>1, <1>4, WritesAreMade DEF SavedInv, StatusIsHonest, MemoryIsSaved,
     AccountIsSaved, StatusIsSaved, SessionsAreFinished, RunRecord
<1> QED BY <1>2, <1>3, <1>4 DEF Deliver

(* A session that was running is cut and comes back paused, with its message.*)
LEMMA RestartSaved ==
    ASSUME ~StorageFails, RuntimeInv, SavedInv, Restart
    PROVE  SavedInv'
<1>1. /\ status' = Restored(diskRun) /\ account' = RecoveredAccount
      /\ hasRunner' = (diskBroker # None) /\ diskBroker' = diskBroker /\ rows' = rows
      /\ cut' = cut \cup {n \in SessionIds : rows[n] = "open"}
  BY DEF Restart
<1>2. \/ status'.state = "paused" /\ status'.message
      \/ status'.state \in {"stopped", "error"}
  BY <1>1 DEF Restored, IdleStatus, RuntimeInv, TypeOK, States
<1>3. diskRun' # None => diskRun' = RunRecord(status)'
  BY WritesAreMade DEF Restart, RunRecord
<1>4. AccountIsSaved'
  BY <1>1 DEF AccountIsSaved, RecoveredAccount
<1> QED BY <1>1, <1>2, <1>3, <1>4
     DEF SavedInv, StatusIsHonest, MemoryIsSaved, StatusIsSaved, SessionsAreFinished

(* Every action leaves saved what it changed.                                 *)
LEMMA SavedStep ==
    ASSUME ~StorageFails, RuntimeInv, SavedInv, [Next]_vars PROVE SavedInv'
<1>1. ASSUME NEW s \in Symbols, ManualTrade(s) PROVE SavedInv'
  <2>1. /\ PersistBroker(account') /\ diskRun' = diskRun
        /\ UNCHANGED <<live, status, hasRunner, rows, cut>>
    BY <1>1 DEF ManualTrade, history
  <2> QED BY <2>1, TradeSaved
<1>2. CASE Reset
  BY <1>2 DEF Reset, DropRunner, ClearAll, IdleStatus, SavedInv, StatusIsHonest,
     MemoryIsSaved, AccountIsSaved, StatusIsSaved, SessionsAreFinished
<1>3. CASE ResetFails
  BY <1>3, ResetFailsSaved
<1>4. CASE StreamRaises
  BY <1>4, DyingIsSaved DEF StreamRaises, history
<1>5. CASE UNCHANGED vars \/ \E request \in {"stop", "reset"} : CancelTask(request)
  BY <1>5 DEF CancelTask, vars, memory, disk, history, SavedInv, StatusIsHonest, MemoryIsSaved,
     AccountIsSaved, StatusIsSaved, SessionsAreFinished, RunRecord
<1> QED BY <1>1, <1>2, <1>3, <1>4, <1>5, StartSaved, StopSaved, CancelledSaved, PauseSaved,
           DeliverSaved, RestartSaved DEF Next

(* So it is of every state, when no write fails.                              *)
LEMMA SavedInvariant == ASSUME ~StorageFails PROVE Spec => []SavedInv
<1>1. Init => SavedInv
  BY DEF Init, IdleStatus, SavedInv, StatusIsHonest, MemoryIsSaved, AccountIsSaved,
     StatusIsSaved, SessionsAreFinished
<1>2. RuntimeInv /\ SavedInv /\ [Next]_vars => SavedInv'
  BY SavedStep
<1> QED BY <1>1, <1>2, RuntimeInvariant, PTL DEF Spec

(* Unless a write fails, a status that says running or paused means a task   *)
(* that runs, or a session recovered and announced as such.                  *)
THEOREM HonestStatus == ASSUME ~StorageFails PROVE Spec => []StatusIsHonest
<1>1. SavedInv => StatusIsHonest
  BY DEF SavedInv
<1> QED BY <1>1, SavedInvariant, PTL

(* Unless a write fails, whenever the backend may die the status it shows is  *)
(* saved, and the account it holds too unless a cycle raised.                 *)
THEOREM SavedMemory == ASSUME ~StorageFails PROVE Spec => []MemoryIsSaved
<1>1. SavedInv => MemoryIsSaved
  BY DEF SavedInv
<1> QED BY <1>1, SavedInvariant, PTL

(* Unless a write fails, a session the backend survived has its end recorded: *)
(* through stops, errors of the task, restarts and resets.                    *)
THEOREM FinishedSessions == ASSUME ~StorageFails PROVE Spec => []SessionsAreFinished
<1>1. SavedInv => SessionsAreFinished
  BY DEF SavedInv
<1> QED BY <1>1, SavedInvariant, PTL
=============================================================================
