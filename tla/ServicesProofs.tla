-------------------------- MODULE ServicesProofs --------------------------
(* For any symbols, intervals, callers, limits and clock: what the cache of   *)
(* symbols answers is fresh, the price stream serves what was asked for last,  *)
(* no backfill runs beside another of its key, a backfill that came to its end *)
(* left no gap, a Futures scan loads prices of its own time, and the pressure  *)
(* of liquidations is that of every event that arrived.                        *)
EXTENDS MCServices, DataLemmas

(* The clock only goes forward.                                               *)
LEMMA ClockStep ==
    ASSUME now \in Int, [ServicesNext]_allVars
    PROVE  now' \in Int /\ now' >= now
  BY ClockAssumption DEF ServicesNext, HistoryStep, CandlesStep, CacheStep, StreamStep, FeedStep,
     TimePasses, Only, Tick, allVars

(* The clock starts at an integer.                                            *)
LEMMA ClockInit == ASSUME ServicesInit PROVE now \in Int
  BY ClockAssumption DEF ServicesInit, Span

-----------------------------------------------------------------------------
(* The cache of symbols. What is stored is not older than its stamp, and a     *)
(* caller that asks has come before it asked.                                  *)

CallerInv(c_) ==
    /\ c_.pc # "idle" => c_.since <= now
    /\ c_.pc = "asking" => c_.since <= c_.asked
    /\ c_.pc = "answered" /\ c_.given # NoList =>
         /\ c_.given \in Int
         /\ IF c_.refresh THEN c_.given >= c_.since ELSE c_.given > c_.since - TTL

CacheInv ==
    /\ now \in Int /\ stamp \in Int
    /\ cached # NoList => cached \in Int /\ cached >= stamp
    /\ DOMAIN caller = Callers
    /\ \A c_ \in Callers : caller[c_] \in
         [pc : {"idle", "waiting", "asking", "answered"}, refresh : BOOLEAN,
          since : Int, asked : Int, given : Int \cup {NoList}]
    /\ \A c_ \in Callers : CallerInv(caller[c_])

(* What a step of all the services is for the cache.                          *)
LEMMA CacheOrNot ==
    ASSUME [ServicesNext]_allVars
    PROVE  (CacheNext /\ now' = now) \/ UNCHANGED cacheVars
  BY DEF ServicesNext, HistoryStep, CandlesStep, CacheStep, StreamStep, FeedStep,
     TimePasses, Only, allVars

(* A caller's own step: the others are left as they are.                      *)
LEMMA OneCaller ==
    ASSUME CacheInv, NEW c_ \in Callers, NEW answer,
           answer \in [pc : {"idle", "waiting", "asking", "answered"}, refresh : BOOLEAN,
                       since : Int, asked : Int, given : Int \cup {NoList}],
           CallerInv(answer), caller' = [caller EXCEPT ![c_] = answer],
           now' = now, stamp' \in Int, cached' # NoList => cached' \in Int /\ cached' >= stamp'
    PROVE  CacheInv'
  <1>1. DOMAIN caller' = Callers
    BY DEF CacheInv
  <1>2. \A o \in Callers : caller'[o] = IF o = c_ THEN answer ELSE caller[o]
    BY DEF CacheInv
  <1>3. ASSUME NEW o \in Callers
        PROVE  /\ caller'[o] \in [pc : {"idle", "waiting", "asking", "answered"},
                     refresh : BOOLEAN, since : Int, asked : Int, given : Int \cup {NoList}]
               /\ CallerInv(caller[o])'
    <2>1. CallerInv(caller[o]) /\ CallerInv(answer)
      BY DEF CacheInv
    <2> QED
      BY <1>2, <2>1 DEF CacheInv, CallerInv
  <1> QED
    BY <1>1, <1>3 DEF CacheInv

(* Every step of the cache keeps what is stored and answered as fresh as it was.*)
LEMMA CacheStepKeeps ==
    ASSUME CacheInv, CacheNext, now' = now
    PROVE  CacheInv'
  <1> USE CacheAssumption
  <1> DEFINE Rec == [pc : {"idle", "waiting", "asking", "answered"}, refresh : BOOLEAN,
                     since : Int, asked : Int, given : Int \cup {NoList}]
  <1>1. PICK c_ \in Callers :
          \/ \E refresh \in BOOLEAN : ListSymbols(c_, refresh)
          \/ LookAgain(c_)
          \/ \E m \in Shown(c_) : ExchangeInfo(c_, m)
          \/ ExchangeFails(c_)
          \/ Return(c_)
    BY DEF CacheNext
  <1>2. caller[c_] \in Rec /\ CallerInv(caller[c_]) /\ now \in Int /\ stamp \in Int
    BY DEF CacheInv
  <1>3. cached # NoList => cached \in Int /\ cached >= stamp
    BY DEF CacheInv
  <1>4. ASSUME NEW refresh \in BOOLEAN, ListSymbols(c_, refresh) PROVE CacheInv'
    <2> DEFINE answer ==
          [pc |-> IF Servable(refresh) THEN "answered"
                  ELSE IF turn = <<>> THEN "asking" ELSE "waiting",
           refresh |-> refresh, since |-> now, asked |-> now,
           given |-> IF Servable(refresh) THEN cached ELSE NoList]
    <2>1. answer \in Rec
      BY <1>2, <1>3 DEF Servable
    <2>2. CallerInv(answer)
      BY <1>2, <1>3 DEF Servable, CallerInv
    <2>3. caller' = [caller EXCEPT ![c_] = answer] /\ UNCHANGED <<cached, stamp>>
      BY <1>4 DEF ListSymbols
    <2> HIDE DEF answer
    <2> QED
      BY <1>2, <1>3, <2>1, <2>2, <2>3, OneCaller
  <1>5. CASE LookAgain(c_)
    <2> DEFINE answer ==
          [pc |-> IF Servable(caller[c_].refresh) THEN "answered" ELSE "asking",
           refresh |-> caller[c_].refresh, since |-> caller[c_].since, asked |-> now,
           given |-> IF Servable(caller[c_].refresh) THEN cached ELSE NoList]
    <2>1. answer \in Rec
      BY <1>2, <1>3 DEF Servable
    <2>2. CallerInv(answer)
      BY <1>2, <1>3, <1>5 DEF LookAgain, Servable, CallerInv
    <2>3. caller' = [caller EXCEPT ![c_] = answer] /\ UNCHANGED <<cached, stamp>>
      BY <1>5 DEF LookAgain
    <2> HIDE DEF answer
    <2> QED
      BY <1>2, <1>3, <2>1, <2>2, <2>3, OneCaller
  <1>6. ASSUME NEW m \in Shown(c_), ExchangeInfo(c_, m) PROVE CacheInv'
    <2> DEFINE answer == [caller[c_] EXCEPT !.pc = "answered", !.given = m]
    <2>1. m \in Int \cup {NoList} /\ (m # NoList => m \in Int /\ m >= caller[c_].asked)
      BY <1>2 DEF Shown
    <2>2. answer \in Rec
      BY <1>2, <2>1
    <2>3. CallerInv(answer)
      BY <1>2, <2>1, <1>6 DEF CallerInv, ExchangeInfo
    <2>4. caller' = [caller EXCEPT ![c_] = answer]
      BY <1>6 DEF ExchangeInfo, CacheInv
    <2>5. stamp' = caller[c_].asked /\ cached' = m
      BY <1>6 DEF ExchangeInfo, Stamp
    <2>6. stamp' \in Int /\ (cached' # NoList => cached' \in Int /\ cached' >= stamp')
      BY <1>2, <2>1, <2>5
    <2> HIDE DEF answer
    <2> QED
      BY <2>2, <2>3, <2>4, <2>6, OneCaller
  <1>7. CASE ExchangeFails(c_) \/ Return(c_)
    <2>1. Idle \in Rec
      BY DEF Idle
    <2>2. CallerInv(Idle)
      BY DEF Idle, CallerInv
    <2> QED
      BY <1>2, <1>3, <1>7, <2>1, <2>2, OneCaller DEF ExchangeFails, Return
  <1> QED
    BY <1>1, <1>4, <1>5, <1>6, <1>7

(* While the cache rests only the clock moves, forward.                       *)
LEMMA CacheAgesWell ==
    ASSUME CacheInv, UNCHANGED cacheVars, now' \in Int, now' >= now
    PROVE  CacheInv'
  <1>1. ASSUME NEW o \in Callers PROVE CallerInv(caller[o])'
    <2>1. CallerInv(caller[o]) /\ caller' = caller /\ caller[o].since \in Int
      BY DEF CacheInv, cacheVars
    <2> QED
      BY <2>1 DEF CacheInv, CallerInv
  <1> QED
    BY <1>1 DEF CacheInv, cacheVars

(* Through every interleaving of callers with the lock, the exchange and the   *)
(* clock: what list_symbols answers shows the exchange less than the ttl before *)
(* the call, and after the call when a refresh was asked for.                  *)
THEOREM FreshAnswers == ServicesSpec => []AnswersAreFresh
  <1>1. ServicesInit => CacheInv
    <2> SUFFICES ASSUME ServicesInit PROVE CacheInv
      OBVIOUS
    <2>1. now \in Int
      BY ClockInit
    <2> QED
      BY <2>1 DEF ServicesInit, CacheInit, CacheInv, CallerInv, Idle
  <1>2. CacheInv /\ [ServicesNext]_allVars => CacheInv'
    <2> SUFFICES ASSUME CacheInv, [ServicesNext]_allVars PROVE CacheInv'
      OBVIOUS
    <2>1. now' \in Int /\ now' >= now
      BY ClockStep DEF CacheInv
    <2> QED
      BY <2>1, CacheOrNot, CacheStepKeeps, CacheAgesWell
  <1>3. CacheInv => AnswersAreFresh
    BY DEF CacheInv, CallerInv, AnswersAreFresh
  <1> HIDE DEF CacheInv
  <1> QED
    BY <1>1, <1>2, <1>3, PTL DEF ServicesSpec

-----------------------------------------------------------------------------
(* The price stream.                                                          *)

StreamInv == StreamServesOrWarns /\ stream = [pc |-> stream.pc, symbols |-> stream.symbols]

(* However requests, reconnects, errors and shutdown interleave: the task that  *)
(* runs is subscribed to the symbols asked for last, and when there is no such  *)
(* task although symbols are asked for, the cards carry the warning.           *)
THEOREM ServesOrWarns == ServicesSpec => []StreamServesOrWarns
  <1>1. ServicesInit => StreamInv
    BY DEF ServicesInit, StreamInit, NoStream, StreamInv, StreamServesOrWarns, Running
  <1>2. StreamInv /\ [ServicesNext]_allVars => StreamInv'
    <2> SUFFICES ASSUME StreamInv, [ServicesNext]_allVars PROVE StreamInv'
      OBVIOUS
    <2> USE DEF StreamInv, StreamServesOrWarns, Running
    <2>1. StreamNext \/ UNCHANGED streamVars
      BY DEF ServicesNext, HistoryStep, CandlesStep, CacheStep, StreamStep, FeedStep,
         TimePasses, Only, allVars
    <2>2. ASSUME NEW raw \in Requests, UpdateSubscriptions(raw) PROVE StreamInv'
      <3> DEFINE symbols == Sanitized(raw)
      <3>1. ResubscribedTo(symbols)
        BY <2>2 DEF UpdateSubscriptions, Resubscribed
      <3> HIDE DEF symbols
      <3> QED
        BY <3>1 DEF ResubscribedTo, NoStream
    <2>3. CASE CloseStream
      BY <2>3 DEF CloseStream, NoStream
    <2>4. CASE Connect \/ Disconnect \/ Reconnect
      BY <2>4 DEF Connect, Disconnect, Reconnect, At, AfterAnError
    <2>5. CASE StreamDies
      BY <2>5 DEF StreamDies, At
    <2>6. ASSUME NEW s_ \in Listed, ReceiveSome(s_) PROVE StreamInv'
      BY <2>6 DEF ReceiveSome, Receive
    <2>7. CASE UNCHANGED streamVars
      BY <2>7 DEF streamVars
    <2> QED
      BY <2>1, <2>2, <2>3, <2>4, <2>5, <2>6, <2>7 DEF StreamNext
  <1>3. StreamInv => StreamServesOrWarns
    BY DEF StreamInv
  <1> HIDE DEF StreamInv
  <1> QED
    BY <1>1, <1>2, <1>3, PTL DEF ServicesSpec

-----------------------------------------------------------------------------
(* The backfills.                                                             *)

Formed(x) == x = [key |-> x.key, pc |-> x.pc, turn |-> x.turn, cursor |-> x.cursor,
                  since |-> x.since, end |-> x.end, wiped |-> x.wiped]

(* What a step of all the services is for the candle history.                 *)
LEMMA HistoryOrNot ==
    ASSUME [ServicesNext]_allVars
    PROVE  (HistoryNext /\ now' = now) \/ UNCHANGED historyVars
  BY DEF ServicesNext, HistoryStep, CandlesStep, CacheStep, StreamStep, FeedStep,
     TimePasses, Only, allVars

KeyInv == OneBackfillPerKey /\ \A x \in backfills : Formed(x)

(* A step that lets each task go on as one task, with its key, or end, leaves   *)
(* one task per key.                                                          *)
LEMMA OneBecomesOne ==
    ASSUME OneBackfillPerKey, NEW f,
           \A y \in backfills' : /\ Formed(y)
                                /\ \E o \in backfills : y = f[o] /\ y.key = o.key
    PROVE  KeyInv'
  BY DEF OneBackfillPerKey, KeyInv, Formed

(* The fields of a task that goes on, and of a new one.                       *)
LEMMA WindowedIs ==
    ASSUME NEW x, Formed(x), NEW pc_
    PROVE  /\ Windowed(x, pc_) = [key |-> x.key, pc |-> pc_, turn |-> x.turn,
                                  cursor |-> now - Lookback, since |-> now - Lookback,
                                  end |-> now, wiped |-> x.wiped]
           /\ Formed(Windowed(x, pc_)) /\ Windowed(x, pc_).key = x.key
  <1>1. Windowed(x, pc_) = [key |-> x.key, pc |-> pc_, turn |-> x.turn,
                            cursor |-> now - Lookback, since |-> now - Lookback,
                            end |-> now, wiped |-> x.wiped]
    <2> DEFINE y1 == [x EXCEPT !.pc = pc_]
               y2 == [y1 EXCEPT !.cursor = now - Lookback]
               y3 == [y2 EXCEPT !.since = now - Lookback]
               y4 == [y3 EXCEPT !.end = now]
    <2>1. y1 = [key |-> x.key, pc |-> pc_, turn |-> x.turn, cursor |-> x.cursor,
                since |-> x.since, end |-> x.end, wiped |-> x.wiped]
      BY DEF Formed
    <2> HIDE DEF y1
    <2>2. y2 = [key |-> x.key, pc |-> pc_, turn |-> x.turn, cursor |-> now - Lookback,
                since |-> x.since, end |-> x.end, wiped |-> x.wiped]
      BY <2>1
    <2> HIDE DEF y2
    <2>3. y3 = [key |-> x.key, pc |-> pc_, turn |-> x.turn, cursor |-> now - Lookback,
                since |-> now - Lookback, end |-> x.end, wiped |-> x.wiped]
      BY <2>2
    <2> HIDE DEF y3
    <2>4. y4 = [key |-> x.key, pc |-> pc_, turn |-> x.turn, cursor |-> now - Lookback,
                since |-> now - Lookback, end |-> now, wiped |-> x.wiped]
      BY <2>3
    <2>5. Windowed(x, pc_) = y4
      BY DEF Windowed, y1, y2, y3
    <2> QED
      BY <2>4, <2>5
  <1> QED
    BY <1>1 DEF Formed

(* A task that begins stays the task of its key; those behind it move up.     *)
LEMMA BeginKeys ==
    ASSUME KeyInv, NEW x \in backfills, Begin(x)
    PROVE  KeyInv'
  <1> DEFINE Waited(o) == [o EXCEPT !.turn = @ - 1]
             f == [o \in backfills |-> IF o = x THEN Windowed(x, "fetching")
                                      ELSE IF o \in Queued THEN Waited(o) ELSE o]
  <1>1. backfills' = Fetching \cup {Windowed(x, "fetching")} \cup {Waited(o) : o \in Queued \ {x}}
    BY DEF Begin
  <1>2. x \in Queued
    BY DEF Begin
  <1>3. ASSUME NEW y \in backfills'
        PROVE  Formed(y) /\ \E o \in backfills : y = f[o] /\ y.key = o.key
    <2>1. CASE y \in Fetching
      BY <1>2, <2>1 DEF Fetching, KeyInv
    <2>2. CASE y = Windowed(x, "fetching")
      BY <2>2, WindowedIs DEF KeyInv
    <2>3. ASSUME NEW o \in Queued \ {x}, y = Waited(o)
          PROVE  Formed(y) /\ y = f[o] /\ y.key = o.key /\ o \in backfills
      BY <2>3 DEF KeyInv, Formed, Queued
    <2> QED
      BY <1>1, <2>1, <2>2, <2>3
  <1> HIDE DEF f
  <1> QED
    BY <1>3, OneBecomesOne DEF KeyInv

(* A task is only made for a key that has none.                               *)
LEMMA NewTaskKeys ==
    ASSUME KeyInv, NEW k_ \in Keys, NoTask(k_), Enqueue(k_)
    PROVE  KeyInv'
  <1> DEFINE new == [key |-> k_, pc |-> "queued", turn |-> Cardinality(Queued),
                     cursor |-> 0, since |-> 0, end |-> 0, wiped |-> FALSE]
  <1>1. Formed(new) /\ new.key = k_
    BY DEF Formed
  <1>2. backfills' = backfills \cup {new}
    BY DEF Enqueue
  <1> HIDE DEF new
  <1> QED
    BY <1>1, <1>2 DEF KeyInv, OneBackfillPerKey, Formed, NoTask

(* A page or the fallback leaves a task the task of its key.                  *)
LEMMA FetchKeys ==
    ASSUME KeyInv, NEW x \in backfills, FetchPage(x) \/ FallBack(x)
    PROVE  KeyInv'
  <1> DEFINE g == IF FetchPage(x) THEN [x EXCEPT !.cursor = NextCursor(x)]
                                  ELSE Windowed(x, "fallback")
             f == [o \in backfills |-> IF o = x THEN g ELSE o]
  <1>1. backfills' = (backfills \ {x}) \cup {g}
    BY DEF FetchPage, FallBack
  <1>2. Formed(g) /\ g.key = x.key
    <2>1. CASE FetchPage(x)
      <3>1. g = [key |-> x.key, pc |-> x.pc, turn |-> x.turn, cursor |-> NextCursor(x),
                 since |-> x.since, end |-> x.end, wiped |-> x.wiped]
        BY <2>1 DEF KeyInv, Formed
      <3> QED
        BY <3>1 DEF Formed
    <2>2. CASE ~FetchPage(x)
      BY <2>2, WindowedIs DEF KeyInv
    <2> QED
      BY <2>1, <2>2
  <1> HIDE DEF g
  <1>3. ASSUME NEW y \in backfills'
        PROVE  Formed(y) /\ \E o \in backfills : y = f[o] /\ y.key = o.key
    BY <1>1, <1>2 DEF KeyInv
  <1> HIDE DEF f
  <1> QED
    BY <1>3, OneBecomesOne DEF KeyInv

(* So does a reset, which marks every task.                                   *)
LEMMA WipedKeys ==
    ASSUME KeyInv, ClearHistory
    PROVE  KeyInv'
  <1> DEFINE f == [o \in backfills |-> [o EXCEPT !.wiped = TRUE]]
  <1>1. ASSUME NEW y \in backfills'
        PROVE  Formed(y) /\ \E o \in backfills : y = f[o] /\ y.key = o.key
    BY DEF ClearHistory, KeyInv, Formed
  <1> HIDE DEF f
  <1> QED
    BY <1>1, OneBecomesOne DEF KeyInv

(* Tasks that end leave no second one behind.                                 *)
LEMMA EndKeys ==
    ASSUME KeyInv, backfills' \subseteq backfills
    PROVE  KeyInv'
  BY DEF KeyInv, OneBackfillPerKey, Formed

(* What a step of the candle history is, with the task it is a step of.        *)
LEMMA HistorySteps ==
    ASSUME HistoryNext
    PROVE  \/ \E k_ \in Keys : EnsureRecentHistory(k_) \/ EnsureUnsaved(k_)
           \/ \E x \in backfills :
                \/ Begin(x) \/ FetchPage(x) \/ FallBack(x) \/ Escapes(x)
                \/ \E saved \in BOOLEAN : FetchLastPage(x, saved) \/ Fails(x, saved)
           \/ \E s_ \in Symbols : LiveCandle(s_)
           \/ ClearHistory
  BY ZenonT(30) DEF HistoryNext, BackfillSteps

(* Whatever requests race, whatever fails and whoever resets the history: there *)
(* is never a second backfill of a symbol and an interval.                     *)
THEOREM NoSecondBackfill == ServicesSpec => []OneBackfillPerKey
  <1>1. ServicesInit => KeyInv
    BY DEF ServicesInit, HistoryInit, KeyInv, OneBackfillPerKey
  <1>2. KeyInv /\ [ServicesNext]_allVars => KeyInv'
    <2> SUFFICES ASSUME KeyInv, [ServicesNext]_allVars PROVE KeyInv'
      OBVIOUS
    <2>1. CASE UNCHANGED historyVars
      BY <2>1, EndKeys DEF historyVars
    <2>2. CASE HistoryNext
      <3>1. ASSUME NEW k_ \in Keys, EnsureRecentHistory(k_) \/ EnsureUnsaved(k_)
            PROVE  KeyInv'
        BY <3>1, NewTaskKeys, EndKeys DEF EnsureRecentHistory, EnsureUnsaved
      <3>2. ASSUME NEW x \in backfills,
                   \/ Begin(x) \/ FetchPage(x) \/ FallBack(x) \/ Escapes(x)
                   \/ \E saved \in BOOLEAN : FetchLastPage(x, saved) \/ Fails(x, saved)
            PROVE  KeyInv'
        <4>1. CASE Begin(x) \/ FetchPage(x) \/ FallBack(x)
          BY <4>1, BeginKeys, FetchKeys
        <4>2. ASSUME \/ Escapes(x)
                     \/ \E saved \in BOOLEAN : FetchLastPage(x, saved) \/ Fails(x, saved)
              PROVE  backfills' \subseteq backfills
          BY <4>2 DEF Escapes, FetchLastPage, Fails
        <4> QED
          BY <3>2, <4>1, <4>2, EndKeys
      <3>3. ASSUME NEW s_ \in Symbols, LiveCandle(s_) PROVE KeyInv'
        BY <3>3, EndKeys DEF LiveCandle
      <3> QED
        BY <2>2, <3>1, <3>2, <3>3, HistorySteps, WipedKeys
    <2> QED
      BY <2>1, <2>2, HistoryOrNot
  <1>3. KeyInv => OneBackfillPerKey
    BY DEF KeyInv
  <1> HIDE DEF KeyInv
  <1> QED
    BY <1>1, <1>2, <1>3, PTL DEF ServicesSpec

-----------------------------------------------------------------------------
(* Backfills leave no gap, for any lookback, page limit, intervals, permits and *)
(* faults. FetchPage continues at the last candle of the page plus one interval, *)
(* so the proof is about pages: what a page of at most PageLimit candles leaves  *)
(* out, and that no candle lies between two pages.                              *)
(* What the tables hold of a window, and the invariant: a task that was not     *)
(* reset meanwhile has stored every closed candle before its cursor.           *)

Filled(s_, i_, from, to, end_) ==
    \A t \in Int : from <= t /\ t < to /\ t % Minutes(i_) = 0 /\ t + Minutes(i_) <= end_
                   => t \in rows[s_][i_]

TaskInv(x) ==
    /\ Formed(x) /\ x.key \in Keys /\ x.pc \in {"queued", "fetching", "fallback"}
    /\ x.cursor \in Int /\ x.since \in Int /\ x.end \in Int /\ x.wiped \in BOOLEAN
    /\ x.pc # "queued" => x.end <= now
    /\ x.pc # "queued" /\ ~x.wiped =>
         Filled(x.key.symbol, Step(x), x.since, x.cursor, x.end)

WindowInv(f) ==
    /\ f.symbol \in Symbols /\ f.interval \in Intervals
    /\ f.since \in Int /\ f.end \in Int
    /\ Filled(f.symbol, f.interval, f.since, f.end + 1, f.end)

RowsOK == rows \in [Symbols -> [Intervals -> SUBSET Int]]

HistInv ==
    /\ now \in Int /\ RowsOK
    /\ \A x \in backfills : TaskInv(x)
    /\ \A f \in finished : WindowInv(f)

(* What the proof uses of the constants.                                      *)
LEMMA HistoryConstants ==
    /\ Lookback \in Int /\ PageLimit \in Nat \ {0}
    /\ \A i \in Intervals : Minutes(i) \in Nat \ {0}
    /\ "5m" \in Intervals
  BY HistoryAssumption DEF Intervals, Minutes

(* A task fetches candles of an interval the tables have.                     *)
LEMMA StepIsInterval ==
    ASSUME NEW x, TaskInv(x)
    PROVE  Step(x) \in Intervals /\ x.key.symbol \in Symbols /\ x.key.interval \in Intervals
  BY HistoryConstants DEF TaskInv, Step, Keys

(* What is filled stays filled while candles are only added.                   *)
Grows == \A s_ \in Symbols : \A i \in Intervals : rows[s_][i] \subseteq rows'[s_][i]

(* ... so a task keeps what it has stored,                                    *)
LEMMA TaskKept ==
    ASSUME NEW x, TaskInv(x), Grows, now \in Int, now' \in Int, now' >= now
    PROVE  TaskInv(x)'
  BY StepIsInterval DEF TaskInv, Grows, Filled, Step

(* and so does a backfill that has ended.                                     *)
LEMMA WindowKept ==
    ASSUME NEW f, WindowInv(f), Grows
    PROVE  WindowInv(f)'
  BY DEF WindowInv, Grows, Filled

(* It is enough to look at the tasks and windows a step makes.                *)
LEMMA HistKept ==
    ASSUME HistInv, RowsOK', Grows, now' \in Int, now' >= now,
           \A x \in backfills' : x \in backfills \/ TaskInv(x)',
           \A f \in finished' : f \in finished \/ WindowInv(f)'
    PROVE  HistInv'
  <1>1. ASSUME NEW x \in backfills' PROVE TaskInv(x)'
    BY TaskKept DEF HistInv
  <1>2. ASSUME NEW f \in finished' PROVE WindowInv(f)'
    BY WindowKept DEF HistInv
  <1> QED
    BY <1>1, <1>2 DEF HistInv

-----------------------------------------------------------------------------
(* A page.                                                                    *)

LEMMA PageIs ==
    ASSUME NEW x, TaskInv(x), now \in Int
    PROVE  /\ Page(x) \subseteq x.cursor .. x.end
           /\ \A t \in Page(x) : t \in Int /\ t % Minutes(Step(x)) = 0 /\ t <= now
           /\ Cardinality(Page(x)) # PageLimit =>
                \A t \in x.cursor .. x.end :
                  t % Minutes(Step(x)) = 0 /\ t <= now => t \in Page(x)
           /\ \A p, t \in Int :
                /\ p \in Page(x) /\ x.cursor <= t /\ t < p /\ t % Minutes(Step(x)) = 0
                => t \in Page(x)
  <1> DEFINE there == {t \in x.cursor .. x.end : t % Minutes(Step(x)) = 0 /\ t <= now}
             Before(t) == {u \in there : u < t}
  <1>1. Page(x) = {t \in there : Cardinality(Before(t)) < PageLimit}
    BY DEF Page
  <1>2. there \subseteq x.cursor .. x.end /\ x.cursor \in Int /\ x.end \in Int
    BY DEF TaskInv
  <1>3. Cardinality(Page(x)) # PageLimit => Page(x) = there
    <2> HIDE DEF there
    <2> QED
      BY <1>1, <1>2, FirstOnes, HistoryConstants
  <1>4. ASSUME NEW p \in Int, NEW t \in Int, p \in Page(x), x.cursor <= t, t < p,
               t % Minutes(Step(x)) = 0
        PROVE  t \in Page(x)
    <2>1. p \in there /\ Cardinality(Before(p)) < PageLimit
      BY <1>1, <1>4
    <2>2. t \in there
      BY <1>2, <1>4, <2>1
    <2>3. Before(t) \subseteq Before(p)
      BY <1>2, <1>4
    <2>4. IsFiniteSet(there)
      BY <1>2, FS_Interval, FS_Subset
    <2> HIDE DEF there
    <2>5. IsFiniteSet(Before(p)) /\ IsFiniteSet(Before(t))
      BY <2>4, FS_Subset
    <2>6. Cardinality(Before(t)) <= Cardinality(Before(p))
      BY <2>3, <2>5, FS_Subset
    <2>7. Cardinality(Before(t)) \in Nat /\ Cardinality(Before(p)) \in Nat
      BY <2>5, FS_CardinalityType
    <2>8. Cardinality(Before(t)) < PageLimit
      BY <2>1, <2>6, <2>7, HistoryConstants
    <2> QED
      BY <1>1, <2>2, <2>8
  <1>5. Page(x) \subseteq there
    BY <1>1
  <1> QED
    BY <1>2, <1>3, <1>4, <1>5

(* No closed candle lies between the cursor and the next one but on the page.  *)
LEMMA PageLeavesNone ==
    ASSUME NEW x, TaskInv(x), now \in Int, x.end <= now, Page(x) # {}
    PROVE  /\ NextCursor(x) \in Int
           /\ \A t \in Int : /\ x.cursor <= t /\ t < NextCursor(x)
                             /\ t % Minutes(Step(x)) = 0
                             => t \in Page(x)
  <1> DEFINE m == Minutes(Step(x))
             p == Max(Page(x))
  <1>1. m \in Nat \ {0}
    BY StepIsInterval, HistoryConstants
  <1>2. p \in Page(x) /\ \A t \in Page(x) : p >= t
    BY PageIs, GreatestOf DEF TaskInv
  <1>3. p \in Int /\ p % m = 0 /\ NextCursor(x) = p + m
    BY <1>2, PageIs DEF NextCursor
  <1>4. ASSUME NEW t \in Int, x.cursor <= t, t < NextCursor(x), t % m = 0
        PROVE  t \in Page(x)
    <2>1. CASE t < p
      BY <2>1, <1>2, <1>3, <1>4, PageIs
    <2> HIDE DEF m, p
    <2>2. CASE t > p
      <3>1. t >= p + m
        BY <2>2, <1>1, <1>3, <1>4, NextMultiple
      <3> QED
        BY <3>1, <1>1, <1>3, <1>4
    <2>3. CASE t = p
      BY <2>3, <1>2
    <2> QED
      BY <2>1, <2>2, <2>3, <1>3, <1>4
  <1> QED
    BY <1>1, <1>3, <1>4

(* Storing a page adds its closed candles and removes none.                   *)
LEMMA StoredIs ==
    ASSUME HistInv, NEW x \in backfills, rows' = Stored(x)
    PROVE  /\ RowsOK' /\ Grows
           /\ \A t \in Page(x) : t + Minutes(Step(x)) <= now
                                 => t \in rows'[x.key.symbol][Step(x)]
  <1> DEFINE s_ == x.key.symbol
             i_ == Step(x)
             new == {t \in Page(x) : t + Minutes(Step(x)) <= now}
  <1>1. TaskInv(x) /\ now \in Int
    BY DEF HistInv
  <1>2. s_ \in Symbols /\ i_ \in Intervals
    BY <1>1, StepIsInterval
  <1>3. new \subseteq Int
    BY <1>1, PageIs
  <1>4. rows' = [rows EXCEPT ![s_][i_] = @ \cup new]
    BY DEF Stored
  <1> HIDE DEF s_, i_, new
  <1>5. rows \in [Symbols -> [Intervals -> SUBSET Int]]
    BY DEF HistInv, RowsOK
  <1> DEFINE row == [rows[s_] EXCEPT ![i_] = rows[s_][i_] \cup new]
  <1>6. rows' = [rows EXCEPT ![s_] = row]
    BY <1>4
  <1>7. rows[s_] \in [Intervals -> SUBSET Int]
    BY <1>2, <1>5
  <1>8. row \in [Intervals -> SUBSET Int]
    BY <1>2, <1>3, <1>7
  <1>9. \A i \in Intervals :
          row[i] = IF i = i_ THEN rows[s_][i] \cup new ELSE rows[s_][i]
    BY <1>2, <1>7
  <1> HIDE DEF row
  <1>10. rows' \in [Symbols -> [Intervals -> SUBSET Int]]
    BY <1>2, <1>5, <1>6, <1>8
  <1>11. \A s \in Symbols : rows'[s] = IF s = s_ THEN row ELSE rows[s]
    BY <1>5, <1>6
  <1>12. Grows /\ new \subseteq rows'[s_][i_]
    BY <1>2, <1>9, <1>11 DEF Grows
  <1> QED
    BY <1>10, <1>12 DEF new, s_, i_, RowsOK

-----------------------------------------------------------------------------
(* The steps of a task.                                                       *)

LEMMA StillThere ==
    ASSUME HistInv, rows' = rows, now' = now
    PROVE  RowsOK' /\ Grows /\ now' \in Int /\ now' >= now
  BY DEF HistInv, RowsOK, Grows

(* A window that opens is empty before its cursor.                            *)
LEMMA WindowOpens ==
    ASSUME HistInv, NEW x \in backfills, NEW pc_ \in {"fetching", "fallback"},
           NEW y, y = Windowed(x, pc_), now' = now
    PROVE  TaskInv(y)'
  <1>1. Formed(x) /\ x.key \in Keys /\ x.wiped \in BOOLEAN /\ now \in Int
    BY DEF HistInv, TaskInv
  <1>2. /\ Formed(y) /\ y.key = x.key /\ y.pc = pc_ /\ y.wiped = x.wiped
        /\ y.cursor = now - Lookback /\ y.since = now - Lookback /\ y.end = now
    BY <1>1, WindowedIs
  <1> QED
    BY <1>1, <1>2, HistoryConstants DEF TaskInv, Filled

(* While a task waits, nothing is said of its window.                          *)
LEMMA QueuedIsFine ==
    ASSUME NEW y, Formed(y), y.key \in Keys, y.pc = "queued", y.wiped \in BOOLEAN,
           y.cursor \in Int, y.since \in Int, y.end \in Int
    PROVE  TaskInv(y)'
  BY DEF TaskInv, Formed

(* A task that begins has an empty window before its cursor.                  *)
LEMMA BeginGap ==
    ASSUME HistInv, NEW x \in backfills, Begin(x), now' = now
    PROVE  HistInv'
  <1> DEFINE Waited(o) == [o EXCEPT !.turn = @ - 1]
  <1>1. /\ backfills' = Fetching \cup {Windowed(x, "fetching")}
                                \cup {Waited(o) : o \in Queued \ {x}}
        /\ rows' = rows /\ finished' = finished
    BY DEF Begin
  <1>2. ASSUME NEW o \in Queued, NEW y, y = Waited(o) PROVE TaskInv(y)'
    <2>1. TaskInv(o) /\ o.pc = "queued"
      BY DEF Queued, HistInv
    <2>2. y = [key |-> o.key, pc |-> o.pc, turn |-> o.turn - 1, cursor |-> o.cursor,
               since |-> o.since, end |-> o.end, wiped |-> o.wiped]
      BY <1>2, <2>1 DEF TaskInv, Formed
    <2>3. Formed(y) /\ y.key = o.key /\ y.pc = "queued" /\ y.wiped = o.wiped
          /\ y.cursor = o.cursor /\ y.since = o.since /\ y.end = o.end
      BY <2>1, <2>2 DEF Formed
    <2> QED
      BY <2>1, <2>3, QueuedIsFine DEF TaskInv
  <1>3. ASSUME NEW y \in backfills' PROVE y \in backfills \/ TaskInv(y)'
    <2>1. CASE y \in Fetching
      BY <2>1 DEF Fetching
    <2>2. CASE y = Windowed(x, "fetching")
      BY <2>2, WindowOpens
    <2>3. ASSUME NEW o \in Queued \ {x}, y = Waited(o) PROVE TaskInv(y)'
      BY <1>2, <2>3
    <2> QED
      BY <1>1, <2>1, <2>2, <2>3
  <1> QED
    BY <1>1, <1>3, StillThere, HistKept

(* So has one that starts again with the coarser candles.                     *)
LEMMA FallBackGap ==
    ASSUME HistInv, NEW x \in backfills, FallBack(x), now' = now
    PROVE  HistInv'
  <1>1. /\ backfills' = (backfills \ {x}) \cup {Windowed(x, "fallback")}
        /\ rows' = rows /\ finished' = finished
    BY DEF FallBack
  <1>2. \A y \in backfills' : y \in backfills \/ TaskInv(y)'
    BY <1>1, WindowOpens
  <1> QED
    BY <1>1, <1>2, StillThere, HistKept

(* The page is stored, and the cursor moves behind it.                        *)
LEMMA FetchPageGap ==
    ASSUME HistInv, NEW x \in backfills, FetchPage(x), now' = now
    PROVE  HistInv'
  <1> DEFINE y == [x EXCEPT !.cursor = NextCursor(x)]
             m == Minutes(Step(x))
  <1>1. /\ backfills' = (backfills \ {x}) \cup {y}
        /\ rows' = Stored(x) /\ finished' = finished
    BY DEF FetchPage
  <1>2. TaskInv(x) /\ x.pc # "queued" /\ now \in Int /\ x.end <= now
    BY DEF FetchPage, HistInv, TaskInv
  <1>3. Page(x) # {}
    <2>1. Cardinality(Page(x)) = PageLimit
      BY DEF FetchPage, LastPage
    <2> QED
      BY <2>1, HistoryConstants, FS_EmptySet
  <1>4. RowsOK' /\ Grows /\ \A t \in Page(x) : t + m <= now => t \in rows'[x.key.symbol][Step(x)]
    BY <1>1, StoredIs
  <1>5. m \in Nat \ {0} /\ x.key.symbol \in Symbols /\ Step(x) \in Intervals
    BY <1>2, StepIsInterval, HistoryConstants
  <1>6. NextCursor(x) \in Int
    BY <1>2, <1>3, PageLeavesNone
  <1>7. y = [key |-> x.key, pc |-> x.pc, turn |-> x.turn, cursor |-> NextCursor(x),
             since |-> x.since, end |-> x.end, wiped |-> x.wiped]
    BY <1>2 DEF TaskInv, Formed
  <1> HIDE DEF y
  <1>8. /\ Formed(y) /\ y.key = x.key /\ y.pc = x.pc /\ y.cursor = NextCursor(x)
        /\ y.since = x.since /\ y.end = x.end /\ y.wiped = x.wiped
    BY <1>7 DEF Formed
  <1>9. Step(y) = Step(x)
    BY <1>8 DEF Step
  <1>10. ASSUME ~x.wiped, NEW t \in Int, x.since <= t, t < NextCursor(x), t % m = 0,
                t + m <= x.end
         PROVE  t \in rows'[x.key.symbol][Step(x)]
    <2>1. CASE t < x.cursor
      <3>1. t \in rows[x.key.symbol][Step(x)]
        BY <2>1, <1>2, <1>10 DEF TaskInv, Filled
      <3> QED
        BY <3>1, <1>4, <1>5 DEF Grows
    <2>2. CASE t >= x.cursor
      <3>1. t \in Page(x)
        BY <2>2, <1>2, <1>3, <1>10, PageLeavesNone
      <3>2. t + m <= now
        BY <1>2, <1>5, <1>10 DEF TaskInv
      <3> QED
        BY <3>1, <3>2, <1>4
    <2> QED
      BY <2>1, <2>2, <1>2 DEF TaskInv
  <1>12. ASSUME NEW z, z = y PROVE TaskInv(z)'
    <2>1. /\ Formed(z) /\ z.key = x.key /\ z.pc = x.pc /\ z.cursor = NextCursor(x)
          /\ z.since = x.since /\ z.end = x.end /\ z.wiped = x.wiped /\ Step(z) = Step(x)
      BY <1>8, <1>9, <1>12
    <2>2. ~x.wiped => Filled(z.key.symbol, Step(z), z.since, z.cursor, z.end)'
      BY <2>1, <1>9, <1>10 DEF Filled, Step
    <2>3. /\ x.key \in Keys /\ x.pc \in {"queued", "fetching", "fallback"} /\ x.wiped \in BOOLEAN
          /\ x.since \in Int /\ x.end \in Int /\ x.end <= now'
      BY <1>2 DEF TaskInv
    <2> QED
      BY <2>1, <2>2, <2>3, <1>6 DEF TaskInv, Formed, Step
  <1>13. ASSUME NEW z \in backfills' PROVE z \in backfills \/ TaskInv(z)'
    BY <1>1, <1>12
  <1> QED
    BY <1>1, <1>2, <1>4, <1>13, HistKept

(* With the last page every closed candle of the window is stored.             *)
LEMMA FetchLastPageGap ==
    ASSUME HistInv, NEW x \in backfills, NEW saved \in BOOLEAN, FetchLastPage(x, saved),
           now' = now
    PROVE  HistInv'
  <1> DEFINE m == Minutes(Step(x))
             w == [symbol |-> x.key.symbol, interval |-> Step(x),
                   since |-> x.since, end |-> x.end]
  <1>1. /\ backfills' = backfills \ {x} /\ rows' = Stored(x)
        /\ finished' = IF x.wiped THEN finished ELSE finished \cup {w}
        /\ LastPage(x) /\ x.pc # "queued"
    BY DEF FetchLastPage
  <1>2. TaskInv(x) /\ now \in Int /\ x.end <= now
    BY <1>1 DEF HistInv, TaskInv
  <1>3. RowsOK' /\ Grows /\ \A t \in Page(x) : t + m <= now => t \in rows'[x.key.symbol][Step(x)]
    BY <1>1, StoredIs
  <1>4. m \in Nat \ {0} /\ x.key.symbol \in Symbols /\ Step(x) \in Intervals
    BY <1>2, StepIsInterval, HistoryConstants
  <1>5. ASSUME ~x.wiped, NEW t \in Int, x.since <= t, t < x.end + 1, t % m = 0,
               t + m <= x.end
        PROVE  t \in rows'[x.key.symbol][Step(x)]
    <2>0. t + m <= now /\ t <= now /\ t < x.end /\ x.end \in Int /\ x.cursor \in Int
      BY <1>2, <1>4, <1>5 DEF TaskInv
    <2>1. CASE t < x.cursor
      <3>1. t \in rows[x.key.symbol][Step(x)]
        BY <2>1, <1>1, <1>2, <1>5 DEF TaskInv, Filled
      <3> QED
        BY <3>1, <1>3, <1>4 DEF Grows
    <2>2. ASSUME t >= x.cursor PROVE t \in Page(x)
      <3>1. CASE Cardinality(Page(x)) # PageLimit
        <4>1. t \in x.cursor .. x.end
          BY <2>0, <2>2
        <4> QED
          BY <3>1, <4>1, <2>0, <1>2, <1>5, PageIs
      <3>2. CASE Cardinality(Page(x)) = PageLimit
        <4>1. Page(x) # {}
          BY <3>2, HistoryConstants, FS_EmptySet
        <4>2. NextCursor(x) >= x.end
          BY <3>2, <1>1 DEF LastPage
        <4>3. NextCursor(x) \in Int
          BY <4>1, <1>2, PageLeavesNone
        <4>4. t < NextCursor(x)
          BY <4>2, <4>3, <2>0
        <4> QED
          BY <4>1, <4>4, <2>2, <1>2, <1>5, PageLeavesNone
      <3> QED
        BY <3>1, <3>2
    <2> QED
      BY <2>0, <2>1, <2>2, <1>3
  <1>6. ASSUME ~x.wiped, NEW f, f = w PROVE WindowInv(f)'
    <2>1. f.symbol = x.key.symbol /\ f.interval = Step(x) /\ f.since = x.since /\ f.end = x.end
      BY <1>6
    <2> QED
      BY <2>1, <1>2, <1>4, <1>5, <1>6 DEF WindowInv, Filled, Minutes, TaskInv
  <1>7. \A f \in finished' : f \in finished \/ WindowInv(f)'
    BY <1>1, <1>6
  <1> QED
    BY <1>1, <1>2, <1>3, <1>7, HistKept

(* A reset empties the tables and excuses the tasks under way.                *)
LEMMA ClearGap ==
    ASSUME HistInv, ClearHistory, now' = now
    PROVE  HistInv'
  <1>1. /\ backfills' = {[o EXCEPT !.wiped = TRUE] : o \in backfills}
        /\ finished' = {} /\ rows' = [s \in Symbols |-> [i \in Intervals |-> {}]]
    BY DEF ClearHistory
  <1>2. ASSUME NEW o \in backfills, NEW z, z = [o EXCEPT !.wiped = TRUE]
        PROVE  TaskInv(z)'
    <2>1. TaskInv(o)
      BY DEF HistInv
    <2>2. z = [key |-> o.key, pc |-> o.pc, turn |-> o.turn, cursor |-> o.cursor,
               since |-> o.since, end |-> o.end, wiped |-> TRUE]
      BY <1>2, <2>1 DEF TaskInv, Formed
    <2>3. /\ Formed(z) /\ z.key = o.key /\ z.pc = o.pc /\ z.wiped
          /\ z.cursor = o.cursor /\ z.since = o.since /\ z.end = o.end
      BY <2>2 DEF Formed
    <2> QED
      BY <2>1, <2>3 DEF TaskInv, Formed
  <1> QED
    BY <1>1, <1>2 DEF HistInv, RowsOK

(* A candle from the stream only adds to what is stored.                      *)
LEMMA LiveCandleGap ==
    ASSUME HistInv, NEW s_ \in Symbols, LiveCandle(s_), now' = now
    PROVE  HistInv'
  <1> DEFINE row == [rows[s_] EXCEPT !["1m"] = rows[s_]["1m"] \cup {now - 1}]
  <1>1. /\ rows' = [rows EXCEPT ![s_] = row]
        /\ backfills' = backfills /\ finished' = finished
    BY DEF LiveCandle
  <1>2. rows \in [Symbols -> [Intervals -> SUBSET Int]] /\ now \in Int
    BY DEF HistInv, RowsOK
  <1>3. rows[s_] \in [Intervals -> SUBSET Int] /\ "1m" \in Intervals
    BY <1>2 DEF Intervals
  <1>4. row \in [Intervals -> SUBSET Int] /\ \A i \in Intervals : rows[s_][i] \subseteq row[i]
    BY <1>2, <1>3
  <1> HIDE DEF row
  <1>5. RowsOK' /\ Grows
    BY <1>1, <1>2, <1>4 DEF RowsOK, Grows
  <1> QED
    BY <1>1, <1>2, <1>5, HistKept

-----------------------------------------------------------------------------
(* Through faults, fallbacks, queueing, candles that arrive meanwhile and the    *)
(* clock: every candle that was closed when a backfill was sent out and lies in *)
(* its window is stored when the backfill has come to its end.                  *)
THEOREM BackfillLeavesNoGap == ServicesSpec => []FinishedBackfillHasNoGap
  <1>1. ServicesInit => HistInv
    <2> SUFFICES ASSUME ServicesInit PROVE HistInv
      OBVIOUS
    <2>1. now \in Int
      BY ClockInit
    <2> QED
      BY <2>1 DEF ServicesInit, HistoryInit, HistInv, RowsOK
  <1>2. HistInv /\ [ServicesNext]_allVars => HistInv'
    <2> SUFFICES ASSUME HistInv, [ServicesNext]_allVars PROVE HistInv'
      OBVIOUS
    <2>1. now' \in Int /\ now' >= now
      BY ClockStep DEF HistInv
    <2>2. CASE UNCHANGED historyVars
      <3>1. RowsOK' /\ Grows
        BY <2>2 DEF HistInv, RowsOK, Grows, historyVars
      <3> QED
        BY <3>1, <2>1, <2>2, HistKept DEF historyVars
    <2>3. CASE HistoryNext /\ now' = now
      <3>1. ASSUME NEW k_ \in Keys, EnsureRecentHistory(k_) \/ EnsureUnsaved(k_)
            PROVE  HistInv'
        <4> DEFINE new == [key |-> k_, pc |-> "queued", turn |-> Cardinality(Queued),
                           cursor |-> 0, since |-> 0, end |-> 0, wiped |-> FALSE]
        <4>1. rows' = rows /\ finished' = finished /\ backfills' \subseteq backfills \cup {new}
          BY <3>1 DEF EnsureRecentHistory, EnsureUnsaved, Enqueue
        <4>2. ASSUME NEW z, z = new PROVE TaskInv(z)'
          <5>1. /\ z.key = k_ /\ z.pc = "queued" /\ z.wiped = FALSE
                /\ z.turn = Cardinality(Queued) /\ z.cursor = 0 /\ z.since = 0 /\ z.end = 0
            BY <4>2
          <5>2. Formed(z)
            BY <4>2, <5>1 DEF Formed
          <5>3. z.key \in Keys
            BY <5>1, Zenon
          <5>4. z.wiped \in BOOLEAN
            BY <5>1, Zenon
          <5>5. z.cursor \in Int /\ z.since \in Int /\ z.end \in Int
            BY <5>1
          <5> QED
            BY <5>1, <5>2, <5>3, <5>4, <5>5, QueuedIsFine, Zenon
        <4> HIDE DEF new
        <4>3. \A z \in backfills' : z \in backfills \/ TaskInv(z)'
          BY <4>1, <4>2
        <4> QED
          BY <4>1, <4>3, <2>3, StillThere, HistKept
      <3>2. ASSUME NEW x \in backfills,
                   Escapes(x) \/ \E saved \in BOOLEAN : Fails(x, saved)
            PROVE  HistInv'
        <4>1. rows' = rows /\ finished' = finished /\ backfills' \subseteq backfills
          BY <3>2 DEF Escapes, Fails
        <4> QED
          BY <4>1, <2>3, StillThere, HistKept
      <3> QED
        BY <2>3, <3>1, <3>2, HistorySteps, BeginGap, FallBackGap, FetchPageGap,
           FetchLastPageGap, LiveCandleGap, ClearGap
    <2> QED
      BY <2>1, <2>2, <2>3, HistoryOrNot
  <1>3. HistInv => FinishedBackfillHasNoGap
    <2> SUFFICES ASSUME HistInv, NEW f \in finished, NEW t \in f.since .. f.end,
                        t % Minutes(f.interval) = 0, t + Minutes(f.interval) <= f.end
                 PROVE  t \in rows[f.symbol][f.interval]
      BY DEF FinishedBackfillHasNoGap
    <2> QED
      BY DEF HistInv, WindowInv, Filled
  <1> HIDE DEF HistInv
  <1> QED
    BY <1>1, <1>2, <1>3, PTL DEF ServicesSpec

-----------------------------------------------------------------------------
(* What a Futures scan loads. A request is never for a window that ended before *)
(* the scan began, and what a table holds are times.                           *)
ScanInv ==
    /\ now \in Int
    /\ table \in [Markets -> [ScanSymbols -> SUBSET Int]]
    /\ began \in [Markets -> Int]
    /\ cache \in [Markets -> [ScanSymbols -> (SUBSET Int) \cup {NotLoaded}]]
    /\ asking \in [Markets -> [ScanSymbols ->
                                 [stored : SUBSET Int, end : Int] \cup {NotLoaded}]]
    /\ \A m \in Markets : began[m] <= now
    /\ \A m \in Markets, s_ \in ScanSymbols : asking[m][s_] # NotLoaded =>
         began[m] <= asking[m][s_].end /\ asking[m][s_].end <= now

(* The stored candles that are enough are recent.                              *)
LEMMA StoredIsRecent ==
    ASSUME ScanInv, NEW s_ \in ScanSymbols, EnoughStored("futures", s_)
    PROVE  ~OldAt(Window("futures", s_), began["futures"])
  <1> DEFINE W == Window("futures", s_)
  <1>1. now \in Int /\ now - ScanLookback \in Int /\ ScanLookback \in Int
    BY ScanCandlesAssumption DEF ScanInv
  <1>2. table["futures"][s_] \subseteq Int
    BY DEF ScanInv, Markets
  <1>3. W \subseteq now - ScanLookback .. now /\ W \subseteq Int
    BY <1>1, <1>2 DEF Window
  <1>4. W # {} /\ ~OldAt(W, now)
    BY DEF EnoughStored
  <1> HIDE DEF W
  <1>5. Max(W) \in W
    BY <1>1, <1>3, <1>4, GreatestOf, Zenon
  <1>6. Max(W) \in Int
    BY <1>3, <1>5, Zenon
  <1>7. /\ FreshFor \in Int /\ began["futures"] \in Int /\ began["futures"] <= now
        /\ ~(now - (Max(W) + 1) > FreshFor)
    BY <1>4, ScanCandlesAssumption DEF OldAt, ScanInv, Markets
  <1>8. ~(began["futures"] - (Max(W) + 1) > FreshFor)
    BY <1>1, <1>6, <1>7
  <1> QED
    BY <1>8 DEF W, OldAt

(* What Binance answers reaches up to the end of the request.                  *)
LEMMA AnswerIsRecent ==
    ASSUME now \in Int, NEW end \in Int, end <= now, NEW t_ \in Int, t_ <= end, NEW m
    PROVE  ~OldAt(Fetched(m, end), t_) /\ Fetched(m, end) \subseteq Int
  <1> DEFINE S == end - ScanLookback .. end
             F == Fetched(m, end)
             Before == {u \in S : u < end - 1}
  <1>1. ScanLookback \in Nat \ {0} /\ FreshFor \in Nat
    BY ScanCandlesAssumption
  <1>2. Before = end - ScanLookback .. end - 2
    BY <1>1
  <1>3. Cardinality(Before) < Limit(m)
    <2>1. end - ScanLookback \in Int /\ end - 2 \in Int
      BY <1>1
    <2>2. Cardinality(end - ScanLookback .. end - 2) =
            IF end - ScanLookback > end - 2 THEN 0
            ELSE (end - 2) - (end - ScanLookback) + 1
      BY <2>1, FS_Interval, Zenon
    <2>3. Cardinality(Before) = Cardinality(end - ScanLookback .. end - 2)
      BY <1>2, Zenon
    <2>4. Limit(m) \in Nat /\ Limit(m) >= ScanLookback
      BY ScanCandlesAssumption DEF Limit
    <2> HIDE DEF Before
    <2> QED
      BY <1>1, <2>2, <2>3, <2>4
  <1>4. end - 1 \in F
    BY <1>1, <1>3 DEF Fetched, Least
  <1>5. F \subseteq end - ScanLookback .. end /\ F \subseteq Int
    BY DEF Fetched, Least
  <1>6. end - ScanLookback \in Int
    BY <1>1
  <1> HIDE DEF F
  <1>7. Max(F) \in F /\ Max(F) >= end - 1
    BY <1>4, <1>5, <1>6, GreatestOf, Zenon
  <1>8. Max(F) \in Int
    BY <1>5, <1>7, Zenon
  <1>9. ~OldAt(F, t_)
    BY <1>1, <1>7, <1>8 DEF OldAt
  <1> QED
    BY <1>5, <1>9 DEF F

(* What a step of all the services is for the candles of the scans.            *)
LEMMA CandlesOrNot ==
    ASSUME [ServicesNext]_allVars
    PROVE  (CandlesNext /\ now' = now) \/ UNCHANGED candleVars
  BY DEF ServicesNext, HistoryStep, CandlesStep, CacheStep, StreamStep, FeedStep,
     TimePasses, Only, allVars

(* Scans, answers and failures keep it.                                       *)
LEMMA ScanStepKeeps ==
    ASSUME ScanInv, CandlesNext, now' = now
    PROVE  ScanInv'
  <1>1. ASSUME NEW m \in Markets, NewScan(m) PROVE ScanInv'
    <2>1. began' = [began EXCEPT ![m] = now]
      BY <1>1 DEF NewScan
    <2>2. \A o \in ScanSymbols : asking[m][o] = NotLoaded
      BY <1>1 DEF NewScan
    <2>3. \A n \in Markets : began'[n] = IF n = m THEN now ELSE began[n]
      BY <2>1 DEF ScanInv
    <2>4. cache' \in [Markets -> [ScanSymbols -> (SUBSET Int) \cup {NotLoaded}]]
      BY <1>1 DEF NewScan, ScanInv
    <2>5. began' \in [Markets -> Int]
      BY <2>1 DEF ScanInv
    <2> QED
      BY <1>1, <2>2, <2>3, <2>4, <2>5 DEF NewScan, ScanInv
  <1>2. ASSUME NEW m \in Markets, NEW s_ \in ScanSymbols, LoadStored(m, s_) PROVE ScanInv'
    <2>1. Window(m, s_) \in SUBSET Int
      BY DEF Window, ScanInv
    <2> QED
      BY <1>2, <2>1 DEF LoadStored, ScanInv
  <1>3. ASSUME NEW m \in Markets, NEW s_ \in ScanSymbols, NEW answer,
               answer \in [stored : SUBSET Int, end : Int] \cup {NotLoaded},
               answer # NotLoaded => began[m] <= answer.end /\ answer.end <= now,
               asking' = [asking EXCEPT ![m][s_] = answer], began' = began,
               table' \in [Markets -> [ScanSymbols -> SUBSET Int]],
               cache' \in [Markets -> [ScanSymbols -> (SUBSET Int) \cup {NotLoaded}]]
        PROVE  ScanInv'
    <2>1. asking' \in [Markets -> [ScanSymbols ->
                                     [stored : SUBSET Int, end : Int] \cup {NotLoaded}]]
      BY <1>3 DEF ScanInv
    <2>2. \A n \in Markets, o \in ScanSymbols :
            asking'[n][o] = IF n = m /\ o = s_ THEN answer ELSE asking[n][o]
      BY <1>3 DEF ScanInv
    <2> QED
      BY <1>3, <2>1, <2>2 DEF ScanInv
  <1>4. ASSUME NEW m \in Markets, NEW s_ \in ScanSymbols, AskBinance(m, s_) PROVE ScanInv'
    <2>1. [stored |-> Window(m, s_), end |-> now] \in [stored : SUBSET Int, end : Int]
      BY DEF Window, ScanInv
    <2> QED
      BY <1>3, <1>4, <2>1 DEF AskBinance, ScanInv
  <1>5. ASSUME NEW m \in Markets, NEW s_ \in ScanSymbols, BinanceFails(m, s_) PROVE ScanInv'
    BY <1>3, <1>5 DEF BinanceFails, ScanInv
  <1>6. ASSUME NEW m \in Markets, NEW s_ \in ScanSymbols, asking[m][s_] # NotLoaded,
               NEW f \in {{}, Fetched(m, asking[m][s_].end)}, BinanceAnswers(m, s_, f)
        PROVE  ScanInv'
    <2>1. asking[m][s_] \in [stored : SUBSET Int, end : Int]
      BY <1>6 DEF ScanInv
    <2>2. asking[m][s_].end \in Int /\ asking[m][s_].end <= now /\ now \in Int
      BY <1>6, <2>1 DEF ScanInv
    <2>3. f \subseteq Int
      BY <2>2, AnswerIsRecent
    <2>4. Loaded(m, asking[m][s_].stored, f) \in SUBSET Int
      BY <2>1, <2>3 DEF Loaded
    <2>5. table' \in [Markets -> [ScanSymbols -> SUBSET Int]]
      BY <1>6, <2>3 DEF BinanceAnswers, ScanInv
    <2>6. cache' \in [Markets -> [ScanSymbols -> (SUBSET Int) \cup {NotLoaded}]]
      BY <1>6, <2>4 DEF BinanceAnswers, ScanInv
    <2> QED
      BY <1>3, <1>6, <2>5, <2>6 DEF BinanceAnswers
  <1> QED
    BY <1>1, <1>2, <1>4, <1>5, <1>6 DEF CandlesNext

(* A step of a scan loads what is recent, or what was stored and Binance had    *)
(* nothing to add to.                                                         *)
LEMMA ScanStepIsFresh ==
    ASSUME ScanInv, CandlesNext
    PROVE  FreshLoad("futures")
  <1> DEFINE Same == \A o \in ScanSymbols :
                cache'["futures"][o] \in {cache["futures"][o], NotLoaded}
  <1>0. Same => FreshLoad("futures")
    BY DEF FreshLoad
  <1>1. ASSUME NEW m \in Markets, NewScan(m) PROVE Same
    BY <1>1 DEF NewScan, ScanInv, Markets
  <1>2. ASSUME NEW m \in Markets, NEW s_ \in ScanSymbols, LoadStored(m, s_)
        PROVE  FreshLoad("futures")
    <2>1. CASE m = "spot"
      BY <1>0, <1>2, <2>1 DEF LoadStored, ScanInv, Markets
    <2>2. CASE m = "futures"
      <3>1. ~OldAt(Window("futures", s_), began["futures"])
        BY <1>2, <2>2, StoredIsRecent DEF LoadStored
      <3>2. \A o \in ScanSymbols : cache'["futures"][o] =
              IF o = s_ THEN Window("futures", s_) ELSE cache["futures"][o]
        BY <1>2, <2>2 DEF LoadStored, ScanInv, Markets
      <3> QED
        BY <3>1, <3>2 DEF FreshLoad
    <2> QED
      BY <2>1, <2>2 DEF Markets
  <1>3. ASSUME NEW m \in Markets, NEW s_ \in ScanSymbols,
               AskBinance(m, s_) \/ BinanceFails(m, s_)
        PROVE  Same
    BY <1>3 DEF AskBinance, BinanceFails
  <1>4. ASSUME NEW m \in Markets, NEW s_ \in ScanSymbols, asking[m][s_] # NotLoaded,
               NEW f \in {{}, Fetched(m, asking[m][s_].end)}, BinanceAnswers(m, s_, f)
        PROVE  FreshLoad("futures")
    <2>1. CASE m = "spot"
      BY <1>0, <1>4, <2>1 DEF BinanceAnswers, ScanInv, Markets
    <2>2. CASE m = "futures"
      <3>1. \A o \in ScanSymbols : cache'["futures"][o] =
              IF o = s_ THEN Loaded("futures", asking["futures"][s_].stored, f)
              ELSE cache["futures"][o]
        BY <1>4, <2>2 DEF BinanceAnswers, ScanInv, Markets
      <3>2. f # {} => ~OldAt(f, began["futures"])
        BY <1>4, <2>2, AnswerIsRecent DEF ScanInv
      <3>3. Loaded("futures", asking["futures"][s_].stored, f) =
              IF f # {} THEN f ELSE asking["futures"][s_].stored
        BY DEF Loaded
      <3> QED
        BY <1>4, <2>2, <3>1, <3>2, <3>3 DEF FreshLoad
    <2> QED
      BY <2>1, <2>2 DEF Markets
  <1> QED
    BY <1>0, <1>1, <1>2, <1>3, <1>4 DEF CandlesNext

(* Whatever is stored and whatever Binance answers or fails to: a Futures scan   *)
(* loads no candles older than its limit, unless Binance had nothing newer.     *)
THEOREM FuturesLoadsFresh == ServicesSpec => FuturesScanIsFresh
  <1>1. ServicesInit => ScanInv
    <2> SUFFICES ASSUME ServicesInit PROVE ScanInv
      OBVIOUS
    <2>1. now \in Int
      BY ClockInit
    <2> QED
      BY <2>1 DEF ServicesInit, CandlesInit, ScanInv
  <1>2. ScanInv /\ [ServicesNext]_allVars => ScanInv' /\ [FreshLoad("futures")]_candleVars
    <2> SUFFICES ASSUME ScanInv, [ServicesNext]_allVars
                 PROVE  ScanInv' /\ [FreshLoad("futures")]_candleVars
      OBVIOUS
    <2>1. CASE UNCHANGED candleVars
      <3>1. now' \in Int /\ now' >= now
        BY ClockStep DEF ScanInv
      <3> QED
        BY <2>1, <3>1 DEF ScanInv, candleVars
    <2>2. CASE CandlesNext /\ now' = now
      BY <2>2, ScanStepKeeps, ScanStepIsFresh
    <2> QED
      BY <2>1, <2>2, CandlesOrNot
  <1> HIDE DEF ScanInv
  <1> QED
    BY <1>1, <1>2, PTL DEF ServicesSpec, FuturesScanIsFresh

-----------------------------------------------------------------------------
(* The liquidation feed. What the recursion of Since keeps of the first n       *)
(* events.                                                                    *)

Event == [at : Int, side : Sides]
KeptNext(events, t, g, n) ==
    IF n = 0 THEN <<>>
    ELSE IF events[n].at >= t THEN Append(g[n - 1], events[n]) ELSE g[n - 1]
Kept(events, t) ==
    CHOOSE g : g = [n \in 0 .. Len(events) |-> KeptNext(events, t, g, n)]

(* There is such a function: from that for n events, the one for n + 1.         *)
LEMMA KeptIs ==
    ASSUME NEW events \in Seq(Event), NEW t \in Int
    PROVE  /\ \A n \in 0 .. Len(events) :
                Kept(events, t)[n] = KeptNext(events, t, Kept(events, t), n)
           /\ Since(events, t) = Kept(events, t)[Len(events)]
  <1> DEFINE L == Len(events)
             Ok(n, g) == \A m \in 0 .. n : g[m] = KeptNext(events, t, g, m)
             N == {n \in Nat : n <= L => \E g : DOMAIN g = 0 .. n /\ Ok(n, g)}
  <1>1. L \in Nat
    OBVIOUS
  <1>2. 0 \in N
    <2> DEFINE g == [m \in 0 .. 0 |-> <<>>]
    <2>1. DOMAIN g = 0 .. 0 /\ Ok(0, g)
      BY DEF KeptNext
    <2> HIDE DEF g, Ok
    <2> QED
      BY <2>1
  <1>3. ASSUME NEW n \in Nat, n \in N PROVE n + 1 \in N
    <2> SUFFICES ASSUME n + 1 <= L
                 PROVE  \E g : DOMAIN g = 0 .. (n + 1) /\ Ok(n + 1, g)
      OBVIOUS
    <2>1. PICK g : DOMAIN g = 0 .. n /\ Ok(n, g)
      BY <1>1, <1>3
    <2> DEFINE h == [m \in 0 .. (n + 1) |-> IF m <= n THEN g[m] ELSE KeptNext(events, t, g, m)]
    <2>2. \A m \in 0 .. n : h[m] = g[m]
      OBVIOUS
    <2>3. ASSUME NEW m \in 0 .. (n + 1) PROVE h[m] = KeptNext(events, t, h, m)
      <3>1. m # 0 => h[m - 1] = g[m - 1]
        BY <2>2
      <3>2. KeptNext(events, t, h, m) = KeptNext(events, t, g, m)
        <4> HIDE DEF h
        <4> QED
          BY <3>1 DEF KeptNext
      <3>3. h[m] = KeptNext(events, t, g, m)
        BY <2>1
      <3> QED
        BY <3>2, <3>3
    <2>4. DOMAIN h = 0 .. (n + 1) /\ Ok(n + 1, h)
      BY <2>3
    <2> HIDE DEF h, Ok
    <2> QED
      BY <2>4
  <1>4. \E g : DOMAIN g = 0 .. L /\ Ok(L, g)
    <2>1. Nat \subseteq N
      <3> HIDE DEF N
      <3> QED
        BY <1>2, <1>3, NaturalsByStep
    <2> QED
      BY <1>1, <2>1
  <1>5. PICK g : DOMAIN g = 0 .. L /\ Ok(L, g)
    BY <1>4
  <1> DEFINE k == [n \in 0 .. L |-> g[n]]
  <1>6. \A n \in 0 .. L : KeptNext(events, t, k, n) = KeptNext(events, t, g, n)
    BY DEF KeptNext
  <1>7. k = [n \in 0 .. L |-> KeptNext(events, t, k, n)]
    BY <1>5, <1>6
  <1>8. Kept(events, t) = [n \in 0 .. L |-> KeptNext(events, t, Kept(events, t), n)]
    BY <1>7 DEF Kept
  <1>9. Since(events, t) = Kept(events, t)[L]
    BY DEF Since, Kept, KeptNext
  <1> HIDE DEF L
  <1>10. \A n \in 0 .. L : Kept(events, t)[n] = KeptNext(events, t, Kept(events, t), n)
    BY <1>8
  <1> QED
    BY <1>9, <1>10 DEF L

(* Cutting off a head of older events loses nothing that is asked for.          *)
OlderHead(q, all, t) ==
    /\ Len(q) <= Len(all)
    /\ \A i \in 1 .. Len(q) : q[i] = all[Len(all) - Len(q) + i]
    /\ \A i \in 1 .. Len(all) - Len(q) : all[i].at < t

LEMMA SinceOfTail ==
    ASSUME NEW q \in Seq(Event), NEW all \in Seq(Event), NEW t \in Int, OlderHead(q, all, t)
    PROVE  Since(q, t) = Since(all, t)
  <1> DEFINE d == Len(all) - Len(q)
             A == Kept(all, t)
             Q == Kept(q, t)
             Heads == {n \in Nat : n <= d => A[n] = <<>>}
             Tails == {n \in Nat : n <= Len(q) => A[d + n] = Q[n]}
  <1>1. d \in Nat /\ Len(q) \in Nat /\ Len(all) = d + Len(q)
    BY DEF OlderHead
  <1>2. /\ \A n \in 0 .. Len(all) : A[n] = KeptNext(all, t, A, n)
        /\ \A n \in 0 .. Len(q) : Q[n] = KeptNext(q, t, Q, n)
        /\ Since(all, t) = A[Len(all)] /\ Since(q, t) = Q[Len(q)]
    BY KeptIs
  <1> HIDE DEF A, Q, d
  <1>3. 0 \in Heads
    BY <1>1, <1>2 DEF KeptNext
  <1>4. ASSUME NEW n \in Nat, n \in Heads PROVE n + 1 \in Heads
    <2> SUFFICES ASSUME n + 1 <= d PROVE A[n + 1] = <<>>
      OBVIOUS
    <2>1. A[n] = <<>> /\ n + 1 \in 0 .. Len(all) /\ (n + 1) - 1 = n
      BY <1>1, <1>4
    <2>2. all[n + 1].at < t /\ all[n + 1].at \in Int
      <3>1. n + 1 \in 1 .. d /\ n + 1 \in 1 .. Len(all)
        BY <1>1, <2>1
      <3>2. all[n + 1] \in Event
        BY <3>1
      <3> QED
        BY <3>1, <3>2 DEF OlderHead, d, Event
    <2>3. A[n + 1] = KeptNext(all, t, A, n + 1)
      BY <1>2, <2>1
    <2> QED
      BY <2>1, <2>2, <2>3 DEF KeptNext
  <1>5. Nat \subseteq Heads
    <2> HIDE DEF Heads
    <2> QED
      BY <1>3, <1>4, NaturalsByStep
  <1>6. 0 \in Tails
    <2>1. A[d] = <<>>
      BY <1>1, <1>5
    <2>2. Q[0] = <<>>
      BY <1>1, <1>2 DEF KeptNext
    <2> QED
      BY <1>1, <2>1, <2>2
  <1>7. ASSUME NEW n \in Nat, n \in Tails PROVE n + 1 \in Tails
    <2> SUFFICES ASSUME n + 1 <= Len(q) PROVE A[d + (n + 1)] = Q[n + 1]
      OBVIOUS
    <2>1. A[d + n] = Q[n] /\ d + (n + 1) \in 1 .. Len(all) /\ n + 1 \in 1 .. Len(q)
      BY <1>1, <1>7
    <2>2. all[d + (n + 1)] = q[n + 1]
      BY <2>1 DEF OlderHead, d
    <2>3. A[d + (n + 1)] = KeptNext(all, t, A, d + (n + 1)) /\ Q[n + 1] = KeptNext(q, t, Q, n + 1)
      BY <1>2, <2>1
    <2>4. (d + (n + 1)) - 1 = d + n /\ (n + 1) - 1 = n /\ d + (n + 1) # 0 /\ n + 1 # 0
      BY <1>1
    <2> QED
      BY <2>1, <2>2, <2>3, <2>4 DEF KeptNext
  <1>8. Nat \subseteq Tails
    <2> HIDE DEF Tails
    <2> QED
      BY <1>6, <1>7, NaturalsByStep
  <1> QED
    BY <1>1, <1>2, <1>8

(* Pruning cuts off a head of events older than the date it is given.          *)
LEMMA PrunedIs ==
    ASSUME NEW q \in Seq(Event), NEW t \in Int
    PROVE  \E d \in 0 .. Len(q) :
             /\ Pruned(q, t) \in Seq(Event) /\ Len(Pruned(q, t)) = Len(q) - d
             /\ \A i \in 1 .. Len(q) - d : Pruned(q, t)[i] = q[d + i]
             /\ \A i \in 1 .. d : q[i].at < t
  <1> DEFINE kept == {i \in DOMAIN q : q[i].at >= t}
             least == CHOOSE i \in kept : \A j \in kept : i <= j
  <1>1. Len(q) \in Nat /\ kept \subseteq 1 .. Len(q) /\ \A i \in 1 .. Len(q) : q[i] \in Event
    OBVIOUS
  <1>2. \A i \in 1 .. Len(q) : i \notin kept => q[i].at < t
    BY <1>1 DEF Event
  <1>3. Pruned(q, t) = IF kept = {} THEN <<>> ELSE SubSeq(q, least, Len(q))
    BY DEF Pruned, PrunedHead
  <1>4. CASE kept = {}
    <2>1. Pruned(q, t) = <<>>
      BY <1>3, <1>4
    <2>2. \A i \in 1 .. Len(q) : q[i].at < t
      BY <1>2, <1>4
    <2> WITNESS Len(q) \in 0 .. Len(q)
    <2> HIDE DEF kept
    <2> QED
      BY <1>1, <2>1, <2>2
  <1>5. CASE kept # {}
    <2>1. \E i \in kept : \A j \in kept : i <= j
      <3>1. 1 \in Int /\ Len(q) \in Int
        BY <1>1
      <3> HIDE DEF kept
      <3> QED
        BY <1>1, <1>5, <3>1, LeastOf, Zenon
    <2>2. least \in kept /\ \A j \in kept : least <= j
      BY <2>1
    <2>3. Pruned(q, t) = SubSeq(q, least, Len(q))
      BY <1>3, <1>5
    <2> HIDE DEF kept, least
    <2>4. least \in 1 .. Len(q)
      BY <1>1, <2>2
    <2>5. /\ Pruned(q, t) \in Seq(Event) /\ Len(Pruned(q, t)) = Len(q) - (least - 1)
          /\ \A i \in 1 .. Len(q) - (least - 1) : Pruned(q, t)[i] = q[(least - 1) + i]
      BY <1>1, <2>3, <2>4
    <2>6. \A i \in 1 .. least - 1 : q[i].at < t
      BY <1>1, <1>2, <2>2, <2>4
    <2>7. least - 1 \in 0 .. Len(q)
      BY <1>1, <2>4
    <2> QED
      BY <2>5, <2>6, <2>7
  <1> QED
    BY <1>4, <1>5

(* ... and so does it from what was cut before; the head only grows.           *)
LEMMA OlderHeadPruned ==
    ASSUME NEW q \in Seq(Event), NEW all \in Seq(Event), NEW t \in Int, OlderHead(q, all, t),
           NEW u \in Int, u <= t
    PROVE  Pruned(q, u) \in Seq(Event) /\ OlderHead(Pruned(q, u), all, t)
  <1> DEFINE p == Pruned(q, u)
  <1>1. PICK d \in 0 .. Len(q) :
             /\ p \in Seq(Event) /\ Len(p) = Len(q) - d
             /\ \A i \in 1 .. Len(q) - d : p[i] = q[d + i]
             /\ \A i \in 1 .. d : q[i].at < u
    BY PrunedIs
  <1> HIDE DEF p
  <1>2. Len(q) \in Nat /\ Len(all) \in Nat /\ d \in Nat /\ d <= Len(q) /\ Len(q) <= Len(all)
    BY DEF OlderHead
  <1>3. ASSUME NEW i \in 1 .. Len(p) PROVE p[i] = all[Len(all) - Len(p) + i]
    <2>1. d + i \in 1 .. Len(q) /\ p[i] = q[d + i]
      BY <1>1, <1>2
    <2>2. q[d + i] = all[Len(all) - Len(q) + (d + i)]
      BY <2>1 DEF OlderHead
    <2>3. Len(all) - Len(q) + (d + i) = Len(all) - Len(p) + i
      BY <1>1, <1>2
    <2> QED
      BY <2>1, <2>2, <2>3
  <1>4. ASSUME NEW i \in 1 .. Len(all) - Len(p) PROVE all[i].at < t
    <2>1. CASE i <= Len(all) - Len(q)
      BY <1>2, <2>1 DEF OlderHead
    <2>2. CASE i > Len(all) - Len(q)
      <3> DEFINE j == i - (Len(all) - Len(q))
      <3>1. j \in 1 .. d /\ j \in 1 .. Len(q) /\ Len(all) - Len(q) + j = i
        BY <1>1, <1>2, <2>2
      <3> HIDE DEF j
      <3>2. q[j] = all[i] /\ q[j].at < u /\ q[j] \in Event
        BY <1>1, <3>1 DEF OlderHead
      <3> QED
        BY <3>2 DEF Event
    <2> QED
      BY <1>2, <2>1, <2>2
  <1> QED
    BY <1>1, <1>2, <1>3, <1>4 DEF OlderHead, p

(* What arrives is appended to both.                                           *)
LEMMA OlderHeadGrows ==
    ASSUME NEW q \in Seq(Event), NEW all \in Seq(Event), NEW t \in Int, OlderHead(q, all, t),
           NEW e \in Event
    PROVE  OlderHead(Append(q, e), Append(all, e), t)
  <1>1. Len(q) \in Nat /\ Len(all) \in Nat /\ Len(q) <= Len(all)
    BY DEF OlderHead
  <1>2. /\ Len(Append(q, e)) = Len(q) + 1 /\ Len(Append(all, e)) = Len(all) + 1
        /\ \A i \in 1 .. Len(q) : Append(q, e)[i] = q[i]
        /\ \A i \in 1 .. Len(all) : Append(all, e)[i] = all[i]
        /\ Append(q, e)[Len(q) + 1] = e /\ Append(all, e)[Len(all) + 1] = e
    OBVIOUS
  <1>3. ASSUME NEW i \in 1 .. Len(q) + 1
        PROVE  Append(q, e)[i] = Append(all, e)[Len(all) + 1 - (Len(q) + 1) + i]
    <2>1. CASE i = Len(q) + 1
      <3>1. Len(all) + 1 - (Len(q) + 1) + i = Len(all) + 1
        BY <1>1, <2>1
      <3> QED
        BY <1>2, <2>1, <3>1
    <2>2. CASE i # Len(q) + 1
      <3>1. i \in 1 .. Len(q) /\ Len(all) - Len(q) + i \in 1 .. Len(all)
        BY <1>1, <2>2
      <3>2. Len(all) + 1 - (Len(q) + 1) + i = Len(all) - Len(q) + i
        BY <1>1
      <3>3. q[i] = all[Len(all) - Len(q) + i]
        BY <3>1 DEF OlderHead
      <3> QED
        BY <1>2, <3>1, <3>2, <3>3
    <2> QED
      BY <2>1, <2>2
  <1>4. \A i \in 1 .. Len(all) + 1 - (Len(q) + 1) : Append(all, e)[i].at < t
    <2>1. \A i \in 1 .. Len(all) + 1 - (Len(q) + 1) :
             i \in 1 .. Len(all) - Len(q) /\ i \in 1 .. Len(all)
      BY <1>1
    <2> QED
      BY <1>2, <2>1 DEF OlderHead
  <1> DEFINE p == Append(q, e)
             every == Append(all, e)
  <1>5. /\ Len(p) = Len(q) + 1 /\ Len(every) = Len(all) + 1
        /\ \A i \in 1 .. Len(q) + 1 : p[i] = every[Len(all) + 1 - (Len(q) + 1) + i]
        /\ \A i \in 1 .. Len(all) + 1 - (Len(q) + 1) : every[i].at < t
    BY <1>2, <1>3, <1>4
  <1> HIDE DEF p, every
  <1>6. Len(p) <= Len(every)
    BY <1>1, <1>5
  <1>7. \A i \in 1 .. Len(p) : p[i] = every[Len(every) - Len(p) + i]
    BY <1>5
  <1>8. \A i \in 1 .. Len(every) - Len(p) : every[i].at < t
    BY <1>5
  <1>9. OlderHead(p, every, t)
    BY <1>6, <1>7, <1>8 DEF OlderHead
  <1> QED
    BY <1>9 DEF p, every

(* What was cut off of a symbol is older than what is still asked for.          *)
FeedInv ==
    /\ now \in Int
    /\ DOMAIN queue = FeedSymbols /\ DOMAIN arrived = FeedSymbols
    /\ \A s \in FeedSymbols :
         /\ queue[s] \in Seq(Event) /\ arrived[s] \in Seq(Event)
         /\ OlderHead(queue[s], arrived[s], now - FeedLookback)

(* It holds at first: nothing has arrived.                                     *)
LEMMA FeedAtFirst == ServicesInit => FeedInv
  <1> SUFFICES ASSUME ServicesInit PROVE FeedInv
    OBVIOUS
  <1>1. now \in Int
    BY ClockInit
  <1>2. /\ queue = [s \in FeedSymbols |-> <<>>] /\ arrived = [s \in FeedSymbols |-> <<>>]
    BY DEF ServicesInit, FeedInit
  <1>3. <<>> \in Seq(Event) /\ Len(<<>>) = 0
    OBVIOUS
  <1>4. OlderHead(<<>>, <<>>, now - FeedLookback)
    BY <1>3 DEF OlderHead
  <1> QED
    BY <1>1, <1>2, <1>3, <1>4 DEF FeedInv

(* What a step of all the services is for the feed.                            *)
LEMMA FeedOrNot ==
    ASSUME [ServicesNext]_allVars
    PROVE  (FeedNext /\ now' = now) \/ UNCHANGED feedVars
  BY DEF ServicesNext, HistoryStep, CandlesStep, CacheStep, StreamStep, FeedStep,
     TimePasses, Only, allVars

(* An event is dated at most Ahead of the clock, so that pruning by its date      *)
(* cuts off nothing younger than what is asked for.                            *)
LEMMA AddKeeps ==
    ASSUME FeedInv, now' = now, NEW s \in FeedSymbols, NEW e \in Dated, AddEvent(s, e)
    PROVE  FeedInv'
  <1> DEFINE t == now - FeedLookback
             u == e.at - Retention
  <1>1. /\ FeedLookback \in Nat /\ Ahead \in Nat /\ Retention \in Nat /\ Late \in Nat
        /\ FeedLookback + Ahead <= Retention
    BY FeedAssumption
  <1>2. e \in Event /\ t \in Int /\ u \in Int /\ u <= t
    BY <1>1 DEF FeedInv, Dated, Event
  <1>3. /\ queue' = [queue EXCEPT ![s] = Append(Pruned(queue[s], u), e)]
        /\ arrived' = [arrived EXCEPT ![s] = Append(arrived[s], e)]
    BY DEF AddEvent
  <1> HIDE DEF t, u
  <1>4. /\ queue[s] \in Seq(Event) /\ arrived[s] \in Seq(Event)
        /\ OlderHead(queue[s], arrived[s], t)
    BY DEF FeedInv, t
  <1>5. Pruned(queue[s], u) \in Seq(Event) /\ OlderHead(Pruned(queue[s], u), arrived[s], t)
    BY <1>2, <1>4, OlderHeadPruned
  <1>6. /\ Append(Pruned(queue[s], u), e) \in Seq(Event) /\ Append(arrived[s], e) \in Seq(Event)
        /\ OlderHead(Append(Pruned(queue[s], u), e), Append(arrived[s], e), t)
    BY <1>2, <1>4, <1>5, OlderHeadGrows
  <1> QED
    BY <1>3, <1>6 DEF FeedInv, t

(* A reader prunes by the clock.                                              *)
LEMMA ReaderKeeps ==
    ASSUME FeedInv, now' = now, NEW s \in FeedSymbols, PruneForReader(s)
    PROVE  FeedInv'
  <1> DEFINE t == now - FeedLookback
             u == now - Retention
  <1>1. t \in Int /\ u \in Int /\ u <= t
    BY FeedAssumption DEF FeedInv
  <1>2. queue' = [queue EXCEPT ![s] = Pruned(queue[s], u)] /\ arrived' = arrived
    BY DEF PruneForReader
  <1> HIDE DEF t, u
  <1>3. Pruned(queue[s], u) \in Seq(Event) /\ OlderHead(Pruned(queue[s], u), arrived[s], t)
    BY <1>1, OlderHeadPruned DEF FeedInv, t
  <1> QED
    BY <1>2, <1>3 DEF FeedInv, t

(* Every step of the services keeps the invariant: time only makes older.        *)
LEMMA FeedStepKeeps ==
    ASSUME FeedInv, [ServicesNext]_allVars
    PROVE  FeedInv'
  <1>1. CASE UNCHANGED feedVars
    <2>1. queue' = queue /\ arrived' = arrived
      BY <1>1 DEF feedVars
    <2>2. now \in Int /\ now' \in Int /\ now <= now'
      BY ClockStep DEF FeedInv
    <2>3. ASSUME NEW s \in FeedSymbols
          PROVE  OlderHead(queue[s], arrived[s], now' - FeedLookback)
      <3> DEFINE q == queue[s]
                 all == arrived[s]
      <3>1. q \in Seq(Event) /\ all \in Seq(Event) /\ OlderHead(q, all, now - FeedLookback)
        BY DEF FeedInv
      <3>2. now - FeedLookback \in Int /\ now' - FeedLookback \in Int
            /\ now - FeedLookback <= now' - FeedLookback
        BY <2>2, FeedAssumption
      <3> HIDE DEF q, all
      <3>3. \A i \in 1 .. Len(all) - Len(q) : all[i] \in Event
        BY <3>1 DEF OlderHead
      <3>4. OlderHead(q, all, now' - FeedLookback)
        BY <3>1, <3>2, <3>3 DEF OlderHead, Event
      <3> QED
        BY <3>4 DEF q, all
    <2> QED
      BY <2>1, <2>2, <2>3 DEF FeedInv
  <1>2. CASE FeedNext /\ now' = now
    <2>1. CASE StartFeed \/ CloseFeed \/ FeedDies
      BY <1>2, <2>1 DEF StartFeed, CloseFeed, FeedDies, FeedInv
    <2>2. ASSUME NEW s \in FeedSymbols, PruneForReader(s) PROVE FeedInv'
      BY <1>2, <2>2, ReaderKeeps
    <2>3. ASSUME NEW s \in FeedSymbols, NEW e \in Dated, AddEvent(s, e) PROVE FeedInv'
      BY <1>2, <2>3, AddKeeps
    <2> QED
      BY <1>2, <2>1, <2>2, <2>3 DEF FeedNext
  <1> QED
    BY <1>1, <1>2, FeedOrNot

(* For any retention and lookback: however late or early the events are dated,    *)
(* and by whichever clock the queue is pruned, the pressure is that of all of them. *)
THEOREM NothingAskedForIsPruned == ServicesSpec => []PressureIsComplete
  <1>1. FeedInv => PressureIsComplete
    <2> SUFFICES ASSUME FeedInv, NEW s \in FeedSymbols
                 PROVE  /\ Recent(queue[s]) = Recent(arrived[s])
                        /\ Pressure(queue[s]) = Pressure(arrived[s])
      BY DEF PressureIsComplete
    <2>1. now - FeedLookback \in Int
      BY FeedAssumption DEF FeedInv
    <2>2. Recent(queue[s]) = Recent(arrived[s])
      BY <2>1, SinceOfTail DEF FeedInv, Recent
    <2> QED
      BY <2>2 DEF Pressure
  <1> QED
    BY <1>1, FeedAtFirst, FeedStepKeeps, PTL DEF ServicesSpec
=============================================================================
