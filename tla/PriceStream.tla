---------------------------- MODULE PriceStream ----------------------------
(* Live prices of the scanner's cards: FuturesScannerWebSocketHeartbeatService *)
(* over BinanceWebSocketClient.messages. The symbols asked for are replaced     *)
(* under a lock around a task that reconnects for ever, unless a payload makes  *)
(* it raise. A price is represented by the time it is dated at.                 *)
EXTENDS Clock, Sequences, SequencesExt, FiniteSetsExt

CONSTANTS Listed,        \* symbols the exchange streams
          Malformed,     \* what sanitize_scanner_symbols drops
          MaxSymbols, Requests,  \* the cap, and what the dashboard asks for
          FirstDelay, MaxDelay,  \* reconnect_delay, max_reconnect_delay
          StaleAfterSeconds, Lag, \* staleness; how late a payload may be dated
          NoPrice        \* a model value
ASSUME StreamAssumption ==
    /\ \A x \in {MaxSymbols, FirstDelay, MaxDelay} : x \in Nat \ {0}
    /\ \A x \in {StaleAfterSeconds, Lag} : x \in Nat
    /\ Requests \subseteq Seq(Listed \cup Malformed)

VARIABLES active,   \* _active_symbols
          stream,   \* _task: where messages() is, and what it subscribed to
          delay,    \* backoff
          warned,   \* _stream_warning
          price     \* _cache
streamVars == <<active, stream, delay, warned, price>>

NoStream == [pc |-> "none", symbols |-> <<>>]
Running == {"connecting", "receiving", "waiting"}

StreamInit ==
    /\ active = <<>> /\ stream = NoStream /\ delay = FirstDelay
    /\ warned = FALSE
    /\ price = [s \in Listed |-> NoPrice]

Sanitized(raw) ==
    FoldLeft(LAMBDA kept, s :
                 IF s \in Malformed \/ Contains(kept, s) \/ Len(kept) >= MaxSymbols
                 THEN kept ELSE Append(kept, s),
             <<>>, raw)

\* POST live-subscriptions. The same list changes nothing; another one cancels the
\* task, waits for its end under the lock, and starts a new one.
ResubscribedTo(symbols) ==
    /\ symbols # active
    /\ active' = symbols
    /\ warned' = FALSE
    /\ stream' = IF symbols = <<>> THEN NoStream
                 ELSE [pc |-> "connecting", symbols |-> symbols]
\* (a version that forgets the warning although nothing is started)
ResubscribedForgetful(symbols) ==
    /\ active' = symbols
    /\ warned' = FALSE
    /\ stream' = IF symbols = active THEN stream
                 ELSE IF symbols = <<>> THEN NoStream
                 ELSE [pc |-> "connecting", symbols |-> symbols]
Resubscribed(symbols) == ResubscribedTo(symbols)

UpdateSubscriptions(raw) ==
    /\ Resubscribed(Sanitized(raw))
    /\ delay' = FirstDelay
    /\ UNCHANGED price

CloseStream ==
    /\ active' = <<>> /\ stream' = NoStream
    /\ UNCHANGED <<delay, warned, price>>

-----------------------------------------------------------------------------
(* messages(): connect, receive, and after an error wait and connect again.    *)

At(pc) == stream' = [stream EXCEPT !.pc = pc]

Connect ==
    /\ stream.pc = "connecting"
    /\ At("receiving") /\ delay' = FirstDelay
    /\ UNCHANGED <<active, warned, price>>

GivesUp == "ended"
AfterAnError == "waiting"

Disconnect ==
    /\ stream.pc \in {"connecting", "receiving"}
    /\ At(AfterAnError)
    /\ UNCHANGED <<active, delay, warned, price>>

Reconnect ==
    /\ stream.pc = "waiting"
    /\ At("connecting") /\ delay' = Min({2 * delay, MaxDelay})
    /\ UNCHANGED <<active, warned, price>>

\* _apply_price_payload: dated by the exchange, in the order of arrival.
Receive(s, dated) ==
    /\ stream.pc = "receiving" /\ Contains(stream.symbols, s)
    /\ price' = [price EXCEPT ![s] = dated]
    /\ warned' = FALSE
    /\ UNCHANGED <<active, stream, delay>>

ReceiveSome(s) == \E dated \in Max({0, now - Lag}) .. now : Receive(s, dated)

\* A payload the service cannot look into: _run notes it, and the task ends.
StreamDies ==
    /\ stream.pc = "receiving"
    /\ At("ended") /\ warned' = TRUE
    /\ UNCHANGED <<active, delay, price>>

StreamNext ==
    \/ \E raw \in Requests : UpdateSubscriptions(raw)
    \/ CloseStream
    \/ Connect \/ Disconnect \/ Reconnect \/ StreamDies
    \/ \E s \in Listed : ReceiveSome(s)

-----------------------------------------------------------------------------
(* GET live-prices: the stream's price while it is fresh, else a REST price     *)
(* (mark, or last where there is no mark), else the old one, marked as old.     *)

FreshOnStream(s) == price[s] # NoPrice /\ now - price[s] <= StaleAfterSeconds
RestPrice(s, marks, lasts) == s \in marks \cup lasts

LivePrice(s, marks, lasts) ==
    IF FreshOnStream(s) THEN [source |-> "websocket", stale |-> FALSE]
    ELSE IF RestPrice(s, marks, lasts) THEN [source |-> "rest", stale |-> FALSE]
    ELSE IF price[s] # NoPrice THEN [source |-> "cache", stale |-> TRUE]
    ELSE [source |-> "unavailable", stale |-> TRUE]

-----------------------------------------------------------------------------
\* However requests, errors and shutdown interleave: a task that runs serves the
\* symbols asked for last, and if there is none for them the cards say so.
StreamServesOrWarns ==
    /\ stream.pc \in Running => stream.symbols = active
    /\ active # <<>> /\ stream.pc \notin Running => warned

\* Symbols that are asked for get a price, through any number of reconnects and
\* changes of the list, or the warning is raised.
PricesArrive ==
    active # <<>> ~> (warned \/ \A s \in Listed : Contains(active, s) => price[s] # NoPrice)
=============================================================================
