---------------------------- MODULE SymbolCache ----------------------------
(* SpotSymbolService.list_symbols: a list of symbols kept for cache_ttl_seconds *)
(* behind a lock that is only taken when the list is missing, old or refused.   *)
(* A list stands for the moment it shows the exchange at.                       *)
EXTENDS Clock, Sequences

CONSTANTS Callers, TTL,
          NoList  \* a model value: the empty list, which is never served
ASSUME CacheAssumption == TTL \in Nat \ {0} /\ NoList \notin Int

VARIABLES cached,   \* _cached_symbols: the moment it shows
          stamp,    \* _last_refresh_at
          turn,     \* _lock: its holder and those that wait for it, in order
          caller    \* what each caller is at, and what it was given
cacheVars == <<cached, stamp, turn, caller>>

Moments == 0 .. MaxTime
Idle == [pc |-> "idle", refresh |-> FALSE, since |-> 0, asked |-> 0, given |-> NoList]

CacheTypeOK ==
    /\ now \in Moments
    /\ cached \in Moments \cup {NoList}
    /\ stamp \in Moments
    /\ turn \in Seq(Callers)
    /\ caller \in [Callers ->
         [pc : {"idle", "waiting", "asking", "answered"}, refresh : BOOLEAN,
          since : Moments, asked : Moments, given : Moments \cup {NoList}]]

CacheInit ==
    /\ cached = NoList /\ stamp = 0 /\ turn = <<>>
    /\ caller = [c \in Callers |-> Idle]

Servable(refresh) == ~refresh /\ cached # NoList /\ now - stamp < TTL

\* Without the lock: a fresh list is handed out, anything else queues for the lock.
\* A lock that is free is taken at once, and the second look at the list then
\* finds what the first one found.
ListSymbols(c, refresh) ==
    /\ caller[c].pc = "idle"
    /\ caller' = [caller EXCEPT ![c] =
         [pc |-> IF Servable(refresh) THEN "answered"
                 ELSE IF turn = <<>> THEN "asking" ELSE "waiting",
          refresh |-> refresh, since |-> now, asked |-> now,
          given |-> IF Servable(refresh) THEN cached ELSE NoList]]
    /\ turn' = IF Servable(refresh) THEN turn ELSE Append(turn, c)
    /\ UNCHANGED <<cached, stamp>>

\* With the lock: look again, then ask the exchange while holding it.
Holds(c) == turn # <<>> /\ Head(turn) = c

LookAgain(c) ==
    /\ Holds(c) /\ caller[c].pc = "waiting"
    /\ caller' = [caller EXCEPT ![c] =
         [pc |-> IF Servable(caller[c].refresh) THEN "answered" ELSE "asking",
          refresh |-> caller[c].refresh, since |-> caller[c].since, asked |-> now,
          given |-> IF Servable(caller[c].refresh) THEN cached ELSE NoList]]
    /\ turn' = IF Servable(caller[c].refresh) THEN Tail(turn) ELSE turn
    /\ UNCHANGED <<cached, stamp>>

\* The list that comes back is dated before the request that brought it.
StampAtAnswer(c) == now
Stamp(c) == caller[c].asked

ExchangeInfo(c, moment) ==
    /\ Holds(c) /\ caller[c].pc = "asking"
    /\ cached' = moment
    /\ stamp' = Stamp(c)
    /\ turn' = Tail(turn)
    /\ caller' = [caller EXCEPT ![c].pc = "answered", ![c].given = moment]

ExchangeFails(c) ==
    /\ Holds(c) /\ caller[c].pc = "asking"
    /\ turn' = Tail(turn)
    /\ caller' = [caller EXCEPT ![c] = Idle]
    /\ UNCHANGED <<cached, stamp>>

Return(c) ==
    /\ caller[c].pc = "answered"
    /\ caller' = [caller EXCEPT ![c] = Idle]
    /\ UNCHANGED <<cached, stamp, turn>>

Shown(c) == (caller[c].asked .. now) \cup {NoList}

CacheNext == \E c \in Callers :
    \/ \E refresh \in BOOLEAN : ListSymbols(c, refresh)
    \/ LookAgain(c)
    \/ \E m \in Shown(c) : ExchangeInfo(c, m)
    \/ ExchangeFails(c)
    \/ Return(c)

-----------------------------------------------------------------------------
\* Whoever waited, for whatever the cache held: an answer shows the exchange less
\* than TTL before the call, and after the call when a refresh was asked for.
AnswersAreFresh == \A c \in Callers :
    caller[c].pc = "answered" /\ caller[c].given # NoList =>
        IF caller[c].refresh THEN caller[c].given >= caller[c].since
                             ELSE caller[c].given > caller[c].since - TTL
=============================================================================
