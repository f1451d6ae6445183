----------------------------- MODULE TuningSets -----------------------------
(* The life of a profile tuning: POST /performance/profile-calibration/apply  *)
(* writes a pending set, the next start of the bot applies it, and the        *)
(* comparison looks at the sessions on both sides of it. The dashboard's      *)
(* requests run in threads of their own, so every access to storage of a      *)
(* request and of a start is a step.                                          *)
EXTENDS Calibration

CONSTANTS TunedSymbols,
          Seen,        \* what the tables may hold: [trades, fills, events, drawdown]
          MaxSets,     \* bound on the sets written
          MaxRuns,     \* bound on the sessions started
          NoTuning     \* a model value: None

ASSUME TuningAssumption ==
    /\ MaxSets \in Nat /\ MaxRuns \in Nat /\ NoTuning \notin Nat
    /\ \A seen \in Seen :
         /\ IsFiniteSet(seen.trades)
         /\ \A t \in seen.trades : t.id \in Int /\ t.time \in Int /\ t.pnl \in Int

VARIABLES sets,     \* profile_tuning_sets, oldest first; a version is its place
          runs,     \* paper_session_runs
          applying, \* the apply request under way: its scope, changes and baseline
          starting, \* the start under way: its scope and the pending set it read
          bot       \* what the runtime announces and what its runner uses
tuningVars == <<sets, runs, applying, starting, bot>>

Scopes == [symbol : TunedSymbols, profile : Profiles]

\* saved is the scope and version in runtime_session_state.
NoBot == [running |-> FALSE, scope |-> NoTuning, version |-> NoTuning,
          thresholds |-> <<>>, saved |-> <<NoTuning, NoTuning>>]

TuningInit ==
    /\ sets = <<>> /\ runs = {}
    /\ applying = NoTuning /\ starting = NoTuning
    /\ bot = NoBot

\* get_latest_profile_tuning_set
Versions(scope, status) ==
    {v \in DOMAIN sets : sets[v].scope = scope /\ sets[v].status = status}
Latest(scope, status) ==
    IF Versions(scope, status) = {} THEN NoTuning ELSE Max(Versions(scope, status))

\* _load_tuning_thresholds: what the configuration names, over the defaults.
Thresholds(p, config) == [t \in DOMAIN Defaults(p) |->
    IF t \in DOMAIN config THEN config[t] ELSE Defaults(p)[t]]
ThresholdsOf(scope, version) ==
    IF version = NoTuning THEN Defaults(scope.profile)
    ELSE Thresholds(scope.profile, sets[version].config)

-----------------------------------------------------------------------------
(* The apply request.                                                         *)

\* The change the user selects, all of them when none is selected.
Selections(changes) == (SUBSET DOMAIN changes) \ {{}}

\* Mutant: the suggestion is made from the thresholds in use.
BaselineDrifting(scope, changes) ==
    LET v == Latest(scope, "applied")
        base == ThresholdsOf(scope, v)
    IN [version |-> v, config |->
        [t \in DOMAIN base |-> IF t \in DOMAIN changes
            THEN base[t] + changes[t] - Defaults(scope.profile)[t] ELSE base[t]]]
Baseline(scope, changes) ==
    LET v == Latest(scope, "applied")
        base == ThresholdsOf(scope, v)
    IN [version |-> v, config |-> [t \in DOMAIN base \cup DOMAIN changes |->
            IF t \in DOMAIN changes THEN changes[t] ELSE base[t]]]

\* Refused without a recommendation to change something.
AskToApply(scope, seen) ==
    LET changes == Recommend(scope.profile, seen).changes IN
    /\ applying = NoTuning
    /\ Len(sets) < MaxSets
    /\ \E selected \in Selections(changes) :
         applying' = [scope |-> scope,
                      next |-> Baseline(scope, Restrict(changes, selected))]
    /\ UNCHANGED <<sets, runs, starting, bot>>

SupersededNever(scope) == sets
Superseded(scope) == [v \in DOMAIN sets |->
    IF sets[v].scope = scope /\ sets[v].status = "pending"
    THEN [sets[v] EXCEPT !.status = "superseded"] ELSE sets[v]]

CreateTuningSet ==
    /\ applying # NoTuning
    /\ sets' = Append(Superseded(applying.scope),
                      [scope |-> applying.scope, status |-> "pending",
                       config |-> applying.next.config,
                       baseline |-> applying.next.version])
    /\ applying' = NoTuning
    /\ UNCHANGED <<runs, starting, bot>>

-----------------------------------------------------------------------------
(* BotRuntime.start.                                                          *)

ReadPending(scope) ==
    /\ ~bot.running /\ starting = NoTuning
    /\ Cardinality(runs) < MaxRuns
    /\ starting' = [scope |-> scope, version |-> Latest(scope, "pending")]
    /\ UNCHANGED <<sets, runs, applying, bot>>

\* mark_profile_tuning_applied does not look at the status it replaces.
MarkedPendingOnly(version) == [sets EXCEPT ![version].status =
    IF @ = "pending" THEN "applied" ELSE @]
Marked(version) == [sets EXCEPT ![version].status = "applied"]

Announced(scope, version, up, saved) ==
    [running |-> up, scope |-> scope, version |-> version,
     thresholds |-> ThresholdsOf(scope, version), saved |-> saved]
Run(scope, version) ==
    [id |-> Cardinality(runs), scope |-> scope, version |-> version]

\* The pending set that was read is applied, or else the latest applied one is used.
StartSession ==
    /\ starting # NoTuning
    /\ LET chosen == IF starting.version # NoTuning THEN starting.version
                     ELSE Latest(starting.scope, "applied")
       IN /\ bot' = Announced(starting.scope, chosen, TRUE, <<starting.scope, chosen>>)
          /\ runs' = runs \cup {Run(starting.scope, chosen)}
    /\ sets' = IF starting.version = NoTuning THEN sets ELSE Marked(starting.version)
    /\ starting' = NoTuning
    /\ UNCHANGED applying

\* A write after the marking raises: the set is applied, no session ran with it.
StartFails ==
    /\ starting # NoTuning /\ starting.version # NoTuning
    /\ sets' = Marked(starting.version)
    /\ \E saved \in {bot.saved, <<starting.scope, starting.version>>} :
         bot' = Announced(starting.scope, starting.version, FALSE, saved)
    /\ starting' = NoTuning
    /\ UNCHANGED <<runs, applying>>

StopSession ==
    /\ bot.running
    /\ bot' = [bot EXCEPT !.running = FALSE]
    /\ UNCHANGED <<sets, runs, applying, starting>>

\* The backend comes back: the runner gets the thresholds of the version saved last.
RestartTuned ==
    /\ bot.saved[1] # NoTuning
    /\ applying' = NoTuning /\ starting' = NoTuning
    /\ bot' = Announced(bot.saved[1], bot.saved[2], FALSE, bot.saved)
    /\ UNCHANGED <<sets, runs>>

\* POST /bot/reset stops the bot and clears the tables; an apply request may be
\* under way. Versions are random: a cleared one is not given out again.
ResetTuning ==
    /\ starting = NoTuning
    /\ sets' = [v \in DOMAIN sets |-> [sets[v] EXCEPT !.status = "cleared"]]
    /\ runs' = {} /\ bot' = NoBot
    /\ UNCHANGED <<applying, starting>>

TuningNext ==
    \/ \E scope \in Scopes : ReadPending(scope) \/ \E seen \in Seen : AskToApply(scope, seen)
    \/ CreateTuningSet \/ StartSession \/ StartFails \/ StopSession
    \/ RestartTuned \/ ResetTuning

-----------------------------------------------------------------------------
(* GET /performance/profile-calibration/comparison.                           *)

RunsWith(scope, version) ==
    {r.id : r \in {q \in runs : q.scope = scope /\ q.version = version}}
After(scope) == RunsWith(scope, Latest(scope, "applied"))
Before(scope) == RunsWith(scope, sets[Latest(scope, "applied")].baseline)

Comparison(scope, seen) ==
    IF Latest(scope, "applied") = NoTuning \/ Before(scope) = {} \/ After(scope) = {}
    THEN [status |-> "insufficient_data"]
    ELSE [status |-> "ready",
          before |-> Metrics(Before(scope), seen), after |-> Metrics(After(scope), seen)]

-----------------------------------------------------------------------------
\* However requests and starts interleave, at most one set of a symbol and profile
\* waits for the next session: the one asked for last.
OnePendingTuning ==
    \A scope \in Scopes : Cardinality(Versions(scope, "pending")) <= 1

\* The session that runs is tuned by a set marked applied, under its own symbol and
\* profile, even when that set was superseded while the start was under way.
SessionRunsItsTuning ==
    bot.running /\ bot.version # NoTuning =>
        /\ bot.version \in Versions(bot.scope, "applied")
        /\ bot.thresholds = sets[bot.version].config

\* Applying recommendations again and again never walks the thresholds away: they
\* stay positive, and the profit taken stays beyond the loss accepted.
ThresholdsNeverDrift ==
    \A v \in DOMAIN sets : LET config == sets[v].config IN
        /\ \A t \in DOMAIN config \ {"min_order_book_imbalance"} : config[t] > 0
        /\ config.min_order_book_imbalance >= -10000
        /\ config.take_profit_atr_multiple > config.stop_loss_atr_multiple

\* A comparison never counts a session on both sides, and each side's drawdown is
\* at least what the side lost.
ComparisonAddsUp == \A scope \in Scopes, seen \in Seen :
    LET it == Comparison(scope, seen) IN
    it.status = "ready" =>
        /\ it.before.sessions \cap it.after.sessions = {}
        /\ \A side \in {it.before, it.after} :
             side.trades > 0 =>
                 side.drawdown + side.trades >= -(side.trades * side.expectancy)
=============================================================================
