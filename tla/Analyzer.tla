------------------------------ MODULE Analyzer ------------------------------
(***************************************************************************)
(* The analyzer of the trading bot (src/internal/analyzer/analyzer.go).     *)
(*                                                                         *)
(* Run spawns one process goroutine per token event. They share the "seen"  *)
(* keys and the counters in Redis, the dataset file and the bounded channel *)
(* tradeCh to the executor, and read the token's accounts over RPC under a   *)
(* six-second deadline. An action is what a goroutine does up to and with   *)
(* one Redis command or one RPC answer.                                     *)
(***************************************************************************)
EXTENDS Integers, Sequences, FiniteSets

CONSTANTS
    Events,         \* token events = process goroutines
    Mints,          \* tokens
    Liquidity,      \* pool liquidities the listener may report, in SOL
    Friction,       \* friction scores the simulation may compute, in percent
    MinLiqSOL,      \* cfg.MinLiqSOL
    GraduationGuard,\* pumpGraduationGuardSOL
    MaxFrictionPct, \* cfg.MaxFrictionPct, 0 = no limit
    Capacity,       \* capacity of tradeCh
    Faults,         \* whether Redis and RPC calls and file writes fail and deadlines pass
    RedisTries,     \* how often go-redis sends a command it gets no answer to (bound)
    MaxForgets,     \* how often a "seen" key may expire (bound)
    MaxRestarts     \* process restarts considered (bound)

ASSUME ThresholdsAssumption ==
    /\ Liquidity \subseteq Nat /\ Friction \subseteq Nat
    /\ MinLiqSOL \in Nat /\ GraduationGuard \in Nat /\ MaxFrictionPct \in Nat
ASSUME LimitsAssumption ==
    /\ Capacity \in Nat /\ MaxForgets \in Nat /\ MaxRestarts \in Nat /\ Faults \in BOOLEAN
    /\ RedisTries \in Nat \ {0}
ASSUME MintsAssumption == Mints # {}

VARIABLES
    token,      \* what the chain holds of each mint
    seen,       \* Redis keys "seen:token:{mint}", 48 h each
    scanned,    \* Redis counter "scanned"
    filtered,   \* Redis counter "filtered"
    dataset,    \* labels of the records of each event, and of those its file lost
    proc,       \* the process goroutines
    tradeCh,    \* signals on their way to the executor
    taken,      \* signals the executor has received
    dropped,    \* signals dropped at a full tradeCh
    forgets,    \* how often each seen key has expired
    restarts

redisVars == <<seen, scanned, filtered>>
signalVars == <<tradeCh, taken, dropped>>
vars == <<token, redisVars, dataset, proc, signalVars, forgets, restarts>>

-----------------------------------------------------------------------------
\* The authorities of the mint account, and whether the top two holders own more
\* than 80% of the supply.
Tokens == [freeze : BOOLEAN, mintable : BOOLEAN, rugged : BOOLEAN]

Sources == {"raydium", "pump_fun"}

\* "empty": no supply or no accounts listed, which isConcentrated takes for "spread".
HolderAnswers == {"rugged", "spread", "empty", "error"}

NewProc == [pc |-> "idle", mint |-> CHOOSE m \in Mints : TRUE, source |-> "raydium",
            liq |-> 0, expired |-> FALSE, holders |-> "waiting", symbol |-> FALSE,
            tries |-> 0]

\* The goroutines that hold the claim on their mint.
Working == {"mint", "holders", "vaults", "backoff", "assess", "send"}

VaultAttempts == 3

Init ==
    /\ token \in [Mints -> Tokens]
    /\ seen = {}
    /\ scanned = 0
    /\ filtered = 0
    /\ dataset = [e \in Events |-> <<>>]
    /\ proc = [e \in Events |-> NewProc]
    /\ tradeCh = <<>>
    /\ taken = {}
    /\ dropped = {}
    /\ forgets = [m \in Mints |-> 0]
    /\ restarts = 0

Goes(e, pc) == proc' = [proc EXCEPT ![e].pc = pc]

\* How often one Incr takes effect: a command whose answer is lost is sent again.
Counted == IF Faults THEN 0..RedisTries ELSE {1}

\* What Write makes of a record: it drops the errors of the marshaller and of the file.
Written(label, lost) == {label} \cup (IF Faults THEN {lost} ELSE {})

Labelled(e, written) ==
    \E label \in written : dataset' = [dataset EXCEPT ![e] = Append(@, label)]

\* The reject closure: the counter, then the JSONL record, then process returns.
Reject(e, reason) ==
    /\ \E n \in Counted : filtered' = filtered + n
    /\ Labelled(e, Written(reason, "lost_rejection"))
    /\ Goes(e, "done")
    /\ UNCHANGED <<token, seen, scanned, signalVars, forgets, restarts>>

Continue(e, pc) ==
    /\ Goes(e, pc)
    /\ UNCHANGED <<token, redisVars, dataset, signalVars, forgets, restarts>>

-----------------------------------------------------------------------------
\* The listener's event arrives on eventCh and gets its goroutine.
Receive(e) ==
    /\ proc[e].pc = "idle"
    /\ \E m \in Mints, src \in Sources, liq \in Liquidity :
         proc' = [proc EXCEPT ![e].pc = "dedup", ![e].mint = m, ![e].source = src,
                              ![e].liq = liq]
    /\ UNCHANGED <<token, redisVars, dataset, signalVars, forgets, restarts>>

\* The six seconds of an event have passed: from here every call under its context fails.
Deadline(e) ==
    /\ Faults
    /\ proc[e].pc \in Working \cup {"dedup"}
    /\ ~proc[e].expired
    /\ proc' = [proc EXCEPT ![e].expired = TRUE]
    /\ UNCHANGED <<token, redisVars, dataset, signalVars, forgets, restarts>>

\* Fault: the check and the mark are two commands, and another goroutine of the same
\* mint got in between.
IsNewUnmarked(e) ==
    \/ proc[e].mint \notin seen
    \/ \E a \in Events \ {e} : proc[a].mint = proc[e].mint /\ proc[a].pc = "mint"

IsNew(e) == proc[e].mint \notin seen

\* TryMarkTokenSeen answers, and "scanned" is incremented.
MarkSeen(e) ==
    /\ proc[e].pc = "dedup"
    /\ ~proc[e].expired
    /\ IF IsNew(e)
       THEN /\ seen' = seen \cup {proc[e].mint}
            /\ \E n \in Counted : scanned' = scanned + n
            /\ Goes(e, "mint")
       ELSE Goes(e, "done") /\ UNCHANGED <<seen, scanned>>
    /\ UNCHANGED <<token, filtered, dataset, signalVars, forgets, restarts>>

\* The call returns an error, sent to Redis or not, or was sent again and finds the key
\* it set itself: isNew is FALSE and process returns.
MarkFails(e) ==
    /\ proc[e].pc = "dedup"
    /\ Faults
    /\ seen' \in {seen, seen \cup {proc[e].mint}}
    /\ Goes(e, "done")
    /\ UNCHANGED <<token, scanned, filtered, dataset, signalVars, forgets, restarts>>

Graduates(e) == proc[e].source = "pump_fun" /\ proc[e].liq >= GraduationGuard

\* Fault: the mint authority of a Pump.fun token is not checked.
MintVerdictTrusting(e) ==
    LET t == token[proc[e].mint] IN
    IF t.freeze THEN "freeze_authority_set"
    ELSE IF t.mintable /\ proc[e].source # "pump_fun" THEN "mint_authority_set"
    ELSE IF proc[e].liq < MinLiqSOL THEN "insufficient_liquidity"
    ELSE IF Graduates(e) THEN "near_graduation"
    ELSE "ok"

\* The filters that need the event and the mint account only, in their order.
MintVerdict(e) ==
    LET t == token[proc[e].mint] IN
    IF t.freeze THEN "freeze_authority_set"
    ELSE IF t.mintable THEN "mint_authority_set"
    ELSE IF proc[e].liq < MinLiqSOL THEN "insufficient_liquidity"
    ELSE IF Graduates(e) THEN "near_graduation"
    ELSE "ok"

ReadMint(e) ==
    /\ proc[e].pc = "mint"
    /\ ~proc[e].expired
    /\ IF MintVerdict(e) = "ok" THEN Continue(e, "holders") ELSE Reject(e, MintVerdict(e))

ReadMintFails(e) ==
    /\ proc[e].pc = "mint"
    /\ Faults
    /\ Reject(e, "mint_fetch_error")

\* Fault: GetTokenLargestAccounts is called without the deadline and may stall for ever.
HolderOutcomesStalling(e) ==
    IF proc[e].expired THEN {}
    ELSE {IF token[proc[e].mint].rugged THEN "rugged" ELSE "spread"}

\* What isConcentrated may return.
HolderOutcomes(e) ==
    IF proc[e].expired THEN {"error"}
    ELSE {IF token[proc[e].mint].rugged THEN "rugged" ELSE "spread"}
         \cup (IF Faults THEN {"empty", "error"} ELSE {})

\* The two goroutines of steps 5 and 6 answer in either order.
ReadHolders(e) ==
    /\ proc[e].pc = "holders" /\ proc[e].holders = "waiting"
    /\ \E answer \in HolderOutcomes(e) : proc' = [proc EXCEPT ![e].holders = answer]
    /\ UNCHANGED <<token, redisVars, dataset, signalVars, forgets, restarts>>

\* The symbol comes blank at worst: from RPC under the deadline, or from an HTTP
\* client with a two-second timeout of its own.
ReadSymbol(e) ==
    /\ proc[e].pc = "holders" /\ ~proc[e].symbol
    /\ proc' = [proc EXCEPT ![e].symbol = TRUE]
    /\ UNCHANGED <<token, redisVars, dataset, signalVars, forgets, restarts>>

\* An error of the holder check is logged and passed over.
JudgeHolders(e) ==
    /\ proc[e].pc = "holders" /\ proc[e].holders # "waiting" /\ proc[e].symbol
    /\ IF proc[e].holders = "rugged"
       THEN Reject(e, "rug_concentration")
       ELSE Continue(e, IF proc[e].source = "pump_fun" THEN "assess" ELSE "vaults")

\* resolveVaults and readVaultBalances succeed.
ReadVaults(e) ==
    /\ proc[e].pc = "vaults"
    /\ ~proc[e].expired
    /\ Continue(e, "assess")

\* Fault: one attempt too many.
ReadVaultsFailsLate(e) ==
    /\ proc[e].pc = "vaults"
    /\ Faults
    /\ IF proc[e].tries < VaultAttempts
       THEN /\ proc' = [proc EXCEPT ![e].pc = "backoff", ![e].tries = @ + 1]
            /\ UNCHANGED <<token, redisVars, dataset, signalVars, forgets, restarts>>
       ELSE Reject(e, "vault_read_error")

ReadVaultsFails(e) ==
    /\ proc[e].pc = "vaults"
    /\ Faults
    /\ IF proc[e].tries + 1 < VaultAttempts
       THEN /\ proc' = [proc EXCEPT ![e].pc = "backoff", ![e].tries = @ + 1]
            /\ UNCHANGED <<token, redisVars, dataset, signalVars, forgets, restarts>>
       ELSE Reject(e, "vault_read_error")

\* The 300 ms are over, or the deadline is.
Backoff(e) ==
    /\ proc[e].pc = "backoff"
    /\ \/ Continue(e, "vaults")
       \/ proc[e].expired /\ Reject(e, "vault_read_error")

TooCostly(f) == MaxFrictionPct > 0 /\ f > MaxFrictionPct

\* Fault: the record is written after the signal is sent.
PassUnrecorded(e) == UNCHANGED dataset

PassLabels == Written("PASSED_ANALYSIS", "lost_pass")

Pass(e) == Labelled(e, PassLabels)

\* Friction is computed from what was read; a signal gets its record before it is sent.
Assess(e) ==
    /\ proc[e].pc = "assess"
    /\ \E f \in Friction :
         IF TooCostly(f)
         THEN Reject(e, "high_friction")
         ELSE /\ Pass(e)
              /\ Goes(e, "send")
              /\ UNCHANGED <<token, redisVars, signalVars, forgets, restarts>>

\* Fault: a signal that finds the channel full vanishes.
SendSilently(e) ==
    /\ proc[e].pc = "send"
    /\ tradeCh' = IF Len(tradeCh) < Capacity THEN Append(tradeCh, e) ELSE tradeCh
    /\ Goes(e, "done")
    /\ UNCHANGED <<token, redisVars, dataset, taken, dropped, forgets, restarts>>

\* The non-blocking send to tradeCh.
Send(e) ==
    /\ proc[e].pc = "send"
    /\ IF Len(tradeCh) < Capacity
       THEN tradeCh' = Append(tradeCh, e) /\ UNCHANGED dropped
       ELSE dropped' = dropped \cup {e} /\ UNCHANGED tradeCh
    /\ Goes(e, "done")
    /\ UNCHANGED <<token, redisVars, dataset, taken, forgets, restarts>>

\* The recover of process logs a panic over malformed data: the event goes unrecorded.
Panics(e) ==
    /\ Faults
    /\ proc[e].pc \in {"mint", "vaults", "assess"}
    /\ Continue(e, "done")

\* Executor.Run receives a signal and spawns executeBuy.
Take ==
    /\ tradeCh # <<>>
    /\ taken' = taken \cup {Head(tradeCh)}
    /\ tradeCh' = Tail(tradeCh)
    /\ UNCHANGED <<token, redisVars, dataset, proc, dropped, forgets, restarts>>

\* A seen key expires after 48 h, long after the goroutine that set it has returned.
Forget(m) ==
    /\ m \in seen
    /\ \A e \in Events : proc[e].mint = m => proc[e].pc \notin Working
    /\ forgets[m] < MaxForgets
    /\ seen' = seen \ {m}
    /\ forgets' = [forgets EXCEPT ![m] = @ + 1]
    /\ UNCHANGED <<token, scanned, filtered, dataset, proc, signalVars, restarts>>

\* A crash or a deploy: goroutines and the channel are gone, Redis and the file stay.
Restart ==
    /\ restarts < MaxRestarts
    /\ restarts' = restarts + 1
    /\ proc' = [e \in Events |-> IF proc[e].pc = "idle" THEN proc[e]
                                 ELSE [proc[e] EXCEPT !.pc = "done"]]
    /\ tradeCh' = <<>>
    /\ UNCHANGED <<token, redisVars, dataset, taken, dropped, forgets>>

ProcStep(e) ==
    \/ MarkSeen(e) \/ MarkFails(e) \/ ReadMint(e) \/ ReadMintFails(e)
    \/ ReadHolders(e) \/ ReadSymbol(e) \/ JudgeHolders(e)
    \/ ReadVaults(e) \/ ReadVaultsFails(e) \/ Backoff(e) \/ Assess(e) \/ Send(e)
    \/ Panics(e)

Next ==
    \/ \E e \in Events : Receive(e) \/ Deadline(e) \/ ProcStep(e)
    \/ Take
    \/ \E m \in Mints : Forget(m)
    \/ Restart

Spec == Init /\ [][Next]_vars

\* Goroutines are scheduled and deadlines pass. No RPC or Redis call is assumed to
\* answer before the deadline; once it has passed, every call returns.
Fairness ==
    \A e \in Events : WF_vars(Deadline(e)) /\ WF_vars(proc[e].expired /\ ProcStep(e))

FairSpec == Spec /\ Fairness

-----------------------------------------------------------------------------
(* Properties *)

Reasons == {"mint_fetch_error", "freeze_authority_set", "mint_authority_set",
            "insufficient_liquidity", "near_graduation", "rug_concentration",
            "vault_read_error", "high_friction"}
Labels == Reasons \cup {"PASSED_ANALYSIS", "lost_rejection", "lost_pass"}
Procs == [pc : Working \cup {"idle", "dedup", "done"}, mint : Mints, source : Sources,
          liq : Liquidity \cup {0}, expired : BOOLEAN,
          holders : HolderAnswers \cup {"waiting"}, symbol : BOOLEAN,
          tries : 0..VaultAttempts - 1]

\* Every variable has its type; a goroutine never starts a fourth vault attempt.
TypeOK ==
    /\ token \in [Mints -> Tokens]
    /\ seen \subseteq Mints
    /\ scanned \in Nat /\ filtered \in Nat
    /\ dataset \in [Events -> Seq(Labels)]
    /\ proc \in [Events -> Procs]
    /\ tradeCh \in Seq(Events) /\ taken \subseteq Events /\ dropped \subseteq Events
    /\ forgets \in [Mints -> 0..MaxForgets]
    /\ restarts \in 0..MaxRestarts

\* The event won its mint: it is being processed or has a record.
Claimed(e) == proc[e].pc \in Working \/ dataset[e] # <<>>

\* TryMarkTokenSeen "eliminates the TOCTOU race": however many events report a token at
\* once, one of them is processed and recorded for each life of the seen key.
OneVerdictPerKey ==
    \A m \in Mints :
      Cardinality({e \in Events : proc[e].mint = m /\ Claimed(e)}) <= 1 + forgets[m]

\* Two goroutines never work on one token, and a token being worked on has its key.
NoTwins ==
    /\ \A e \in Events : proc[e].pc \in Working => proc[e].mint \in seen
    /\ \A a, b \in Events :
         a # b /\ proc[a].pc \in Working /\ proc[b].pc \in Working =>
           proc[a].mint # proc[b].mint

Signalled(e) == (\E i \in 1..Len(tradeCh) : tradeCh[i] = e) \/ e \in taken \cup dropped

\* The event has its PASSED_ANALYSIS record, unless the write of it failed.
IsPassed(e) == \E label \in PassLabels : dataset[e] = <<label>>

\* A signal exists only after its PASSED_ANALYSIS record, "even if the executor crashes
\* or drops the position", or after the write of it failed unnoticed; and an event gets
\* one verdict, a rejected one no signal.
SignalsAreRecorded ==
    \A e \in Events : Len(dataset[e]) <= 1 /\ (Signalled(e) => IsPassed(e))

With(labels) == {e \in Events : \E i \in 1..Len(dataset[e]) : dataset[e][i] \in labels}

\* With no call failing, the two Redis counters, the dataset and the signals account for
\* the same tokens until a restart: every token scanned is filtered, signalled or still
\* in work.
Accounted ==
    restarts = 0 =>
      /\ scanned = filtered + Cardinality(With({"PASSED_ANALYSIS"}))
                   + Cardinality({e \in Events : proc[e].pc \in Working \ {"send"}})
      /\ Cardinality(With({"PASSED_ANALYSIS"}))
           = Cardinality({e \in Events : proc[e].pc = "send"}) + Len(tradeCh)
             + Cardinality(taken) + Cardinality(dropped)

\* No authority set, enough liquidity, not near its graduation.
Vetted(e) ==
    /\ ~token[proc[e].mint].freeze /\ ~token[proc[e].mint].mintable
    /\ proc[e].liq >= MinLiqSOL
    /\ proc[e].source = "pump_fun" => proc[e].liq < GraduationGuard

\* Whatever fails and whenever the deadline passes, the executor never receives a token
\* with an authority set, below the liquidity threshold, or near its graduation.
TakenIsVetted == \A e \in taken : Vetted(e)

\* The pc says what has been written, sent and checked for an event.
PcTellsRecord ==
    \A e \in Events :
      /\ proc[e].pc \in (Working \ {"send"}) \cup {"idle", "dedup"} => dataset[e] = <<>>
      /\ proc[e].pc = "send" => IsPassed(e)
      /\ Signalled(e) => proc[e].pc = "done"
PcTellsVetted ==
    \A e \in Events :
      proc[e].pc \in Working \ {"mint"} \/ Signalled(e) => Vetted(e)

\* The goroutines, the seen keys, the records and the signals agree: NoTwins,
\* SignalsAreRecorded and TakenIsVetted with what makes them inductive.
AnalyzerInv ==
    /\ NoTwins /\ SignalsAreRecorded /\ PcTellsRecord /\ PcTellsVetted

\* The per-token deadline "prevents goroutine leaks when RPC stalls": every process
\* goroutine returns, though no call needs ever to answer.
ProcessReturns == \A e \in Events : proc[e].pc = "dedup" ~> proc[e].pc = "done"
=============================================================================
