--------------------------- MODULE PipelineProofs ---------------------------
(***************************************************************************)
(* Theorems about Pipeline, for any number of events, tokens, goroutines,    *)
(* expiries and restarts, with every call failing at will: the composition   *)
(* behaves as the analyzer and as the executor, what the analyzer promises   *)
(* holds of what the executor buys, and its seen keys keep the buys of a     *)
(* token apart.                                                            *)
(***************************************************************************)
EXTENDS Pipeline, HoldingProofs

AP == INSTANCE AnalyzerProofs WITH Events <- Buys

-----------------------------------------------------------------------------
(* The two parts *)

\* Analyzer reached through AnalyzerProofs is Analyzer.
LEMMA SameVars == A!vars = AP!vars
BY DEF A!vars, AP!vars, A!redisVars, AP!redisVars, A!signalVars, AP!signalVars

LEMMA SameInit == A!Init <=> AP!Init
BY DEF A!Init, AP!Init, A!Tokens, AP!Tokens, A!NewProc, AP!NewProc

LEMMA SameSteps ==
    ASSUME NEW e \in Buys
    PROVE  /\ A!Receive(e) <=> AP!Receive(e)
           /\ A!Deadline(e) <=> AP!Deadline(e)
           /\ A!ProcStep(e) <=> AP!ProcStep(e)
<1> USE DEF A!redisVars, AP!redisVars, A!signalVars, AP!signalVars, A!Goes, AP!Goes,
            A!Counted, AP!Counted, A!Written, AP!Written, A!Labelled, AP!Labelled, A!Reject,
            AP!Reject,
            A!Continue, AP!Continue, A!Working, AP!Working
<1>1. A!Receive(e) <=> AP!Receive(e)
  BY DEF A!Receive, AP!Receive, A!Sources, AP!Sources
<1>2. A!Deadline(e) <=> AP!Deadline(e)
  BY DEF A!Deadline, AP!Deadline
<1>3. (A!MarkSeen(e) <=> AP!MarkSeen(e)) /\ (A!MarkFails(e) <=> AP!MarkFails(e))
  BY DEF A!MarkSeen, AP!MarkSeen, A!MarkFails, AP!MarkFails, A!IsNew, AP!IsNew
<1>4. (A!ReadMint(e) <=> AP!ReadMint(e)) /\ (A!ReadMintFails(e) <=> AP!ReadMintFails(e))
  BY DEF A!ReadMint, AP!ReadMint, A!ReadMintFails, AP!ReadMintFails, A!MintVerdict,
         AP!MintVerdict, A!Graduates, AP!Graduates
<1>5. /\ A!ReadHolders(e) <=> AP!ReadHolders(e)
      /\ A!ReadSymbol(e) <=> AP!ReadSymbol(e)
      /\ A!JudgeHolders(e) <=> AP!JudgeHolders(e)
  BY DEF A!ReadHolders, AP!ReadHolders, A!ReadSymbol, AP!ReadSymbol, A!JudgeHolders,
         AP!JudgeHolders, A!HolderOutcomes, AP!HolderOutcomes
<1>6. /\ A!ReadVaults(e) <=> AP!ReadVaults(e)
      /\ A!ReadVaultsFails(e) <=> AP!ReadVaultsFails(e)
      /\ A!Backoff(e) <=> AP!Backoff(e)
  BY DEF A!ReadVaults, AP!ReadVaults, A!ReadVaultsFails, AP!ReadVaultsFails, A!Backoff,
         AP!Backoff, A!VaultAttempts, AP!VaultAttempts
<1>7. (A!Assess(e) <=> AP!Assess(e)) /\ (A!Send(e) <=> AP!Send(e))
  BY DEF A!Assess, AP!Assess, A!Send, AP!Send, A!TooCostly, AP!TooCostly, A!Pass, AP!Pass,
         A!PassLabels, AP!PassLabels
<1>8. A!Panics(e) <=> AP!Panics(e)
  BY DEF A!Panics, AP!Panics
<1> QED
  BY <1>1, <1>2, <1>3, <1>4, <1>5, <1>6, <1>7, <1>8 DEF A!ProcStep, AP!ProcStep

LEMMA SameEnvironment ==
    /\ A!Take <=> AP!Take
    /\ A!Restart <=> AP!Restart
    /\ \A m \in Mints : A!Forget(m) <=> AP!Forget(m)
BY DEF A!Take, AP!Take, A!Restart, AP!Restart, A!Forget, AP!Forget, A!redisVars,
       AP!redisVars, A!signalVars, AP!signalVars, A!Working, AP!Working

\* A step of the composition is a step of the analyzer, or one that leaves it alone.
LEMMA StepsAnalyze == [PipelineNext]_pipelineVars => [AP!Next]_AP!vars
<1> SUFFICES ASSUME [PipelineNext]_pipelineVars PROVE [AP!Next]_AP!vars
  OBVIOUS
<1>1. ASSUME NEW e \in Buys, Analyze(e) PROVE AP!Next
  BY <1>1, SameSteps DEF Analyze, AP!Next
<1>2. CASE Deliver
  BY <1>2, SameEnvironment DEF Deliver, AP!Next
<1>3. ASSUME NEW m \in Mints, Expire(m) PROVE AP!Next
  BY <1>3, SameEnvironment DEF Expire, AP!Next
<1>4. CASE Execute
  BY <1>4 DEF Execute, analyzerVars, AP!vars, AP!redisVars, AP!signalVars
<1>5. CASE RestartBoth
  BY <1>5, SameEnvironment DEF RestartBoth, AP!Next
<1>6. CASE UNCHANGED pipelineVars
  BY <1>6 DEF pipelineVars, analyzerVars, AP!vars, AP!redisVars, AP!signalVars
<1> QED
  BY <1>1, <1>2, <1>3, <1>4, <1>5, <1>6 DEF PipelineNext

\* A step of the composition is a step of the executor, or one that leaves it alone.
LEMMA StepsExecute == [PipelineNext]_pipelineVars => [Next]_vars
<1> SUFFICES ASSUME [PipelineNext]_pipelineVars PROVE [Next]_vars
  OBVIOUS
<1>1. CASE UNCHANGED <<executorVars, restarts>>
  BY <1>1 DEF executorVars, vars
<1>2. CASE Execute
  BY <1>2 DEF Execute, Next
<1>3. CASE RestartBoth
  BY <1>3 DEF RestartBoth, Next
<1>4. CASE UNCHANGED pipelineVars
  BY <1>4 DEF pipelineVars, executorVars, vars
<1> QED
  BY <1>1, <1>2, <1>3, <1>4 DEF PipelineNext, Analyze, Deliver, Expire

\* Seen from the analyzer, the executor and the seen keys that outlive its buys are just a
\* receiver: the pipeline behaves as Analyzer says (Run, process).
THEOREM PipelineAnalyzes == PipelineSpec => AP!Spec
<1>1. PipelineInit => AP!Init
  BY SameInit DEF PipelineInit
<1> QED
  BY <1>1, StepsAnalyze, PTL DEF PipelineSpec, AP!Spec

\* Seen from the executor, the analyzer is just a source of signals: the pipeline behaves
\* as Executor says, whose theorems hold of it.
THEOREM PipelineExecutes == PipelineSpec => Spec
<1>1. PipelineInit => Init
  BY DEF PipelineInit
<1> QED
  BY <1>1, StepsExecute, PTL DEF PipelineSpec, Spec

\* What holds of the analyzer holds of it here.
LEMMA PipelineKeeps == PipelineSpec => [](AP!TypeOK /\ AP!AnalyzerInv)
<1>1. AP!Init => AP!TypeOK /\ AP!AnalyzerInv
  BY AnalyzerAssumption, BoundsAssumption, AP!InitType, AP!InitKeeps
<1>2. AP!TypeOK /\ AP!AnalyzerInv /\ [AP!Next]_AP!vars => AP!TypeOK' /\ AP!AnalyzerInv'
  BY AnalyzerAssumption, BoundsAssumption, AP!NextType, AP!NextKeeps
<1> QED
  BY <1>1, <1>2, PipelineAnalyzes, PTL DEF AP!Spec

-----------------------------------------------------------------------------
(* What the executor works on *)

\* Whatever the executor works on, or has worked on, came as a signal.
CameAsSignals ==
    /\ \A b \in Buys :
         buy[b].pc # "idle" \/ bundle[b].state # "none" \/ pos[b].status # "absent" => b \in taken
    /\ \A m \in Mints : positions[m] # None => positions[m] \in taken
    /\ \A c \in Checks : check[c].pos # None => check[c].pos \in taken
    /\ \A s \in Sells : sell[s].pos # None => sell[s].pos \in taken

LEMMA BuysCame ==
    ASSUME TypeOK, CameAsSignals, UNCHANGED taken, NEW b \in Buys, b \in taken, BuyStep(b)
    PROVE  CameAsSignals'
<1>1. \A a \in Buys \ {b} : buy'[a] = buy[a] /\ bundle'[a] = bundle[a] /\ pos'[a] = pos[a]
  BY DEF TypeOK, MemoryOK, ThreadsOK, ChainOK, BuyStep, BuyGate, BuyLookup, BuyBuildFails,
         BuyBuilt, BuyReport, BuyShowRatio, BuyInsert, BuyPersist, BuyPublish, BuyGoes,
         memVars, chainVars
<1>2. \A m \in Mints : positions'[m] \in {positions[m], b}
  BY DEF TypeOK, MemoryOK, BuyStep, BuyGate, BuyLookup, BuyBuildFails, BuyBuilt, BuyReport,
         BuyShowRatio, BuyInsert, BuyPersist, BuyPublish, memVars
<1>3. UNCHANGED <<check, sell>>
  BY DEF BuyStep, BuyGate, BuyLookup, BuyBuildFails, BuyBuilt, BuyReport, BuyShowRatio,
         BuyInsert, BuyPersist, BuyPublish
<1> QED
  BY <1>1, <1>2, <1>3 DEF CameAsSignals

LEMMA ChecksCame ==
    ASSUME TypeOK, CameAsSignals, UNCHANGED taken, NEW c \in Checks, CheckStep(c)
    PROVE  CameAsSignals'
<1> DEFINE p == check[c].pos
<1>1. UNCHANGED <<positions, buy>>
  BY DEF CheckStep, CheckClosing, CheckOpen, CheckReadFails, CheckStale, CheckHold, CheckClaim,
         CheckGauge, CheckReturns, Observe, memVars
<1>2. \A a \in Checks : check'[a].pos \in {check[a].pos, None}
  <2>1. check \in [Checks -> Checkers \cup {NewCheck}]
    BY DEF TypeOK, ThreadsOK
  <2>2. \/ check' = [check EXCEPT ![c] = NewCheck]
        \/ check' = [check EXCEPT ![c].pc = "read", ![c].elapsed = pos[p].age]
        \/ check' = [check EXCEPT ![c].pc = "gauge", ![c].elapsed = 0]
    BY DEF CheckStep, CheckClosing, CheckOpen, CheckReadFails, CheckStale, CheckHold,
           CheckClaim, CheckGauge, CheckReturns, Observe
  <2>3. check'[c].pos \in {p, None} /\ \A a \in Checks \ {c} : check'[a] = check[a]
    BY <2>1, <2>2 DEF Checkers, NewCheck
  <2> QED
    BY <2>3
<1>3. CASE CheckHold(c) \/ \E s \in Sells : CheckClaim(c, s)
  <2>1. p \in Buys /\ p \in taken
    <3>1. check[c].pc = "read"
      BY <1>3 DEF CheckHold, CheckClaim, Observe
    <3>2. p \in Buys
      BY <3>1, CheckPos DEF TypeOK
    <3> QED
      BY <3>2, NoneAssumption DEF CameAsSignals
  <2>2. \A b \in Buys \ {p} : pos'[b] = pos[b]
    BY <1>3 DEF TypeOK, MemoryOK, CheckHold, CheckClaim, Observe
  <2>3. /\ \A b \in Buys : bundle'[b] = bundle[b]
        /\ \A s \in Sells : sell'[s].pos \in {sell[s].pos, p}
    BY <1>3, ThreadsAssumption
       DEF TypeOK, ChainOK, ThreadsOK, CheckHold, CheckClaim, Spawned
  <2> QED
    BY <1>1, <1>2, <2>1, <2>2, <2>3 DEF CameAsSignals
<1>4. CASE ~(CheckHold(c) \/ \E s \in Sells : CheckClaim(c, s))
  <2>1. UNCHANGED <<pos, bundle, sell>>
    BY <1>4 DEF CheckStep, CheckClosing, CheckOpen, CheckReadFails, CheckStale, CheckGauge,
                CheckReturns, memVars, chainVars
  <2> QED
    BY <1>1, <1>2, <2>1 DEF CameAsSignals
<1> QED
  BY <1>3, <1>4

LEMMA SellsCame ==
    ASSUME TypeOK, CameAsSignals, UNCHANGED taken, NEW s \in Sells, SellStep(s)
    PROVE  CameAsSignals'
<1> DEFINE p == sell[s].pos
<1>1. p \in Buys /\ p \in taken /\ sell[s] \in Sellers
  <2>1. sell[s].pc # "idle"
    BY DEF SellStep, SellClaim, SellBuildFails, SellPanics, SellBuilt, SellLanded, SellMissed, CloseSold,
           CloseUnmap, CloseUnsave, CloseBook, CloseRecord
  <2> QED
    BY <2>1, SellPos, NoneAssumption DEF TypeOK, CameAsSignals
<1>2. UNCHANGED <<buy, check>>
  BY DEF SellStep, SellClaim, SellBuildFails, SellPanics, SellBuilt, SellLanded, SellMissed, CloseSold,
         CloseUnmap, CloseUnsave, CloseBook, CloseRecord, Reverts
<1>3. \A b \in Buys \ {p} : pos'[b] = pos[b]
  BY DEF TypeOK, MemoryOK, SellStep, SellClaim, SellBuildFails, SellPanics, SellBuilt, SellLanded,
         SellMissed, CloseSold, CloseUnmap, CloseUnsave, CloseBook, CloseRecord, Reverts, memVars
<1>4. \A b \in Buys : bundle'[b] = bundle[b]
  BY ThreadsAssumption
     DEF TypeOK, ChainOK, SellStep, SellClaim, SellBuildFails, SellPanics, SellBuilt, SellLanded,
         SellMissed, CloseSold, CloseUnmap, CloseUnsave, CloseBook, CloseRecord, Reverts,
         chainVars
<1>5. \A m \in Mints : positions'[m] \in {positions[m], None}
  BY DEF TypeOK, MemoryOK, SellStep, SellClaim, SellBuildFails, SellPanics, SellBuilt, SellLanded,
         SellMissed, CloseSold, CloseUnmap, CloseUnsave, CloseBook, CloseRecord, Reverts, memVars
<1>6. \A t \in Sells : sell'[t].pos \in {sell[t].pos, None}
  <2>1. sell \in [Sells -> Sellers \cup {NewSell}]
    BY DEF TypeOK, ThreadsOK
  <2>2. CASE sell' = [sell EXCEPT ![s] = NewSell]
    BY <2>1, <2>2 DEF NewSell
  <2>3. ASSUME NEW pc, sell' = [sell EXCEPT ![s].pc = pc]
        PROVE  \A t \in Sells : sell'[t].pos = sell[t].pos
    BY <1>1, <2>1, <2>3 DEF Sellers
  <2>4. ASSUME NEW pc, NEW delta, sell' = [sell EXCEPT ![s].pc = pc, ![s].delta = delta]
        PROVE  \A t \in Sells : sell'[t].pos = sell[t].pos
    BY <1>1, <2>1, <2>4 DEF Sellers
  <2> QED
    BY <2>2, <2>3, <2>4
       DEF SellStep, SellClaim, SellBuildFails, SellPanics, SellBuilt, SellLanded, SellMissed, CloseSold,
           CloseUnmap, CloseUnsave, CloseBook, CloseRecord, Reverts, SellReturns, SellGoes
<1> QED
  BY <1>1, <1>2, <1>3, <1>4, <1>5, <1>6 DEF CameAsSignals

LEMMA KillsCame ==
    ASSUME TypeOK, CameAsSignals, UNCHANGED taken, NEW h \in Kills, KillStep(h)
    PROVE  CameAsSignals'
<1>1. UNCHANGED <<positions, pos, buy, check>>
  BY DEF KillStep, KillArm, KillArmFails, KillSnapshot, KillReturn, KillSkip, KillDump, memVars
<1>2. \A b \in Buys : bundle'[b] = bundle[b]
  BY ThreadsAssumption
     DEF TypeOK, ChainOK, KillStep, KillArm, KillArmFails, KillSnapshot, KillReturn, KillSkip,
         KillDump, chainVars
<1>3. \A t \in Sells : sell'[t].pos = sell[t].pos \/ \E m \in Mints : sell'[t].pos = positions[m]
  <2>1. ASSUME NEW m \in Mints, NEW s \in Sells, KillDump(h, m, s)
        PROVE  \A t \in Sells : sell'[t].pos \in {sell[t].pos, positions[m]}
    BY <2>1 DEF TypeOK, ThreadsOK, KillDump, Spawned
  <2> QED
    BY <2>1 DEF KillStep, KillArm, KillArmFails, KillSnapshot, KillReturn, KillSkip
<1> QED
  BY <1>1, <1>2, <1>3 DEF CameAsSignals

LEMMA ExecuteCame == ASSUME TypeOK, CameAsSignals, Execute PROVE CameAsSignals'
<1>0. UNCHANGED taken
  BY DEF Execute, analyzerVars
<1>1. ASSUME NEW b \in Buys, Elapse(b) PROVE CameAsSignals'
  <2>1. /\ \A a \in Buys : pos'[a].status = pos[a].status
        /\ UNCHANGED <<positions, buy, bundle, check, sell>>
    BY <1>1 DEF TypeOK, MemoryOK, Positions, Elapse, threadVars, chainVars
  <2> QED
    BY <1>0, <2>1 DEF CameAsSignals
<1>2. CASE TickStep
  <2>1. UNCHANGED <<positions, pos, buy, bundle, sell>>
    BY <1>2 DEF TickStep, TickStart, TickSnapshot, TickSkip, TickSpawn, memVars, chainVars
  <2>2. \A c \in Checks :
          check'[c].pos = check[c].pos \/ \E m \in Mints : check'[c].pos = positions[m]
    <3>1. ASSUME NEW m \in Mints, NEW c \in Checks, TickSpawn(m, c)
          PROVE  \A a \in Checks : check'[a].pos \in {check[a].pos, positions[m]}
      BY <3>1 DEF TypeOK, ThreadsOK, TickSpawn
    <3> QED
      BY <1>2, <3>1 DEF TickStep, TickStart, TickSnapshot, TickSkip
  <2> QED
    BY <1>0, <2>1, <2>2 DEF CameAsSignals
<1>3. ASSUME NEW t \in Buys \cup Sells, BundleSettles(t) PROVE CameAsSignals'
  <2>1. /\ bundle[t].state = "pending"
        /\ \A b \in Buys \ {t} : bundle'[b] = bundle[b]
        /\ UNCHANGED <<positions, pos, buy, check, sell>>
    BY <1>3 DEF TypeOK, ChainOK, BundleSettles, memVars, threadVars
  <2> QED
    BY <1>0, <2>1 DEF CameAsSignals
<1>4. CASE Disarm
  BY <1>0, <1>4 DEF Disarm, CameAsSignals, memVars, threadVars, chainVars
<1> QED
  BY <1>0, <1>1, <1>2, <1>3, <1>4, BuysCame, ChecksCame, SellsCame, KillsCame DEF Execute

LEMMA StepsCame ==
    ASSUME TypeOK, CameAsSignals, [PipelineNext]_pipelineVars PROVE CameAsSignals'
<1>1. CASE UNCHANGED executorVars /\ taken \subseteq taken'
  BY <1>1 DEF executorVars, memVars, threadVars, chainVars, CameAsSignals
<1>2. ASSUME NEW e \in Buys, Analyze(e) PROVE UNCHANGED executorVars /\ taken \subseteq taken'
  BY <1>2 DEF Analyze, A!Receive, A!Deadline, A!ProcStep, A!MarkSeen, A!MarkFails, A!ReadMint,
              A!ReadMintFails, A!ReadHolders, A!ReadSymbol, A!JudgeHolders, A!ReadVaults,
              A!ReadVaultsFails, A!Backoff, A!Assess, A!Send, A!Panics, A!Reject, A!Continue,
              A!signalVars
<1>3. CASE Deliver
  BY <1>1, <1>3 DEF Deliver, A!Take
<1>4. ASSUME NEW m \in Mints, Expire(m) PROVE CameAsSignals'
  BY <1>1, <1>4 DEF Expire, A!Forget, A!signalVars
<1>5. CASE RestartBoth
  BY <1>5 DEF RestartBoth, Restart, A!Restart, CameAsSignals, Absent, NewCheck, NewSell,
              chainVars
<1>6. CASE UNCHANGED pipelineVars
  BY <1>1, <1>6 DEF pipelineVars, analyzerVars
<1> QED
  BY <1>1, <1>2, <1>3, <1>4, <1>5, <1>6, ExecuteCame DEF PipelineNext

\* Nothing is bought, held or waited for that did not pass the filters and get its record
\* first, whatever fails and whenever the process restarts (process, executeBuy).
THEOREM BuysAreVetted == PipelineSpec => []BoughtIsVetted
<1>1. PipelineInit => CameAsSignals
  BY DEF PipelineInit, Init, CameAsSignals, NewBuy, NoBundle, Absent, NewCheck, NewSell
<1>2. TypeOK /\ CameAsSignals /\ [PipelineNext]_pipelineVars => CameAsSignals'
  BY StepsCame
<1>3. CameAsSignals /\ AP!TypeOK /\ AP!AnalyzerInv => BoughtIsVetted
  BY AnalyzerAssumption, BoundsAssumption, AP!InvVets DEF CameAsSignals, AP!AnalyzerInv, AP!SignalsAreRecorded, AP!TakenIsVetted,
         BoughtIsVetted, AP!Signalled, AP!Vetted, A!Vetted, AP!IsPassed, A!IsPassed,
         AP!PassLabels, A!PassLabels, AP!Written, A!Written
<1>4. PipelineSpec => []TypeOK
  BY PipelineExecutes, TypeCorrect
<1> QED
  BY <1>1, <1>2, <1>3, <1>4, PipelineKeeps, PTL DEF PipelineSpec

-----------------------------------------------------------------------------
(* One signal of a token at a time *)

\* The finite sets of AnalyzerProofs are those of FiniteSets.
LEMMA SameSets ==
    \A S : (AP!IsFiniteSet(S) <=> IsFiniteSet(S)) /\ AP!Cardinality(S) = Cardinality(S)
BY DEF AP!IsFiniteSet, IsFiniteSet, AP!Cardinality, Cardinality

\* A signal on its way has its key and its token to itself: no other signal and no
\* goroutine is about the same mint.
OwnTheirMints ==
    /\ \A b \in Buys : proc[b].pc # "idle" => proc[b].mint = Mint(b)
    /\ \A b \in Buys : OnItsWay(b) => Mint(b) \in seen
    /\ \A a, b \in Buys : OnItsWay(a) /\ proc[b].pc \in AP!Working => Mint(a) # Mint(b)
    /\ SignalsComeAlone

\* Nothing comes to be on its way, nothing starts work, no key is lost.
LEMMA FewerOnTheirWay ==
    ASSUME OwnTheirMints, seen \subseteq seen',
           \A b \in Buys :
             /\ OnItsWay(b)' => OnItsWay(b)
             /\ proc'[b].pc # "idle" => proc[b].pc # "idle" /\ proc'[b].mint = proc[b].mint
             /\ proc'[b].pc \in AP!Working => proc[b].pc \in AP!Working
    PROVE  OwnTheirMints'
<1>1. \A b \in Buys : proc'[b].pc # "idle" => proc'[b].mint = Mint(b)
  BY DEF OwnTheirMints
<1> QED
  BY <1>1 DEF OwnTheirMints, SignalsComeAlone, Mint

LEMMA ProcOwns ==
    ASSUME AP!TypeOK, AP!AnalyzerInv, OwnTheirMints, NEW e \in Buys, AP!ProcStep(e),
           UNCHANGED executorVars
    PROVE  OwnTheirMints'
<1>1. AP!Effect(e) /\ proc[e].pc # "idle"
  BY AnalyzerAssumption, BoundsAssumption, AP!ProcEffect DEF AP!Effect, AP!Working
<1>2. \A b \in Buys : proc'[b].mint = proc[b].mint /\ (proc'[b].pc # "idle" => proc[b].pc # "idle")
  BY <1>1 DEF AP!Effect
<1>3. seen \subseteq seen' /\ taken' = taken /\ buy' = buy
  BY <1>1 DEF AP!Effect, executorVars, threadVars
<1>4. CASE UNCHANGED tradeCh
  <2>1. \A b \in Buys : OnItsWay(b)' <=> OnItsWay(b)
    BY <1>3, <1>4 DEF OnItsWay
  <2>2. CASE proc'[e].pc \in AP!Working => proc[e].pc \in AP!Working
    BY <1>1, <1>2, <1>3, <2>1, <2>2, FewerOnTheirWay DEF AP!Effect
  <2>3. CASE proc[e].pc = "dedup" /\ proc[e].mint \notin seen /\ proc[e].mint \in seen'
    <3>1. \A b \in Buys : OnItsWay(b) => Mint(b) # Mint(e)
      BY <2>3 DEF OwnTheirMints
    <3> QED
      BY <1>1, <1>2, <1>3, <2>1, <3>1 DEF AP!Effect, OwnTheirMints, SignalsComeAlone, Mint
  <2> QED
    BY <1>1, <2>2, <2>3 DEF AP!Effect, AP!Working
<1>5. CASE tradeCh' = Append(tradeCh, e) /\ proc[e].pc = "send" /\ proc'[e].pc = "done"
  <2>0. /\ proc[e].pc \in AP!Working /\ proc'[e].pc \notin AP!Working
        /\ \A b \in Buys \ {e} : proc'[b] = proc[b]
    BY <1>1, <1>5 DEF AP!Effect, AP!Working
  <2>1. ASSUME NEW b \in Buys, b # e PROVE OnItsWay(b)' => OnItsWay(b)
    <3>1. tradeCh \in Seq(Buys)
      BY DEF AP!TypeOK
    <3>2. ASSUME NEW i \in DOMAIN tradeCh', tradeCh'[i] = b
          PROVE  i \in DOMAIN tradeCh /\ tradeCh[i] = b
      BY <1>5, <2>1, <3>1, <3>2
    <3> QED
      BY <1>3, <3>2 DEF OnItsWay
  <2>2. Mint(e) \in seen /\ \A b \in Buys \ {e} : proc[b].pc \in AP!Working => Mint(b) # Mint(e)
    <3>1. \A b \in Buys : proc[b].pc \in AP!Working => proc[b].mint = Mint(b)
      BY DEF OwnTheirMints, AP!Working
    <3> QED
      BY <2>0, <3>1 DEF AP!AnalyzerInv, AP!NoTwins
  <2>3. \A a \in Buys : OnItsWay(a) => Mint(a) # Mint(e)
    BY <2>0 DEF OwnTheirMints
  <2>4. \A b \in Buys : proc'[b].pc # "idle" => proc'[b].mint = Mint(b)
    BY <1>2 DEF OwnTheirMints
  <2>5. \A b \in Buys : OnItsWay(b)' => Mint(b) \in seen'
    BY <1>3, <2>1, <2>2 DEF OwnTheirMints
  <2>6. ASSUME NEW a \in Buys, NEW b \in Buys, OnItsWay(a)', proc'[b].pc \in AP!Working
        PROVE  Mint(a) # Mint(b)
    BY <2>0, <2>1, <2>2, <2>6 DEF OwnTheirMints
  <2>7. ASSUME NEW a \in Buys, NEW b \in Buys, OnItsWay(a)', OnItsWay(b)', a # b
        PROVE  Mint(a) # Mint(b)
    BY <2>1, <2>3, <2>7 DEF OwnTheirMints, SignalsComeAlone
  <2> QED
    BY <2>4, <2>5, <2>6, <2>7 DEF OwnTheirMints, SignalsComeAlone, Mint
<1> QED
  BY <1>1, <1>4, <1>5 DEF AP!Effect

LEMMA EnvironmentOwns ==
    ASSUME TypeOK, AP!TypeOK, AP!AnalyzerInv, OwnTheirMints,
           \/ \E e \in Buys : Analyze(e) /\ ~A!ProcStep(e)
           \/ Deliver \/ (\E m \in Mints : Expire(m)) \/ Execute \/ RestartBoth
           \/ UNCHANGED pipelineVars
    PROVE  OwnTheirMints'
<1>1. ASSUME NEW e \in Buys, A!Receive(e), proc'[e].mint = Mint(e), UNCHANGED executorVars
      PROVE  OwnTheirMints'
  <2>1. PICK m \in Mints, src \in A!Sources, liq \in Liquidity :
          proc' = [proc EXCEPT ![e].pc = "dedup", ![e].mint = m, ![e].source = src,
                               ![e].liq = liq]
    BY <1>1 DEF A!Receive
  <2>2. /\ \A b \in Buys \ {e} : proc'[b] = proc[b]
        /\ proc'[e].pc = "dedup"
    BY <2>1 DEF AP!TypeOK, AP!Procs
  <2>3. UNCHANGED <<seen, taken, tradeCh, buy>>
    BY <1>1 DEF A!Receive, A!redisVars, A!signalVars, executorVars, threadVars
  <2>4. \A b \in Buys : OnItsWay(b)' <=> OnItsWay(b)
    BY <2>3 DEF OnItsWay
  <2>5. "dedup" \notin AP!Working
    BY DEF AP!Working
  <2> QED
    BY <1>1, <2>2, <2>3, <2>4, <2>5 DEF OwnTheirMints, SignalsComeAlone, Mint
<1>2. ASSUME NEW e \in Buys, A!Deadline(e), UNCHANGED executorVars PROVE OwnTheirMints'
  <2>1. \A a \in Buys : proc'[a].pc = proc[a].pc /\ proc'[a].mint = proc[a].mint
    BY <1>2 DEF A!Deadline, AP!TypeOK, AP!Procs
  <2>2. UNCHANGED <<seen, taken, tradeCh, buy>>
    BY <1>2 DEF A!Deadline, A!redisVars, A!signalVars, executorVars, threadVars
  <2> QED
    BY <2>1, <2>2, FewerOnTheirWay DEF OnItsWay
<1>3. CASE Deliver
  <2>1. /\ tradeCh \in Seq(Buys) /\ tradeCh # <<>>
        /\ tradeCh' = Tail(tradeCh) /\ taken' = taken \cup {Head(tradeCh)}
        /\ UNCHANGED <<seen, proc, buy>>
    BY <1>3 DEF AP!TypeOK, Deliver, A!Take, A!redisVars, executorVars, threadVars
  <2>2. /\ \A i \in DOMAIN tradeCh' : i + 1 \in DOMAIN tradeCh /\ tradeCh'[i] = tradeCh[i + 1]
        /\ 1 \in DOMAIN tradeCh /\ Head(tradeCh) = tradeCh[1]
    BY <2>1
  <2>3. \A b \in Buys : OnItsWay(b)' => OnItsWay(b)
    BY <2>1, <2>2 DEF OnItsWay
  <2> QED
    BY <2>1, <2>3, FewerOnTheirWay
<1>4. ASSUME NEW m \in Mints, Expire(m) PROVE OwnTheirMints'
  <2>1. /\ seen' = seen \ {m}
        /\ UNCHANGED <<taken, tradeCh, proc, buy>>
        /\ \A b \in Buys : Mint(b) = m => ~OnItsWay(b)
    BY <1>4 DEF Expire, A!Forget, A!signalVars, executorVars, threadVars
  <2>2. \A b \in Buys : OnItsWay(b)' <=> OnItsWay(b)
    BY <2>1 DEF OnItsWay
  <2> QED
    BY <2>1, <2>2 DEF OwnTheirMints, SignalsComeAlone, Mint
<1>5. CASE Execute
  <2>1. UNCHANGED <<seen, proc, taken, tradeCh>>
    BY <1>5 DEF Execute, analyzerVars
  <2>2. \A b \in Buys : buy[b].pc = "done" => buy'[b].pc = "done"
    <3>1. ASSUME NEW b \in Buys, BuyStep(b)
          PROVE  buy[b].pc # "done" /\ \A a \in Buys \ {b} : buy'[a] = buy[a]
      BY <3>1 DEF TypeOK, ThreadsOK, BuyStep, BuyGate, BuyLookup, BuyBuildFails, BuyBuilt,
                  BuyReport, BuyShowRatio, BuyInsert, BuyPersist, BuyPublish, BuyGoes
    <3>2. ASSUME NEW b \in Buys, Elapse(b) PROVE UNCHANGED buy
      BY <3>2 DEF Elapse, threadVars
    <3>3. CASE TickStep
      <4>1. ASSUME NEW m \in Mints, NEW c \in Checks, TickSpawn(m, c) PROVE UNCHANGED buy
        BY <4>1 DEF TickSpawn
      <4> QED
        BY <3>3, <4>1 DEF TickStep, TickStart, TickSnapshot, TickSkip
    <3>4. ASSUME NEW c \in Checks, CheckStep(c) PROVE UNCHANGED buy
      BY <3>4 DEF CheckStep, CheckClosing, CheckOpen, CheckReadFails, CheckStale, CheckHold,
                  CheckClaim, CheckGauge, CheckReturns, Observe
    <3>5. ASSUME NEW x \in Sells, SellStep(x) PROVE UNCHANGED buy
      BY <3>5 DEF SellStep, SellClaim, SellBuildFails, SellPanics, SellBuilt, SellLanded, SellMissed,
                  CloseSold, CloseUnmap, CloseUnsave, CloseBook, CloseRecord, Reverts
    <3>6. ASSUME NEW t \in Buys \cup Sells, BundleSettles(t) PROVE UNCHANGED buy
      BY <3>6 DEF BundleSettles, threadVars
    <3>7. ASSUME NEW h \in Kills, KillStep(h) PROVE UNCHANGED buy
      BY <3>7 DEF KillStep, KillArm, KillArmFails, KillSnapshot, KillReturn, KillSkip, KillDump
    <3>8. CASE Disarm
      BY <3>8 DEF Disarm, threadVars
    <3> QED
      BY <1>5, <3>1, <3>2, <3>3, <3>4, <3>5, <3>6, <3>7, <3>8 DEF Execute
  <2> QED
    BY <2>1, <2>2, FewerOnTheirWay DEF OnItsWay
<1>6. CASE RestartBoth
  <2>1. /\ tradeCh' = <<>> /\ taken' = taken /\ seen' = seen
        /\ \A b \in taken : buy'[b].pc = "done"
        /\ \A b \in Buys :
             /\ proc'[b].pc \in {"idle", "done"}
             /\ proc'[b].pc # "idle" => proc[b].pc # "idle"
             /\ proc'[b].mint = proc[b].mint
    BY <1>6 DEF RestartBoth, A!Restart, A!redisVars, AP!TypeOK, AP!Procs
  <2>2. \A b \in Buys : ~OnItsWay(b)'
    BY <2>1 DEF OnItsWay
  <2>3. "done" \notin AP!Working /\ "idle" \notin AP!Working
    BY DEF AP!Working
  <2> QED
    BY <2>1, <2>2, <2>3, FewerOnTheirWay
<1>7. CASE UNCHANGED pipelineVars
  BY <1>7, FewerOnTheirWay
     DEF pipelineVars, analyzerVars, executorVars, threadVars, OnItsWay
<1> QED
  BY <1>1, <1>2, <1>3, <1>4, <1>5, <1>6, <1>7 DEF Analyze

LEMMA PipelineOwns == PipelineSpec => []OwnTheirMints
<1>1. PipelineInit => OwnTheirMints
  BY DEF PipelineInit, A!Init, A!NewProc, OwnTheirMints, SignalsComeAlone, OnItsWay, AP!Working
<1>2. TypeOK /\ AP!TypeOK /\ AP!AnalyzerInv /\ OwnTheirMints /\ [PipelineNext]_pipelineVars
        => OwnTheirMints'
  <2>1. ASSUME AP!TypeOK, AP!AnalyzerInv, OwnTheirMints, NEW e \in Buys, Analyze(e), A!ProcStep(e)
        PROVE  OwnTheirMints'
    BY <2>1, SameSteps, ProcOwns DEF Analyze
  <2>2. ASSUME TypeOK, AP!TypeOK, AP!AnalyzerInv, OwnTheirMints, NEW e \in Buys, Analyze(e),
               ~A!ProcStep(e)
        PROVE  OwnTheirMints'
    BY <2>2, EnvironmentOwns
  <2>3. ASSUME TypeOK, AP!TypeOK, AP!AnalyzerInv, OwnTheirMints,
               \/ Deliver \/ (\E m \in Mints : Expire(m)) \/ Execute \/ RestartBoth
               \/ UNCHANGED pipelineVars
        PROVE  OwnTheirMints'
    BY <2>3, EnvironmentOwns
  <2> QED
    BY <2>1, <2>2, <2>3 DEF PipelineNext
<1>3. PipelineSpec => []TypeOK
  BY PipelineExecutes, TypeCorrect
<1> QED
  BY <1>1, <1>2, <1>3, PipelineKeeps, PTL DEF PipelineSpec

\* While a signal waits in tradeCh or is being bought, no other signal of its token is:
\* the executor's two looks at the positions map need no more (TryMarkTokenSeen,
\* executeBuy).
THEOREM SignalsAreAlone == PipelineSpec => []SignalsComeAlone
BY PipelineOwns, PTL DEF OwnTheirMints

\* What the executor takes for granted of its signals holds behind the analyzer: the guard
\* Alone of BuyGate never keeps a signal that was received waiting (Run, executeBuy).
THEOREM NoBuyWaits == PipelineSpec => [](\A b \in taken : buy[b].pc = "idle" => Alone(b))
<1>1. PipelineInit => CameAsSignals
  BY DEF PipelineInit, Init, CameAsSignals, NewBuy, NoBundle, Absent, NewCheck, NewSell
<1>2. TypeOK /\ CameAsSignals /\ [PipelineNext]_pipelineVars => CameAsSignals'
  BY StepsCame
<1>3. CameAsSignals /\ AP!TypeOK /\ SignalsComeAlone
        => \A b \in taken : buy[b].pc = "idle" => Alone(b)
  <2> SUFFICES ASSUME CameAsSignals, AP!TypeOK, SignalsComeAlone,
                      NEW b \in taken, buy[b].pc = "idle", NEW a \in Buys \ {b},
                      Mint(a) = Mint(b), buy[a].pc \notin {"idle", "done"}
               PROVE  FALSE
    BY DEF Alone
  <2>1. OnItsWay(b) /\ b \in Buys
    BY DEF OnItsWay, AP!TypeOK
  <2>2. OnItsWay(a)
    BY DEF OnItsWay, CameAsSignals
  <2> QED
    BY <2>1, <2>2 DEF SignalsComeAlone
<1>4. PipelineSpec => []TypeOK
  BY PipelineExecutes, TypeCorrect
<1> QED
  BY <1>1, <1>2, <1>3, <1>4, SignalsAreAlone, PipelineKeeps, PTL DEF PipelineSpec

\* Each life of a token's seen key costs one buy at most, however many events, failures
\* and restarts there are (TryMarkTokenSeen, executeBuy).
THEOREM OneBuyPerKey == ASSUME IsFiniteSet(Buys) PROVE PipelineSpec => []BuysPerKey
<1>1. PipelineInit => CameAsSignals
  BY DEF PipelineInit, Init, CameAsSignals, NewBuy, NoBundle, Absent, NewCheck, NewSell
<1>2. TypeOK /\ CameAsSignals /\ [PipelineNext]_pipelineVars => CameAsSignals'
  BY StepsCame
<1>3. AP!Init => AP!KeysCover
  BY AnalyzerAssumption, BoundsAssumption, AP!InitClaims
<1>4. AP!TypeOK /\ AP!AnalyzerInv /\ AP!KeysCover /\ [AP!Next]_AP!vars => AP!KeysCover'
  BY AnalyzerAssumption, BoundsAssumption, SameSets, AP!NextClaims
<1>5. CameAsSignals /\ AP!TypeOK /\ AP!AnalyzerInv /\ AP!KeysCover /\ OwnTheirMints => BuysPerKey
  <2> SUFFICES ASSUME CameAsSignals, AP!TypeOK, AP!AnalyzerInv, AP!KeysCover, OwnTheirMints,
                      NEW m \in Mints
               PROVE  Cardinality({b \in Buys : Mint(b) = m
                        /\ (bundle[b].state # "none" \/ pos[b].status # "absent")}) <= 1 + forgets[m]
    BY DEF BuysPerKey
  <2> DEFINE bought == {b \in Buys : Mint(b) = m
                          /\ (bundle[b].state # "none" \/ pos[b].status # "absent")}
  <2>1. bought \subseteq AP!Claims(m)
    <3>1. ASSUME NEW b \in bought PROVE b \in AP!Claims(m)
      <4>1. b \in Buys /\ b \in taken /\ Mint(b) = m
        BY DEF CameAsSignals
      <4>2. AP!IsPassed(b) /\ proc[b].pc = "done"
        BY <4>1 DEF AP!AnalyzerInv, AP!SignalsAreRecorded, AP!PcTellsRecord, AP!Signalled
      <4>3. proc[b].mint = m
        BY <4>1, <4>2 DEF OwnTheirMints
      <4>4. dataset[b] # <<>>
        BY <4>2 DEF AP!IsPassed
      <4> QED
        BY <4>1, <4>3, <4>4 DEF AP!Claims, AP!Claimed
    <3> QED
      BY <3>1
  <2>2. IsFiniteSet(AP!Claims(m))
    BY FS_Subset DEF AP!Claims
  <2>3. /\ Cardinality(bought) <= Cardinality(AP!Claims(m))
        /\ Cardinality(bought) \in Nat /\ Cardinality(AP!Claims(m)) \in Nat
    BY <2>1, <2>2, FS_Subset, FS_CardinalityType
  <2>4. Cardinality(AP!Claims(m)) <= forgets[m] + (IF m \in seen THEN 1 ELSE 0)
    BY SameSets DEF AP!KeysCover
  <2>5. forgets[m] \in Nat
    BY AnalyzerAssumption DEF AP!TypeOK
  <2>6. Cardinality(bought) <= 1 + forgets[m]
    BY <2>3, <2>4, <2>5
  <2> QED
    BY <2>6
<1>6. PipelineSpec => []TypeOK
  BY PipelineExecutes, TypeCorrect
<1> QED
  BY <1>1, <1>2, <1>3, <1>4, <1>5, <1>6, PipelineKeeps, PipelineAnalyzes, PipelineOwns, PTL
     DEF PipelineSpec, AP!Spec

-----------------------------------------------------------------------------
(* The executor behind the analyzer *)

\* As long as no seen key expires, the signals the executor gets are what its own
\* theorems ask of them.
LEMMA PipelineBuysOne ==
    ASSUME IsFiniteSet(Buys), MaxForgets = 0 PROVE PipelineSpec => []OneBuy
<1>1. AP!TypeOK /\ BuysPerKey => OneBuy
  <2> SUFFICES ASSUME AP!TypeOK, BuysPerKey, NEW a \in Buys, NEW b \in Buys,
                      Mint(a) = Mint(b), Bought(a), Bought(b), a # b
               PROVE  FALSE
    BY DEF OneBuy
  <2> DEFINE m == Mint(b)
             bought == {x \in Buys : Mint(x) = m
                          /\ (bundle[x].state # "none" \/ pos[x].status # "absent")}
  <2>1. m \in Mints
    BY SignalsAssumption DEF Mint
  <2>2. forgets[m] = 0
    BY <2>1 DEF AP!TypeOK
  <2>3. Cardinality(bought) <= 1
    BY <2>1, <2>2 DEF BuysPerKey
  <2>4. {a} \in SUBSET bought /\ b \in bought /\ b \notin {a}
    BY DEF Bought
  <2>5. IsFiniteSet(bought)
    BY FS_Subset
  <2>6. /\ Cardinality({a}) = 1 /\ Cardinality({a}) <= Cardinality(bought)
        /\ Cardinality({a}) # Cardinality(bought)
    <3> HIDE DEF bought
    <3> QED
      BY <2>4, <2>5, FS_Singleton, FS_Subset
  <2>7. Cardinality(bought) \in Nat
    BY <2>5, FS_CardinalityType
  <2> QED
    BY <2>3, <2>6, <2>7
<1> QED
  BY <1>1, OneBuyPerKey, PipelineKeeps, PTL

\* Behind the analyzer, one close of a position at most is booked, by one record and one
\* IncrByFloat, whatever the kill switch, the monitor and restarts do; only a Redis client
\* that gets no answer can make that one increment count twice (executeSell,
\* closePosition).
THEOREM PipelineBooksOnce ==
    ASSUME IsFiniteSet(Buys), MaxForgets = 0, ~SimulationMode
    PROVE  PipelineSpec => []BookedOnce
BY PipelineBuysOne, PipelineExecutes, KillsKeep, PTL

\* Nor does the gauge of active positions drift.
THEOREM PipelineKeepsGauge ==
    ASSUME IsFiniteSet(Buys), MaxForgets = 0, ~SimulationMode
    PROVE  PipelineSpec => []GaugeExact
BY PipelineBuysOne, PipelineExecutes, KillsKeep, PTL

\* As long as Redis answers, every position in the map is in the hash positions:open
\* (savePosition, closePosition).
THEOREM PipelineSavesOpen ==
    ASSUME IsFiniteSet(Buys), MaxForgets = 0, ~IOFaults
    PROVE  PipelineSpec => []OpenIsSaved
BY PipelineBuysOne, PipelineExecutes, SavedKeeps, PTL
=============================================================================
