--------------------------- MODULE AnalyzerProofs ---------------------------
(***************************************************************************)
(* Theorems about Analyzer, for any number of events, tokens, key expiries   *)
(* and restarts, with every call failing at will but in the last section,   *)
(* which is about what the counters add up to when none does.               *)
(***************************************************************************)
EXTENDS Analyzer, FiniteSetTheorems, TLAPS

-----------------------------------------------------------------------------
(* Types *)

LEMMA InitType == Init => TypeOK
<1> SUFFICES ASSUME Init PROVE TypeOK
  OBVIOUS
<1>1. NewProc \in Procs
  <2>1. (CHOOSE m \in Mints : TRUE) \in Mints
    BY MintsAssumption
  <2> QED
    BY <2>1 DEF NewProc, Procs, Sources, VaultAttempts
<1> QED
  BY <1>1, LimitsAssumption DEF Init, TypeOK

\* A goroutine that moves to another pc keeps its type.
LEMMA GoesType ==
    ASSUME proc \in [Events -> Procs], NEW e \in Events,
           NEW pc \in Working \cup {"idle", "dedup", "done"}, Goes(e, pc)
    PROVE  proc' \in [Events -> Procs]
<1>1. proc[e] \in Procs
  OBVIOUS
<1>2. [proc[e] EXCEPT !.pc = pc] \in Procs
  BY <1>1 DEF Procs
<1> QED
  BY <1>2 DEF Goes

LEMMA RejectType ==
    ASSUME TypeOK, NEW e \in Events, NEW reason \in Reasons, Reject(e, reason)
    PROVE  TypeOK'
<1>1. proc' \in [Events -> Procs]
  BY GoesType DEF TypeOK, Reject
<1>2. filtered' \in Nat
  BY LimitsAssumption DEF TypeOK, Reject, Counted
<1>3. dataset' \in [Events -> Seq(Labels)]
  <2>1. PICK label \in Labels : dataset' = [dataset EXCEPT ![e] = Append(@, label)]
    BY DEF Reject, Labelled, Written, Labels
  <2> QED
    BY <2>1 DEF TypeOK
<1> QED
  BY <1>1, <1>2, <1>3 DEF TypeOK, Reject, signalVars

LEMMA ContinueType ==
    ASSUME TypeOK, NEW e \in Events, NEW pc \in Working \cup {"done"}, Continue(e, pc)
    PROVE  TypeOK'
<1>1. proc' \in [Events -> Procs]
  BY GoesType DEF TypeOK, Continue
<1> QED
  BY <1>1 DEF TypeOK, Continue, redisVars, signalVars

LEMMA VerdictType ==
    ASSUME NEW e \in Events, MintVerdict(e) # "ok"
    PROVE  MintVerdict(e) \in Reasons
BY DEF MintVerdict, Reasons

LEMMA ProcType ==
    ASSUME TypeOK, NEW e \in Events, ProcStep(e)
    PROVE  TypeOK'
<1>0. proc[e] \in Procs
  BY DEF TypeOK
<1>1. CASE MarkSeen(e)
  <2>1. proc' \in [Events -> Procs]
    BY <1>1, GoesType DEF TypeOK, MarkSeen, Working
  <2>2. scanned' \in Nat /\ seen' \subseteq Mints
    BY <1>0, <1>1, LimitsAssumption DEF TypeOK, MarkSeen, Counted, Procs
  <2> QED
    BY <1>1, <2>1, <2>2 DEF TypeOK, MarkSeen, signalVars
<1>2. CASE MarkFails(e)
  <2>1. proc' \in [Events -> Procs]
    BY <1>2, GoesType DEF TypeOK, MarkFails
  <2>2. seen' \subseteq Mints
    BY <1>0, <1>2 DEF TypeOK, MarkFails, Procs
  <2> QED
    BY <1>2, <2>1, <2>2 DEF TypeOK, MarkFails, signalVars
<1>3. CASE ReadMint(e)
  BY <1>3, ContinueType, RejectType, VerdictType DEF ReadMint, Working
<1>4. CASE ReadMintFails(e)
  BY <1>4, RejectType DEF ReadMintFails, Reasons
<1>5. CASE ReadHolders(e)
  <2>1. PICK answer \in HolderAnswers : proc' = [proc EXCEPT ![e].holders = answer]
    BY <1>5 DEF ReadHolders, HolderOutcomes, HolderAnswers
  <2>2. [proc[e] EXCEPT !.holders = answer] \in Procs
    BY <1>0, <2>1 DEF Procs
  <2>3. proc' \in [Events -> Procs]
    BY <2>1, <2>2 DEF TypeOK
  <2> QED
    BY <1>5, <2>3 DEF TypeOK, ReadHolders, redisVars, signalVars
<1>6. CASE ReadSymbol(e)
  <2>1. [proc[e] EXCEPT !.symbol = TRUE] \in Procs
    BY <1>0 DEF Procs
  <2>2. proc' \in [Events -> Procs]
    BY <1>6, <2>1 DEF TypeOK, ReadSymbol
  <2> QED
    BY <1>6, <2>2 DEF TypeOK, ReadSymbol, redisVars, signalVars
<1>7. CASE JudgeHolders(e)
  BY <1>7, ContinueType, RejectType DEF JudgeHolders, Working, Reasons
<1>8. CASE ReadVaults(e)
  BY <1>8, ContinueType DEF ReadVaults, Working
<1>9. CASE ReadVaultsFails(e)
  <2>1. CASE proc[e].tries + 1 < VaultAttempts
    <3>0. proc[e].tries + 1 \in 0..VaultAttempts - 1
      BY <1>0, <2>1 DEF Procs, VaultAttempts
    <3> DEFINE n == proc[e].tries + 1
    <3> HIDE DEF n
    <3>3. [proc[e] EXCEPT !.pc = "backoff", !.tries = n] \in Procs
      BY <1>0, <3>0 DEF Procs, Working, n
    <3>1. [proc[e] EXCEPT !.pc = "backoff", !.tries = @ + 1] \in Procs
      BY <1>0, <3>3 DEF n
    <3>2. proc' \in [Events -> Procs]
      BY <1>9, <2>1, <3>1 DEF TypeOK, ReadVaultsFails
    <3> QED
      BY <1>9, <2>1, <3>2 DEF TypeOK, ReadVaultsFails, redisVars, signalVars
  <2>2. CASE ~(proc[e].tries + 1 < VaultAttempts)
    BY <1>9, <2>2, RejectType DEF ReadVaultsFails, Reasons
  <2> QED
    BY <2>1, <2>2
<1>10. CASE Backoff(e)
  BY <1>10, ContinueType, RejectType DEF Backoff, Working, Reasons
<1>11. CASE Assess(e)
  <2>1. CASE Reject(e, "high_friction")
    BY <2>1, RejectType DEF Reasons
  <2>2. CASE Pass(e) /\ Goes(e, "send")
             /\ UNCHANGED <<token, redisVars, signalVars, forgets, restarts>>
    <3>1. proc' \in [Events -> Procs]
      BY <2>2, GoesType DEF TypeOK, Working
    <3>2. dataset' \in [Events -> Seq(Labels)]
      <4>1. PICK label \in Labels : dataset' = [dataset EXCEPT ![e] = Append(@, label)]
        BY <2>2 DEF Pass, PassLabels, Labelled, Written, Labels
      <4> QED
        BY <4>1 DEF TypeOK
    <3> QED
      BY <2>2, <3>1, <3>2 DEF TypeOK, redisVars, signalVars
  <2> QED
    BY <1>11, <2>1, <2>2 DEF Assess
<1>12. CASE Send(e)
  <2>1. proc' \in [Events -> Procs]
    BY <1>12, GoesType DEF TypeOK, Send
  <2>2. /\ tradeCh' = tradeCh \/ tradeCh' = Append(tradeCh, e)
        /\ dropped' = dropped \/ dropped' = dropped \cup {e}
    BY <1>12 DEF Send
  <2>3. dropped' \subseteq Events
    BY <2>2 DEF TypeOK
  <2>4. tradeCh' \in Seq(Events)
    <3>1. tradeCh \in Seq(Events)
      BY DEF TypeOK
    <3> QED
      BY <2>2, <3>1
  <2> QED
    BY <1>12, <2>1, <2>3, <2>4 DEF TypeOK, Send, redisVars
<1>13. CASE Panics(e)
  BY <1>13, ContinueType DEF Panics
<1> QED
  BY <1>1, <1>2, <1>3, <1>4, <1>5, <1>6, <1>7, <1>8, <1>9, <1>10, <1>11, <1>12, <1>13
     DEF ProcStep

LEMMA EnvironmentType ==
    ASSUME TypeOK,
           \/ \E e \in Events : Receive(e) \/ Deadline(e)
           \/ Take \/ (\E m \in Mints : Forget(m)) \/ Restart \/ UNCHANGED vars
    PROVE  TypeOK'
<1>1. ASSUME NEW e \in Events, Receive(e) PROVE TypeOK'
  <2>1. PICK m \in Mints, src \in Sources, liq \in Liquidity :
          proc' = [proc EXCEPT ![e].pc = "dedup", ![e].mint = m, ![e].source = src,
                               ![e].liq = liq]
    BY <1>1 DEF Receive
  <2>2. [proc[e] EXCEPT !.pc = "dedup", !.mint = m, !.source = src, !.liq = liq] \in Procs
    BY DEF TypeOK, Procs
  <2>3. proc' \in [Events -> Procs]
    BY <2>1, <2>2 DEF TypeOK
  <2> QED
    BY <1>1, <2>3 DEF TypeOK, Receive, redisVars, signalVars
<1>2. ASSUME NEW e \in Events, Deadline(e) PROVE TypeOK'
  <2>1. [proc[e] EXCEPT !.expired = TRUE] \in Procs
    BY DEF TypeOK, Procs
  <2>2. proc' \in [Events -> Procs]
    BY <1>2, <2>1 DEF TypeOK, Deadline
  <2> QED
    BY <1>2, <2>2 DEF TypeOK, Deadline, redisVars, signalVars
<1>3. CASE Take
  <2>1. tradeCh \in Seq(Events) /\ tradeCh # <<>> /\ tradeCh' = Tail(tradeCh)
        /\ taken' = taken \cup {Head(tradeCh)}
    BY <1>3 DEF TypeOK, Take
  <2>2. Head(tradeCh) \in Events /\ Tail(tradeCh) \in Seq(Events)
    BY <2>1
  <2> QED
    BY <1>3, <2>1, <2>2 DEF TypeOK, Take, redisVars
<1>4. ASSUME NEW m \in Mints, Forget(m) PROVE TypeOK'
  BY <1>4, LimitsAssumption DEF TypeOK, Forget, signalVars
<1>5. CASE Restart
  <2>1. \A e \in Events : [proc[e] EXCEPT !.pc = "done"] \in Procs
    BY DEF TypeOK, Procs
  <2>2. proc' \in [Events -> Procs]
    BY <1>5, <2>1 DEF TypeOK, Restart
  <2> QED
    BY <1>5, <2>2, LimitsAssumption DEF TypeOK, Restart, redisVars
<1>6. CASE UNCHANGED vars
  BY <1>6 DEF TypeOK, vars, redisVars, signalVars
<1> QED
  BY <1>1, <1>2, <1>3, <1>4, <1>5, <1>6

LEMMA NextType == TypeOK /\ [Next]_vars => TypeOK'
BY ProcType, EnvironmentType DEF Next

\* Every state of the analyzer is well typed: in particular no goroutine starts a fourth
\* vault attempt, and every record has one of the labels.
THEOREM AnalyzerTypes == Spec => []TypeOK
BY InitType, NextType, PTL DEF Spec

-----------------------------------------------------------------------------
(* Deduplication, records and signals *)

\* Moving the pc, alone among the fields of e.
LEMMA GoesEffect ==
    ASSUME TypeOK, NEW e \in Events, NEW pc, Goes(e, pc)
    PROVE  /\ \A a \in Events \ {e} : proc'[a] = proc[a]
           /\ proc'[e].pc = pc
           /\ proc'[e].mint = proc[e].mint
           /\ proc'[e].source = proc[e].source
           /\ proc'[e].liq = proc[e].liq
BY DEF TypeOK, Procs, Goes

\* What a step of e's goroutine does, as far as the invariant can tell. It gets its claim
\* by marking the key, keeps it until it returns, writes one record and sends after it.
Effect(e) ==
    /\ \A a \in Events \ {e} : proc'[a] = proc[a] /\ dataset'[a] = dataset[a]
    /\ proc'[e].mint = proc[e].mint
    /\ proc'[e].source = proc[e].source
    /\ proc'[e].liq = proc[e].liq
    /\ UNCHANGED <<token, taken>>
    /\ seen \subseteq seen'
    /\ \/ proc[e].pc = "dedup" /\ proc'[e].pc = "done"
       \/ /\ proc[e].pc = "dedup" /\ proc'[e].pc = "mint"
          /\ proc[e].mint \notin seen /\ proc[e].mint \in seen'
       \/ proc[e].pc \in Working /\ proc'[e].pc \in Working \cup {"done"}
    /\ proc'[e].pc \in Working \ {"mint"} => proc[e].pc \in Working \ {"mint"} \/ Vetted(e)
    /\ \/ dataset'[e] = dataset[e] /\ (proc'[e].pc = "send" => proc[e].pc = "send")
       \/ /\ proc[e].pc \in Working \ {"send"}
          /\ \/ proc'[e].pc = "done"
                /\ \E label \in Labels : dataset'[e] = Append(dataset[e], label)
             \/ /\ proc'[e].pc = "send"
                /\ \E label \in PassLabels : dataset'[e] = Append(dataset[e], label)
    /\ \/ UNCHANGED <<tradeCh, dropped>> /\ (proc[e].pc = "send" => proc'[e].pc = "send")
       \/ /\ proc[e].pc = "send" /\ proc'[e].pc = "done" /\ dataset'[e] = dataset[e]
          /\ \/ tradeCh' = Append(tradeCh, e) /\ UNCHANGED dropped
             \/ dropped' = dropped \cup {e} /\ UNCHANGED tradeCh

LEMMA RejectEffect ==
    ASSUME TypeOK, NEW e \in Events, NEW reason \in Reasons, Reject(e, reason),
           proc[e].pc \in Working \ {"send"}
    PROVE  Effect(e)
<1>1. PICK label \in Labels : dataset' = [dataset EXCEPT ![e] = Append(@, label)]
  BY DEF Reject, Labelled, Written, Labels
<1>2. /\ dataset'[e] = Append(dataset[e], label)
      /\ \A a \in Events \ {e} : dataset'[a] = dataset[a]
  BY <1>1 DEF TypeOK
<1> QED
  BY <1>2, GoesEffect DEF Reject, Effect, signalVars, Working

LEMMA ContinueEffect ==
    ASSUME TypeOK, NEW e \in Events, NEW pc \in Working \ {"mint", "send"}, Continue(e, pc),
           proc[e].pc \in Working \ {"send"},
           proc[e].pc = "mint" => Vetted(e)
    PROVE  Effect(e)
BY GoesEffect DEF Continue, Effect, redisVars, signalVars, Working

LEMMA ProcEffect ==
    ASSUME TypeOK, NEW e \in Events, ProcStep(e)
    PROVE  Effect(e)
<1>1. CASE MarkSeen(e)
  BY <1>1, GoesEffect DEF MarkSeen, IsNew, Effect, signalVars, Working
<1>2. CASE MarkFails(e)
  BY <1>2, GoesEffect DEF MarkFails, Effect, signalVars, Working
<1>3. CASE ReadMint(e)
  <2>1. CASE MintVerdict(e) = "ok"
    <3>1. Vetted(e)
      <4>1. /\ ~token[proc[e].mint].freeze /\ ~token[proc[e].mint].mintable
            /\ ~(proc[e].liq < MinLiqSOL) /\ ~Graduates(e)
        BY <2>1 DEF MintVerdict
      <4>2. proc[e].liq \in Nat /\ MinLiqSOL \in Nat /\ GraduationGuard \in Nat
        <5>1. proc[e] \in Procs
          BY DEF TypeOK
        <5>2. proc[e].liq \in Liquidity \cup {0}
          BY <5>1 DEF Procs
        <5>3. Liquidity \subseteq Nat /\ MinLiqSOL \in Nat /\ GraduationGuard \in Nat
          BY ThresholdsAssumption
        <5>4. 0 \in Nat
          OBVIOUS
        <5> QED
          BY <5>2, <5>3, <5>4
      <4> QED
        BY <4>1, <4>2 DEF Graduates, Vetted
    <3> QED
      BY <1>3, <2>1, <3>1, ContinueEffect DEF ReadMint, Working
  <2>2. CASE MintVerdict(e) # "ok"
    BY <1>3, <2>2, VerdictType, RejectEffect DEF ReadMint, Working
  <2> QED
    BY <2>1, <2>2
<1>4. CASE ReadMintFails(e)
  BY <1>4, RejectEffect DEF ReadMintFails, Reasons, Working
<1>5. CASE ReadHolders(e) \/ ReadSymbol(e)
  <2>1. /\ \A a \in Events \ {e} : proc'[a] = proc[a]
        /\ proc'[e].pc = proc[e].pc /\ proc[e].pc = "holders"
        /\ proc'[e].mint = proc[e].mint
        /\ proc'[e].source = proc[e].source
        /\ proc'[e].liq = proc[e].liq
    BY <1>5 DEF ReadHolders, ReadSymbol, TypeOK, Procs
  <2> QED
    BY <1>5, <2>1 DEF ReadHolders, ReadSymbol, Effect, redisVars, signalVars, Working
<1>6. CASE JudgeHolders(e)
  BY <1>6, RejectEffect, ContinueEffect DEF JudgeHolders, Reasons, Working
<1>7. CASE ReadVaults(e)
  BY <1>7, ContinueEffect DEF ReadVaults, Working
<1>8. CASE ReadVaultsFails(e)
  <2>1. CASE proc[e].tries + 1 < VaultAttempts
    <3>1. /\ \A a \in Events \ {e} : proc'[a] = proc[a]
          /\ proc'[e].pc = "backoff" /\ proc[e].pc = "vaults"
          /\ proc'[e].mint = proc[e].mint
          /\ proc'[e].source = proc[e].source
          /\ proc'[e].liq = proc[e].liq
      BY <1>8, <2>1 DEF ReadVaultsFails, TypeOK, Procs
    <3> QED
      BY <1>8, <2>1, <3>1 DEF ReadVaultsFails, Effect, redisVars, signalVars, Working
  <2>2. CASE ~(proc[e].tries + 1 < VaultAttempts)
    BY <1>8, <2>2, RejectEffect DEF ReadVaultsFails, Reasons, Working
  <2> QED
    BY <2>1, <2>2
<1>9. CASE Backoff(e)
  BY <1>9, RejectEffect, ContinueEffect DEF Backoff, Reasons, Working
<1>10. CASE Assess(e)
  <2>1. CASE Reject(e, "high_friction")
    BY <1>10, <2>1, RejectEffect DEF Assess, Reasons, Working
  <2>2. CASE Pass(e) /\ Goes(e, "send")
             /\ UNCHANGED <<token, redisVars, signalVars, forgets, restarts>>
    <3>1. PICK label \in PassLabels : dataset' = [dataset EXCEPT ![e] = Append(@, label)]
      BY <2>2 DEF Pass, Labelled
    <3>2. /\ dataset'[e] = Append(dataset[e], label)
          /\ \A a \in Events \ {e} : dataset'[a] = dataset[a]
      BY <3>1 DEF TypeOK
    <3> QED
      BY <1>10, <2>2, <3>2, GoesEffect DEF Assess, Effect, redisVars, signalVars, Working
  <2> QED
    BY <1>10, <2>1, <2>2 DEF Assess
<1>11. CASE Send(e)
  <2>1. /\ proc[e].pc = "send" /\ proc'[e].pc = "done" /\ dataset'[e] = dataset[e]
        /\ \/ tradeCh' = Append(tradeCh, e) /\ UNCHANGED dropped
           \/ dropped' = dropped \cup {e} /\ UNCHANGED tradeCh
    BY <1>11, GoesEffect DEF Send
  <2> QED
    BY <1>11, <2>1, GoesEffect DEF Send, Effect, redisVars, Working
<1>12. CASE Panics(e)
  BY <1>12, GoesEffect DEF Panics, Continue, Effect, redisVars, signalVars, Working
<1> QED
  BY <1>1, <1>2, <1>3, <1>4, <1>5, <1>6, <1>7, <1>8, <1>9, <1>10, <1>11, <1>12 DEF ProcStep

\* A step of one goroutine preserves each part of the invariant.
LEMMA EffectKeepsTwins ==
    ASSUME TypeOK, NoTwins, NEW e \in Events, Effect(e)
    PROVE  NoTwins'
<1>1. \A a \in Events : proc'[a].mint = proc[a].mint
  BY DEF Effect
<1>2. ASSUME NEW a \in Events, proc'[a].pc \in Working
      PROVE  /\ proc[a].mint \in seen'
             /\ \/ proc[a].pc \in Working
                \/ a = e /\ proc[a].mint \notin seen
  BY <1>2 DEF NoTwins, Effect, Working
<1> QED
  BY <1>1, <1>2 DEF NoTwins

\* Signals come from e only.
LEMMA EffectSignals ==
    ASSUME TypeOK, NEW e \in Events, Effect(e), NEW a \in Events, Signalled(a)'
    PROVE  \/ Signalled(a)
           \/ a = e /\ proc[e].pc = "send" /\ proc'[e].pc = "done" /\ dataset'[e] = dataset[e]
<1>1. tradeCh \in Seq(Events)
  BY DEF TypeOK
<1>2. CASE UNCHANGED <<tradeCh, dropped>> /\ (proc[e].pc = "send" => proc'[e].pc = "send")
  BY <1>2 DEF Effect, Signalled
<1>3. CASE /\ proc[e].pc = "send" /\ proc'[e].pc = "done" /\ dataset'[e] = dataset[e]
           /\ dropped' = dropped \cup {e} /\ UNCHANGED tradeCh
  BY <1>3 DEF Effect, Signalled
<1>4. CASE /\ proc[e].pc = "send" /\ proc'[e].pc = "done" /\ dataset'[e] = dataset[e]
           /\ tradeCh' = Append(tradeCh, e) /\ UNCHANGED dropped
  <2>1. ASSUME NEW i \in 1..Len(tradeCh'), tradeCh'[i] # e
        PROVE  i \in 1..Len(tradeCh) /\ tradeCh[i] = tradeCh'[i]
    BY <1>1, <1>4, <2>1
  <2> QED
    BY <1>4, <2>1 DEF Effect, Signalled
<1> QED
  BY <1>2, <1>3, <1>4 DEF Effect

LEMMA EffectKeepsRecords ==
    ASSUME TypeOK, SignalsAreRecorded, PcTellsRecord, PcTellsVetted, NEW e \in Events,
           Effect(e)
    PROVE  (SignalsAreRecorded /\ PcTellsRecord /\ PcTellsVetted)'
<1>1. \A a \in Events : dataset[a] \in Seq(Labels) /\ (dataset'[a] = dataset[a] \/ a = e)
  BY DEF TypeOK, Effect
<1>2. proc[e].pc \in Working \cup {"dedup"} /\ ~Signalled(e)
  BY DEF Effect, PcTellsRecord, Working
<1>3. ASSUME NEW a \in Events \ {e}
      PROVE  /\ proc'[a] = proc[a] /\ dataset'[a] = dataset[a]
             /\ Signalled(a)' => Signalled(a)
             /\ Vetted(a) => Vetted(a)'
  BY <1>3, EffectSignals DEF Effect, Vetted
<1>4. /\ Signalled(e)' => proc[e].pc = "send" /\ proc'[e].pc = "done" /\ dataset'[e] = dataset[e]
      /\ Vetted(e) => Vetted(e)'
  BY <1>2, EffectSignals DEF Effect, Vetted
<1>5. /\ Len(dataset'[e]) <= 1
      /\ proc'[e].pc \in Working \ {"send"} => dataset'[e] = <<>>
      /\ proc'[e].pc = "send" => IsPassed(e)'
      /\ Signalled(e)' => IsPassed(e)'
  <2>1. /\ proc[e].pc \in (Working \ {"send"}) \cup {"dedup"} => dataset[e] = <<>>
        /\ proc[e].pc = "send" => IsPassed(e)
        /\ Len(dataset[e]) <= 1
    BY DEF PcTellsRecord, SignalsAreRecorded
  <2>5. \A label : Append(<<>>, label) = <<label>> /\ Len(<<label>>) = 1
    OBVIOUS
  <2>2. CASE dataset'[e] = dataset[e] /\ (proc'[e].pc = "send" => proc[e].pc = "send")
    <3>1. proc'[e].pc \in Working \ {"send"} => proc[e].pc # "send"
      BY <2>2 DEF Effect, Working
    <3>2. proc'[e].pc \in Working \ {"send"} => dataset'[e] = <<>>
      BY <1>2, <2>1, <2>2, <3>1
    <3>3. IsPassed(e) => IsPassed(e)'
      BY <2>2 DEF IsPassed
    <3> QED
      BY <1>4, <2>1, <2>2, <3>2, <3>3
  <2>3. CASE /\ proc[e].pc \in Working \ {"send"} /\ proc'[e].pc = "done"
             /\ \E label \in Labels : dataset'[e] = Append(dataset[e], label)
    BY <1>4, <2>1, <2>3, <2>5 DEF Working
  <2>4. CASE /\ proc[e].pc \in Working \ {"send"} /\ proc'[e].pc = "send"
             /\ \E label \in PassLabels : dataset'[e] = Append(dataset[e], label)
    <3>1. dataset[e] = <<>> /\ ~Signalled(e)'
      BY <1>4, <2>1, <2>4
    <3>2. IsPassed(e)' /\ Len(dataset'[e]) = 1
      BY <2>4, <2>5, <3>1 DEF IsPassed
    <3> QED
      BY <2>4, <3>1, <3>2
  <2> QED
    BY <2>2, <2>3, <2>4 DEF Effect
<1>6. proc'[e].pc \in Working \cup {"done"}
  BY DEF Effect, Working
<1>7. SignalsAreRecorded'
  BY <1>3, <1>5 DEF SignalsAreRecorded, IsPassed
<1>8. PcTellsRecord'
  BY <1>3, <1>4, <1>5, <1>6 DEF PcTellsRecord, IsPassed, Working
<1>9. PcTellsVetted'
  <2>1. ASSUME proc'[e].pc \in Working \ {"mint"} \/ Signalled(e)' PROVE Vetted(e)
    <3>1. CASE proc'[e].pc \in Working \ {"mint"}
      BY <3>1 DEF Effect, PcTellsVetted
    <3>2. CASE Signalled(e)'
      BY <1>4, <3>2 DEF PcTellsVetted, Working
    <3> QED
      BY <2>1, <3>1, <3>2
  <2> QED
    BY <1>3, <1>4, <2>1 DEF PcTellsVetted
<1> QED
  BY <1>7, <1>8, <1>9

\* Receiving an event, a deadline, the executor taking a signal, a key that expires and
\* a restart preserve the invariant.
LEMMA EnvironmentKeeps ==
    ASSUME TypeOK, AnalyzerInv,
           \/ \E e \in Events : Receive(e) \/ Deadline(e)
           \/ Take \/ (\E m \in Mints : Forget(m)) \/ Restart \/ UNCHANGED vars
    PROVE  AnalyzerInv'
<1> USE DEF AnalyzerInv
<1>1. ASSUME NEW e \in Events, Receive(e) PROVE AnalyzerInv'
  <2>1. /\ proc[e].pc = "idle" /\ proc'[e].pc = "dedup"
        /\ \A a \in Events \ {e} : proc'[a] = proc[a]
        /\ UNCHANGED <<token, seen, dataset, tradeCh, taken, dropped>>
    <3>1. PICK m \in Mints, src \in Sources, liq \in Liquidity :
            proc' = [proc EXCEPT ![e].pc = "dedup", ![e].mint = m, ![e].source = src,
                                 ![e].liq = liq]
      BY <1>1 DEF Receive
    <3>2. proc'[e].pc = "dedup" /\ \A a \in Events \ {e} : proc'[a] = proc[a]
      BY <3>1 DEF TypeOK, Procs
    <3> QED
      BY <1>1, <3>2 DEF Receive, redisVars, signalVars
  <2>2. NoTwins'
    BY <2>1 DEF NoTwins, Working
  <2>3. SignalsAreRecorded' /\ PcTellsRecord'
    BY <2>1 DEF SignalsAreRecorded, IsPassed, PcTellsRecord, Signalled, Working
  <2>4. ~Signalled(e)
    BY <2>1 DEF PcTellsRecord
  <2>5. PcTellsVetted'
    BY <2>1, <2>4 DEF PcTellsVetted, Vetted, Signalled, Working
  <2> QED
    BY <2>2, <2>3, <2>5
<1>2. ASSUME NEW e \in Events, Deadline(e) PROVE AnalyzerInv'
  <2>1. /\ \A a \in Events : /\ proc'[a].pc = proc[a].pc
                             /\ proc'[a].mint = proc[a].mint
                             /\ proc'[a].source = proc[a].source
                             /\ proc'[a].liq = proc[a].liq
        /\ UNCHANGED <<token, seen, dataset, tradeCh, taken, dropped>>
    BY <1>2 DEF Deadline, TypeOK, Procs, redisVars, signalVars
  <2> QED
    BY <2>1 DEF NoTwins, SignalsAreRecorded, IsPassed, PcTellsRecord, PcTellsVetted, Vetted, Signalled
<1>3. CASE Take
  <2>1. /\ tradeCh \in Seq(Events) /\ tradeCh # <<>>
        /\ tradeCh' = Tail(tradeCh) /\ taken' = taken \cup {Head(tradeCh)}
        /\ UNCHANGED <<token, seen, dataset, proc, dropped>>
    BY <1>3 DEF TypeOK, Take, redisVars
  <2>2. /\ Len(Tail(tradeCh)) = Len(tradeCh) - 1 /\ Len(tradeCh) \in Nat \ {0}
        /\ \A i \in 1..Len(Tail(tradeCh)) : Tail(tradeCh)[i] = tradeCh[i + 1]
        /\ Head(tradeCh) = tradeCh[1]
    BY <2>1
  <2>3. ASSUME NEW a \in Events, Signalled(a)' PROVE Signalled(a)
    <3>1. CASE \E i \in 1..Len(tradeCh') : tradeCh'[i] = a
      <4>1. PICK i \in 1..Len(tradeCh') : tradeCh'[i] = a
        BY <3>1
      <4>2. i + 1 \in 1..Len(tradeCh) /\ tradeCh[i + 1] = a
        BY <2>1, <2>2, <4>1
      <4> QED
        BY <4>2 DEF Signalled
    <3>2. CASE a = Head(tradeCh)
      BY <2>2, <3>2 DEF Signalled
    <3>3. CASE a \in taken \cup dropped
      BY <3>3 DEF Signalled
    <3> QED
      BY <2>1, <2>3, <3>1, <3>2, <3>3 DEF Signalled
  <2> QED
    BY <2>1, <2>3 DEF NoTwins, SignalsAreRecorded, IsPassed, PcTellsRecord, PcTellsVetted, Vetted
<1>4. ASSUME NEW m \in Mints, Forget(m) PROVE AnalyzerInv'
  <2>1. /\ \A e \in Events : proc[e].mint = m => proc[e].pc \notin Working
        /\ seen' = seen \ {m}
        /\ UNCHANGED <<token, dataset, proc, tradeCh, taken, dropped>>
    BY <1>4 DEF Forget, signalVars
  <2> QED
    BY <2>1 DEF NoTwins, SignalsAreRecorded, IsPassed, PcTellsRecord, PcTellsVetted, Vetted, Signalled
<1>5. CASE Restart
  <2>1. /\ \A a \in Events : /\ proc'[a].pc \in {"idle", "done"}
                             /\ proc[a].pc = "idle" <=> proc'[a].pc = "idle"
                             /\ proc'[a].mint = proc[a].mint
                             /\ proc'[a].source = proc[a].source
                             /\ proc'[a].liq = proc[a].liq
        /\ tradeCh' = <<>>
        /\ UNCHANGED <<token, seen, dataset, taken, dropped>>
    BY <1>5 DEF Restart, TypeOK, Procs, redisVars
  <2>2. \A a \in Events : Signalled(a)' => Signalled(a)
    BY <2>1 DEF Signalled
  <2>3. NoTwins' /\ SignalsAreRecorded'
    BY <2>1, <2>2 DEF NoTwins, SignalsAreRecorded, IsPassed, Working
  <2>4. PcTellsRecord'
    BY <2>1, <2>2 DEF PcTellsRecord, IsPassed, Working
  <2>5. PcTellsVetted'
    BY <2>1, <2>2 DEF PcTellsVetted, Vetted, Working
  <2> QED
    BY <2>3, <2>4, <2>5
<1>6. CASE UNCHANGED vars
  BY <1>6 DEF vars, redisVars, signalVars, NoTwins, SignalsAreRecorded, IsPassed, PcTellsRecord,
              PcTellsVetted, Vetted, Signalled
<1> QED
  BY <1>1, <1>2, <1>3, <1>4, <1>5, <1>6

LEMMA InitKeeps == Init => AnalyzerInv
BY DEF Init, AnalyzerInv, NoTwins, SignalsAreRecorded, PcTellsRecord, PcTellsVetted,
       Signalled, Working, NewProc

LEMMA NextKeeps == TypeOK /\ AnalyzerInv /\ [Next]_vars => AnalyzerInv'
<1>1. ASSUME TypeOK, AnalyzerInv, NEW e \in Events, ProcStep(e) PROVE AnalyzerInv'
  BY <1>1, ProcEffect, EffectKeepsTwins, EffectKeepsRecords DEF AnalyzerInv
<1> QED
  BY <1>1, EnvironmentKeeps DEF Next

LEMMA InvVets == TypeOK /\ AnalyzerInv => TakenIsVetted
BY DEF TypeOK, AnalyzerInv, PcTellsVetted, Signalled, TakenIsVetted

\* The claims, records and signals of the goroutines agree in every state, whatever fails.
THEOREM AnalyzerIsSafe == Spec => []AnalyzerInv
BY InitKeeps, NextKeeps, AnalyzerTypes, PTL DEF Spec

\* At most one goroutine works on a token at a time, and only while the token's seen key
\* is set (TryMarkTokenSeen as a lock).
THEOREM NoTwinGoroutines == Spec => []NoTwins
BY AnalyzerIsSafe, PTL DEF AnalyzerInv

\* A signal has its PASSED_ANALYSIS record first, and an event gets one record.
THEOREM RecordBeforeSignal == Spec => []SignalsAreRecorded
BY AnalyzerIsSafe, PTL DEF AnalyzerInv

\* The executor receives no token with an authority set, too little liquidity or near
\* its graduation.
THEOREM ExecutorGetsVetted == Spec => []TakenIsVetted
BY InvVets, AnalyzerTypes, AnalyzerIsSafe, PTL

-----------------------------------------------------------------------------
(* One verdict per life of a key *)

Claims(m) == {e \in Events : proc[e].mint = m /\ Claimed(e)}

\* A key that is set accounts for one more claim than its expiries do.
KeysCover ==
    \A m \in Mints : Cardinality(Claims(m)) <= forgets[m] + (IF m \in seen THEN 1 ELSE 0)

LEMMA FewerClaims ==
    ASSUME IsFiniteSet(Events), TypeOK, KeysCover, UNCHANGED forgets,
           \A e \in Events : Claimed(e)' => Claimed(e) /\ proc'[e].mint = proc[e].mint,
           seen \subseteq seen'
    PROVE  KeysCover'
<1> SUFFICES ASSUME NEW m \in Mints
             PROVE  Cardinality(Claims(m)') <= forgets[m] + (IF m \in seen' THEN 1 ELSE 0)
  BY DEF KeysCover
<1>1. Claims(m)' \subseteq Claims(m)
  BY DEF Claims
<1>2. IsFiniteSet(Claims(m))
  BY FS_Subset DEF Claims
<1>3. /\ Cardinality(Claims(m)) \in Nat /\ Cardinality(Claims(m)') \in Nat
      /\ Cardinality(Claims(m)') <= Cardinality(Claims(m))
  BY <1>1, <1>2, FS_Subset, FS_CardinalityType
<1>4. Cardinality(Claims(m)) <= forgets[m] + (IF m \in seen THEN 1 ELSE 0)
  BY DEF KeysCover
<1>5. forgets[m] \in Nat
  BY LimitsAssumption DEF TypeOK
<1> QED
  BY <1>3, <1>4, <1>5

\* A goroutine claims its mint by setting the key.
LEMMA ProcClaims ==
    ASSUME IsFiniteSet(Events), TypeOK, AnalyzerInv, KeysCover, NEW e \in Events, ProcStep(e)
    PROVE  KeysCover'
<1>1. Effect(e)
  BY ProcEffect
<1>2. UNCHANGED forgets
  BY DEF ProcStep, MarkSeen, MarkFails, ReadMint, ReadMintFails, ReadHolders, ReadSymbol,
         JudgeHolders, ReadVaults, ReadVaultsFails, Backoff, Assess, Send, Panics, Reject, Continue
<1>3. \A a \in Events : proc'[a].mint = proc[a].mint
  BY <1>1 DEF Effect
<1>4. \A a \in Events \ {e} : Claimed(a)' <=> Claimed(a)
  BY <1>1 DEF Effect, Claimed
<1>5. CASE Claimed(e)' => Claimed(e)
  BY <1>1, <1>2, <1>3, <1>4, <1>5, FewerClaims DEF Effect
<1>6. CASE Claimed(e)' /\ ~Claimed(e)
  <2>0. PICK own \in Mints : own = proc[e].mint
    BY DEF TypeOK, Procs
  <2>1. \/ proc[e].pc \notin Working /\ proc'[e].pc # "done"
        \/ dataset'[e] # dataset[e]
    BY <1>6 DEF Claimed, Working
  <2>2. proc[e].pc = "dedup" /\ own \notin seen /\ own \in seen'
    BY <1>1, <1>6, <2>0, <2>1 DEF Effect, Claimed, Working
  <2>3. forgets[own] \in Nat
    BY LimitsAssumption DEF TypeOK
  <2>4. \A n \in Mints : IsFiniteSet(Claims(n)) /\ Cardinality(Claims(n)) \in Nat
    BY FS_Subset, FS_CardinalityType DEF Claims
  <2>5. Claims(own)' = Claims(own) \cup {e} /\ e \notin Claims(own)
    BY <1>3, <1>4, <1>6, <2>0 DEF Claims
  <2>6. Cardinality(Claims(own)') = Cardinality(Claims(own)) + 1
    BY <2>3, <2>4, <2>5, FS_AddElement
  <2>7. Cardinality(Claims(own)) <= forgets[own]
    BY <2>2, <2>3 DEF KeysCover
  <2>8. ASSUME NEW n \in Mints, n # own
        PROVE  Cardinality(Claims(n)') <= forgets[n] + (IF n \in seen' THEN 1 ELSE 0)
    <3>1. Claims(n)' = Claims(n)
      BY <1>3, <1>4, <2>0, <2>8 DEF Claims
    <3>2. Cardinality(Claims(n)) <= forgets[n] + (IF n \in seen THEN 1 ELSE 0)
      BY DEF KeysCover
    <3>3. forgets[n] \in Nat /\ seen \subseteq seen'
      BY <1>1, LimitsAssumption DEF TypeOK, Effect
    <3> QED
      BY <2>4, <3>1, <3>2, <3>3
  <2>9. Cardinality(Claims(own)') <= forgets[own] + (IF own \in seen' THEN 1 ELSE 0)
    BY <2>2, <2>3, <2>4, <2>6, <2>7
  <2>10. ASSUME NEW n \in Mints
         PROVE  Cardinality(Claims(n)') <= forgets'[n] + (IF n \in seen' THEN 1 ELSE 0)
    BY <1>2, <2>8, <2>9
  <2> QED
    BY <2>10 DEF KeysCover
<1> QED
  BY <1>5, <1>6

LEMMA EnvironmentClaims ==
    ASSUME IsFiniteSet(Events), TypeOK, AnalyzerInv, KeysCover,
           \/ \E e \in Events : Receive(e) \/ Deadline(e)
           \/ Take \/ (\E m \in Mints : Forget(m)) \/ Restart \/ UNCHANGED vars
    PROVE  KeysCover'
<1>1. ASSUME NEW e \in Events, Receive(e) PROVE KeysCover'
  <2>1. /\ proc[e].pc = "idle" /\ proc'[e].pc = "dedup"
        /\ \A a \in Events \ {e} : proc'[a] = proc[a]
    <3>1. PICK m \in Mints, src \in Sources, liq \in Liquidity :
            proc' = [proc EXCEPT ![e].pc = "dedup", ![e].mint = m, ![e].source = src,
                                 ![e].liq = liq]
      BY <1>1 DEF Receive
    <3>2. proc'[e].pc = "dedup" /\ \A a \in Events \ {e} : proc'[a] = proc[a]
      BY <3>1 DEF TypeOK, Procs
    <3> QED
      BY <1>1, <3>2 DEF Receive
  <2>2. UNCHANGED <<seen, dataset, forgets>>
    BY <1>1 DEF Receive, redisVars
  <2>3. dataset[e] = <<>>
    BY <2>1 DEF AnalyzerInv, PcTellsRecord
  <2> QED
    BY <2>1, <2>2, <2>3, FewerClaims DEF Claimed, Working
<1>2. ASSUME NEW e \in Events, Deadline(e) PROVE KeysCover'
  <2>1. \A a \in Events : proc'[a].pc = proc[a].pc /\ proc'[a].mint = proc[a].mint
    BY <1>2 DEF Deadline, TypeOK, Procs
  <2>2. UNCHANGED <<seen, dataset, forgets>>
    BY <1>2 DEF Deadline, redisVars
  <2> QED
    BY <2>1, <2>2, FewerClaims DEF Claimed
<1>3. CASE Take
  BY <1>3, FewerClaims DEF Take, redisVars, Claimed
<1>4. ASSUME NEW m \in Mints, Forget(m) PROVE KeysCover'
  <2>1. /\ m \in seen /\ seen' = seen \ {m}
        /\ forgets' = [forgets EXCEPT ![m] = @ + 1]
        /\ UNCHANGED <<dataset, proc>>
    BY <1>4 DEF Forget
  <2>2. ASSUME NEW n \in Mints
        PROVE  Cardinality(Claims(n)') <= forgets'[n] + (IF n \in seen' THEN 1 ELSE 0)
    <3>1. Claims(n)' = Claims(n)
      BY <2>1 DEF Claims, Claimed
    <3>2. Cardinality(Claims(n)) <= forgets[n] + (IF n \in seen THEN 1 ELSE 0)
      BY DEF KeysCover
    <3>3. /\ forgets \in [Mints -> Nat]
          /\ Cardinality(Claims(n)) \in Nat
      BY LimitsAssumption, FS_Subset, FS_CardinalityType DEF TypeOK, Claims
    <3>4. forgets'[n] = IF n = m THEN forgets[n] + 1 ELSE forgets[n]
      BY <2>1, <3>3
    <3> QED
      BY <2>1, <3>1, <3>2, <3>3, <3>4
  <2> QED
    BY <2>2 DEF KeysCover
<1>5. CASE Restart
  <2>1. \A a \in Events : /\ proc'[a].mint = proc[a].mint
                          /\ proc'[a].pc \in {"idle", "done"}
    BY <1>5 DEF Restart, TypeOK, Procs
  <2>2. UNCHANGED <<seen, dataset, forgets>>
    BY <1>5 DEF Restart, redisVars
  <2> QED
    BY <2>1, <2>2, FewerClaims DEF Claimed, Working
<1>6. CASE UNCHANGED vars
  BY <1>6, FewerClaims DEF vars, redisVars, Claimed
<1> QED
  BY <1>1, <1>2, <1>3, <1>4, <1>5, <1>6

LEMMA InitClaims == Init => KeysCover
<1> SUFFICES ASSUME Init, NEW m \in Mints PROVE Cardinality(Claims(m)) = 0
  BY DEF KeysCover, Init
<1>1. Claims(m) = {}
  BY DEF Init, Claims, Claimed, NewProc, Working
<1> QED
  BY <1>1, FS_EmptySet

LEMMA NextClaims ==
    ASSUME IsFiniteSet(Events), TypeOK, AnalyzerInv, KeysCover, [Next]_vars
    PROVE  KeysCover'
<1>1. ASSUME NEW e \in Events, ProcStep(e) PROVE KeysCover'
  BY <1>1, ProcClaims
<1> QED
  BY <1>1, EnvironmentClaims DEF Next

\* Each life of a token's seen key yields one verdict at most, however many events report
\* the token and whatever fails (TryMarkTokenSeen).
THEOREM OneVerdict == ASSUME IsFiniteSet(Events) PROVE Spec => []OneVerdictPerKey
<1>1. TypeOK /\ AnalyzerInv /\ KeysCover /\ [Next]_vars => KeysCover'
  BY NextClaims
<1>2. TypeOK /\ KeysCover => OneVerdictPerKey
  <2> SUFFICES ASSUME TypeOK, KeysCover, NEW m \in Mints
               PROVE  Cardinality(Claims(m)) <= 1 + forgets[m]
    BY DEF OneVerdictPerKey, Claims
  <2>1. forgets[m] \in Nat /\ Cardinality(Claims(m)) \in Nat
    BY LimitsAssumption, FS_Subset, FS_CardinalityType DEF TypeOK, Claims
  <2> QED
    BY <2>1 DEF KeysCover
<1> QED
  BY InitClaims, <1>1, <1>2, AnalyzerTypes, AnalyzerIsSafe, PTL DEF Spec

-----------------------------------------------------------------------------
(* The counters, the records and the signals *)

Passed == With({"PASSED_ANALYSIS"})
InWork == {e \in Events : proc[e].pc \in Working \ {"send"}}
Sending == {e \in Events : proc[e].pc = "send"}

\* A signal is in the channel once, and nowhere else.
ChannelInv ==
    /\ \A i, j \in 1..Len(tradeCh) : i # j => tradeCh[i] # tradeCh[j]
    /\ \A i \in 1..Len(tradeCh) : tradeCh[i] \notin taken \cup dropped

\* A step of e's goroutine as the counters see it, when no call fails.
Counts(e) ==
    \/ /\ proc[e].pc = "dedup" /\ proc'[e].pc = "mint" /\ scanned' = scanned + 1
       /\ UNCHANGED <<filtered, tradeCh, dropped>> /\ dataset'[e] = dataset[e]
    \/ /\ proc[e].pc \in Working \ {"send"} /\ proc'[e].pc = "done"
       /\ filtered' = filtered + 1 /\ UNCHANGED <<scanned, tradeCh, dropped>>
       /\ \E reason \in Reasons : dataset'[e] = Append(dataset[e], reason)
    \/ /\ proc[e].pc \in Working \ {"send"} /\ proc'[e].pc = "send"
       /\ UNCHANGED <<scanned, filtered, tradeCh, dropped>>
       /\ dataset'[e] = Append(dataset[e], "PASSED_ANALYSIS")
    \/ /\ proc[e].pc = "send" /\ proc'[e].pc = "done"
       /\ UNCHANGED <<scanned, filtered>> /\ dataset'[e] = dataset[e]
       /\ \/ tradeCh' = Append(tradeCh, e) /\ UNCHANGED dropped
          \/ dropped' = dropped \cup {e} /\ UNCHANGED tradeCh
    \/ /\ \/ proc[e].pc = "dedup" /\ proc'[e].pc = "done"
          \/ proc[e].pc \in Working \ {"send"} /\ proc'[e].pc \in Working \ {"send"}
       /\ UNCHANGED <<scanned, filtered, tradeCh, dropped>> /\ dataset'[e] = dataset[e]

LEMMA RejectCounts ==
    ASSUME TypeOK, ~Faults, NEW e \in Events, NEW reason \in Reasons, Reject(e, reason),
           proc[e].pc \in Working \ {"send"}
    PROVE  Counts(e)
<1>1. dataset'[e] = Append(dataset[e], reason)
  BY DEF TypeOK, Reject, Labelled, Written
<1>2. filtered' = filtered + 1
  BY DEF Reject, Counted
<1> QED
  BY <1>1, <1>2, GoesEffect DEF Reject, Counts, signalVars

LEMMA ContinueCounts ==
    ASSUME TypeOK, NEW e \in Events, NEW pc \in Working \ {"send"}, Continue(e, pc),
           proc[e].pc \in Working \ {"send"}
    PROVE  Counts(e)
BY GoesEffect DEF Continue, Counts, redisVars, signalVars

LEMMA ProcCounts ==
    ASSUME TypeOK, ~Faults, NEW e \in Events, ProcStep(e)
    PROVE  Counts(e)
<1>1. CASE MarkSeen(e)
  <2>1. CASE IsNew(e)
    <3>1. scanned' = scanned + 1
      BY <1>1, <2>1 DEF MarkSeen, Counted
    <3> QED
      BY <1>1, <2>1, <3>1, GoesEffect DEF MarkSeen, Counts, signalVars
  <2>2. CASE ~IsNew(e)
    BY <1>1, <2>2, GoesEffect DEF MarkSeen, Counts, signalVars
  <2> QED
    BY <2>1, <2>2
<1>2. CASE ReadMint(e)
  BY <1>2, VerdictType, RejectCounts, ContinueCounts DEF ReadMint, Working
<1>3. CASE ReadHolders(e) \/ ReadSymbol(e)
  <2>1. proc'[e].pc = proc[e].pc /\ proc[e].pc = "holders"
    BY <1>3 DEF ReadHolders, ReadSymbol, TypeOK, Procs
  <2> QED
    BY <1>3, <2>1 DEF ReadHolders, ReadSymbol, Counts, redisVars, signalVars, Working
<1>4. CASE JudgeHolders(e)
  BY <1>4, RejectCounts, ContinueCounts DEF JudgeHolders, Reasons, Working
<1>5. CASE ReadVaults(e)
  BY <1>5, ContinueCounts DEF ReadVaults, Working
<1>6. CASE Backoff(e)
  BY <1>6, RejectCounts, ContinueCounts DEF Backoff, Reasons, Working
<1>7. CASE Assess(e)
  <2>1. CASE Reject(e, "high_friction")
    BY <1>7, <2>1, RejectCounts DEF Assess, Reasons, Working
  <2>2. CASE Pass(e) /\ Goes(e, "send")
             /\ UNCHANGED <<token, redisVars, signalVars, forgets, restarts>>
    <3>1. dataset'[e] = Append(dataset[e], "PASSED_ANALYSIS")
      BY <2>2 DEF TypeOK, Pass, PassLabels, Labelled, Written
    <3> QED
      BY <1>7, <2>2, <3>1, GoesEffect DEF Assess, Counts, redisVars, signalVars, Working
  <2> QED
    BY <1>7, <2>1, <2>2 DEF Assess
<1>8. CASE Send(e)
  <2>1. /\ proc[e].pc = "send" /\ proc'[e].pc = "done"
        /\ \/ tradeCh' = Append(tradeCh, e) /\ UNCHANGED dropped
           \/ dropped' = dropped \cup {e} /\ UNCHANGED tradeCh
    BY <1>8, GoesEffect DEF Send
  <2> QED
    BY <1>8, <2>1 DEF Send, Counts, redisVars
<1> QED
  BY <1>1, <1>2, <1>3, <1>4, <1>5, <1>6, <1>7, <1>8
     DEF ProcStep, MarkFails, ReadMintFails, ReadVaultsFails, Panics

\* The sets that are counted.
LEMMA CountedSets ==
    ASSUME IsFiniteSet(Events), TypeOK
    PROVE  /\ IsFiniteSet(Passed) /\ IsFiniteSet(InWork) /\ IsFiniteSet(Sending)
           /\ IsFiniteSet(taken) /\ IsFiniteSet(dropped)
           /\ Cardinality(Passed) \in Nat /\ Cardinality(InWork) \in Nat
           /\ Cardinality(Sending) \in Nat
           /\ Cardinality(taken) \in Nat /\ Cardinality(dropped) \in Nat
           /\ Len(tradeCh) \in Nat /\ scanned \in Nat /\ filtered \in Nat
<1>1. /\ Passed \subseteq Events /\ InWork \subseteq Events /\ Sending \subseteq Events
      /\ taken \subseteq Events /\ dropped \subseteq Events
  BY DEF TypeOK, Passed, With, InWork, Sending
<1>2. tradeCh \in Seq(Events) /\ scanned \in Nat /\ filtered \in Nat
  BY DEF TypeOK
<1> QED
  BY <1>1, <1>2, FS_Subset, FS_CardinalityType

\* Nothing that is counted moves.
LEMMA AccountFrame ==
    ASSUME ChannelInv, Accounted, UNCHANGED <<scanned, filtered, signalVars, restarts>>,
           \A e \in Events :
             /\ dataset'[e] = dataset[e]
             /\ proc'[e].pc = "send" <=> proc[e].pc = "send"
             /\ proc'[e].pc \in Working \ {"send"} <=> proc[e].pc \in Working \ {"send"}
    PROVE  ChannelInv' /\ Accounted'
<1>1. Passed' = Passed /\ InWork' = InWork /\ Sending' = Sending
  BY DEF Passed, With, InWork, Sending
<1> QED
  BY <1>1 DEF ChannelInv, Accounted, signalVars, Passed, InWork, Sending

LEMMA ProcAccounts ==
    ASSUME ~Faults, IsFiniteSet(Events), TypeOK, TypeOK', AnalyzerInv,
           ChannelInv, Accounted,
           NEW e \in Events, ProcStep(e)
    PROVE  ChannelInv' /\ Accounted'
<1>1. Counts(e)
  BY ProcCounts
<1>2. /\ \A a \in Events \ {e} : proc'[a] = proc[a] /\ dataset'[a] = dataset[a]
      /\ taken' = taken
  BY ProcEffect DEF Effect
<1>3. restarts' = restarts
  BY DEF ProcStep, MarkSeen, MarkFails, ReadMint, ReadMintFails, ReadHolders, ReadSymbol,
         JudgeHolders, ReadVaults, ReadVaultsFails, Backoff, Assess, Send, Panics, Reject, Continue
<1>4. CASE restarts # 0 /\ UNCHANGED <<tradeCh, dropped>>
  BY <1>2, <1>3, <1>4 DEF ChannelInv, Accounted
<1>5. /\ proc[e].pc \in Working \ {"send"} => dataset[e] = <<>>
      /\ proc[e].pc = "send" => dataset[e] = <<"PASSED_ANALYSIS">>
      /\ proc[e].pc # "done" =>
           /\ \A i \in 1..Len(tradeCh) : tradeCh[i] # e
           /\ e \notin taken \cup dropped
  BY DEF AnalyzerInv, PcTellsRecord, IsPassed, PassLabels, Written, Signalled
<1>6. /\ \A label : /\ Append(<<>>, label) = <<label>>
                     /\ Len(<<label>>) = 1 /\ <<label>>[1] = label
      /\ Len(<<>>) = 0
  OBVIOUS
<1> DEFINE A == Cardinality(Passed)
           B == Cardinality(InWork)
           C == Cardinality(Sending)
<1>7. /\ A \in Nat /\ B \in Nat /\ C \in Nat
      /\ Cardinality(taken) \in Nat /\ Cardinality(dropped) \in Nat
      /\ Len(tradeCh) \in Nat /\ scanned \in Nat /\ filtered \in Nat
      /\ IsFiniteSet(Passed) /\ IsFiniteSet(InWork) /\ IsFiniteSet(Sending)
      /\ IsFiniteSet(dropped)
  BY CountedSets
<1>8. restarts = 0 => /\ scanned = filtered + A + B
                      /\ A = C + Len(tradeCh) + Cardinality(taken) + Cardinality(dropped)
  BY DEF Accounted, Passed, InWork, Sending
<1>9. ASSUME restarts = 0 =>
               /\ scanned' = filtered' + Cardinality(Passed') + Cardinality(InWork')
               /\ Cardinality(Passed') = Cardinality(Sending') + Len(tradeCh')
                    + Cardinality(taken') + Cardinality(dropped')
      PROVE  Accounted'
  BY <1>3, <1>9 DEF Accounted, Passed, InWork, Sending
<1>10. UNCHANGED <<tradeCh, dropped>> => ChannelInv'
  BY <1>2 DEF ChannelInv
<1>11. CASE /\ proc[e].pc = "dedup" /\ proc'[e].pc = "mint" /\ scanned' = scanned + 1
            /\ UNCHANGED <<filtered, tradeCh, dropped>> /\ dataset'[e] = dataset[e]
  <2>1. Passed' = Passed /\ Sending' = Sending
    BY <1>2, <1>11 DEF Passed, With, Sending
  <2>2. InWork' = InWork \cup {e} /\ e \notin InWork
    BY <1>2, <1>11 DEF InWork, Working
  <2>3. Cardinality(InWork') = B + 1
    BY <1>7, <2>2, FS_AddElement
  <2> HIDE DEF A, B, C
  <2>4. Cardinality(Passed') = A /\ Cardinality(Sending') = C
    BY <2>1 DEF A, C
  <2> QED
    BY <1>2, <1>7, <1>8, <1>9, <1>10, <1>11, <2>3, <2>4
<1>12. CASE /\ proc[e].pc \in Working \ {"send"} /\ proc'[e].pc = "done"
            /\ filtered' = filtered + 1 /\ UNCHANGED <<scanned, tradeCh, dropped>>
            /\ \E reason \in Reasons : dataset'[e] = Append(dataset[e], reason)
  <2>1. Passed' = Passed
    <3>1. PICK reason \in Reasons : dataset'[e] = <<reason>>
      BY <1>5, <1>6, <1>12
    <3>2. e \notin Passed
      BY <1>5, <1>6, <1>12 DEF Passed, With
    <3>3. e \notin Passed'
      BY <1>6, <3>1 DEF Passed, With, Reasons
    <3> QED
      BY <1>2, <3>2, <3>3 DEF Passed, With
  <2>2. Sending' = Sending
    BY <1>2, <1>12 DEF Sending
  <2>3. InWork' = InWork \ {e} /\ e \in InWork
    BY <1>2, <1>12 DEF InWork, Working
  <2>4. Cardinality(InWork') = B - 1
    BY <1>7, <2>3, FS_RemoveElement
  <2> HIDE DEF A, B, C
  <2>5. Cardinality(Passed') = A /\ Cardinality(Sending') = C
    BY <2>1, <2>2 DEF A, C
  <2> QED
    BY <1>2, <1>7, <1>8, <1>9, <1>10, <1>12, <2>4, <2>5
<1>13. CASE /\ proc[e].pc \in Working \ {"send"} /\ proc'[e].pc = "send"
            /\ UNCHANGED <<scanned, filtered, tradeCh, dropped>>
            /\ dataset'[e] = Append(dataset[e], "PASSED_ANALYSIS")
  <2>1. Passed' = Passed \cup {e} /\ e \notin Passed
    <3>1. dataset[e] = <<>> /\ dataset'[e] = <<"PASSED_ANALYSIS">>
      BY <1>5, <1>6, <1>13
    <3>2. e \notin Passed
      BY <1>6, <3>1 DEF Passed, With
    <3>3. e \in Passed'
      <4>1. 1 \in 1..Len(dataset'[e]) /\ dataset'[e][1] \in {"PASSED_ANALYSIS"}
        BY <1>6, <3>1
      <4> QED
        BY <4>1 DEF Passed, With
    <3> QED
      BY <1>2, <3>2, <3>3 DEF Passed, With
  <2>2. Sending' = Sending \cup {e} /\ e \notin Sending
    BY <1>2, <1>13 DEF Sending
  <2>3. InWork' = InWork \ {e} /\ e \in InWork
    BY <1>2, <1>13 DEF InWork, Working
  <2>4. Cardinality(Passed') = A + 1
    BY <1>7, <2>1, FS_AddElement
  <2>5. Cardinality(Sending') = C + 1
    BY <1>7, <2>2, FS_AddElement
  <2>6. Cardinality(InWork') = B - 1
    BY <1>7, <2>3, FS_RemoveElement
  <2> HIDE DEF A, B, C
  <2> QED
    BY <1>2, <1>7, <1>8, <1>9, <1>10, <1>13, <2>4, <2>5, <2>6
<1>14. CASE /\ proc[e].pc = "send" /\ proc'[e].pc = "done"
            /\ UNCHANGED <<scanned, filtered>> /\ dataset'[e] = dataset[e]
            /\ \/ tradeCh' = Append(tradeCh, e) /\ UNCHANGED dropped
               \/ dropped' = dropped \cup {e} /\ UNCHANGED tradeCh
  <2>1. Passed' = Passed /\ InWork' = InWork
    BY <1>2, <1>14 DEF Passed, With, InWork, Working
  <2>2. Sending' = Sending \ {e} /\ e \in Sending
    BY <1>2, <1>14 DEF Sending
  <2>3. Cardinality(Sending') = C - 1
    BY <1>7, <2>2, FS_RemoveElement
  <2>4. Cardinality(Passed') = A /\ Cardinality(InWork') = B
    BY <2>1
  <2> HIDE DEF A, B, C
  <2>5. CASE tradeCh' = Append(tradeCh, e) /\ UNCHANGED dropped
    <3>1. tradeCh \in Seq(Events)
      BY DEF TypeOK
    <3>2. /\ Len(tradeCh') = Len(tradeCh) + 1 /\ tradeCh'[Len(tradeCh) + 1] = e
          /\ \A i \in 1..Len(tradeCh) : tradeCh'[i] = tradeCh[i]
      BY <2>5, <3>1
    <3>3. \A i \in 1..Len(tradeCh') : i \in 1..Len(tradeCh) \/ i = Len(tradeCh) + 1
      BY <1>7, <3>2
    <3>4. ChannelInv'
      BY <1>2, <1>5, <1>14, <2>5, <3>2, <3>3 DEF ChannelInv
    <3> QED
      BY <1>2, <1>7, <1>8, <1>9, <1>14, <2>3, <2>4, <2>5, <3>2, <3>4
  <2>6. CASE dropped' = dropped \cup {e} /\ UNCHANGED tradeCh
    <3>1. Cardinality(dropped') = Cardinality(dropped) + 1
      BY <1>5, <1>7, <1>14, <2>6, FS_AddElement
    <3>2. ChannelInv'
      BY <1>2, <1>5, <1>14, <2>6 DEF ChannelInv
    <3> QED
      BY <1>2, <1>7, <1>8, <1>9, <1>14, <2>3, <2>4, <2>6, <3>1, <3>2
  <2> QED
    BY <1>14, <2>5, <2>6
<1>15. CASE /\ \/ proc[e].pc = "dedup" /\ proc'[e].pc = "done"
               \/ proc[e].pc \in Working \ {"send"} /\ proc'[e].pc \in Working \ {"send"}
            /\ UNCHANGED <<scanned, filtered, tradeCh, dropped>> /\ dataset'[e] = dataset[e]
  BY <1>2, <1>3, <1>15, AccountFrame DEF Working, signalVars
<1> QED
  BY <1>1, <1>11, <1>12, <1>13, <1>14, <1>15 DEF Counts

LEMMA EnvironmentAccounts ==
    ASSUME ~Faults, IsFiniteSet(Events), TypeOK, TypeOK', AnalyzerInv,
           ChannelInv, Accounted,
           \/ \E e \in Events : Receive(e) \/ Deadline(e)
           \/ Take \/ (\E m \in Mints : Forget(m)) \/ Restart \/ UNCHANGED vars
    PROVE  ChannelInv' /\ Accounted'
<1>1. ASSUME NEW e \in Events, Receive(e) PROVE ChannelInv' /\ Accounted'
  <2>1. PICK m \in Mints, src \in Sources, liq \in Liquidity :
          proc' = [proc EXCEPT ![e].pc = "dedup", ![e].mint = m, ![e].source = src,
                               ![e].liq = liq]
    BY <1>1 DEF Receive
  <2>0. proc \in [Events -> Procs] /\ proc[e].pc = "idle"
    BY <1>1 DEF TypeOK, Receive
  <2>2. proc'[e].pc = "dedup" /\ \A a \in Events \ {e} : proc'[a] = proc[a]
    BY <2>0, <2>1 DEF Procs
  <2>3. UNCHANGED <<scanned, filtered, signalVars, restarts, dataset>>
    BY <1>1 DEF Receive, redisVars
  <2> QED
    BY <2>0, <2>2, <2>3, AccountFrame DEF Working
<1>2. ~\E e \in Events : Deadline(e)
  BY DEF Deadline
<1>3. CASE Take
  <2>1. /\ tradeCh \in Seq(Events) /\ tradeCh # <<>>
        /\ tradeCh' = Tail(tradeCh) /\ taken' = taken \cup {Head(tradeCh)}
        /\ UNCHANGED <<scanned, filtered, dataset, proc, dropped, restarts>>
    BY <1>3 DEF TypeOK, Take, redisVars
  <2>2. /\ Len(tradeCh') = Len(tradeCh) - 1 /\ Len(tradeCh) \in Nat \ {0}
        /\ \A i \in 1..Len(tradeCh') :
             tradeCh'[i] = tradeCh[i + 1] /\ i + 1 \in 1..Len(tradeCh)
        /\ Head(tradeCh) = tradeCh[1] /\ 1 \in 1..Len(tradeCh)
    BY <2>1
  <2>3. Head(tradeCh) \notin taken
    BY <2>2 DEF ChannelInv
  <2>4. Cardinality(taken') = Cardinality(taken) + 1
    BY <2>1, <2>3, CountedSets, FS_AddElement
  <2>5. ChannelInv'
    <3>1. \A i, j \in 1..Len(tradeCh') : i # j => i + 1 # j + 1 /\ i + 1 # 1
      BY <2>2
    <3>2. \A i, j \in 1..Len(tradeCh') : i # j => tradeCh'[i] # tradeCh'[j]
      BY <2>2, <3>1 DEF ChannelInv
    <3>3. \A i \in 1..Len(tradeCh') : tradeCh'[i] # tradeCh[1]
      <4> TAKE i \in 1..Len(tradeCh')
      <4>1. i + 1 # 1
        OBVIOUS
      <4> QED
        BY <2>2, <4>1 DEF ChannelInv
    <3> QED
      BY <2>1, <2>2, <3>2, <3>3 DEF ChannelInv
  <2>6. Passed' = Passed /\ InWork' = InWork /\ Sending' = Sending
    BY <2>1 DEF Passed, With, InWork, Sending
  <2>7. Accounted'
    <3>1. restarts = 0 =>
            /\ scanned = filtered + Cardinality(Passed) + Cardinality(InWork)
            /\ Cardinality(Passed) = Cardinality(Sending) + Len(tradeCh)
                 + Cardinality(taken) + Cardinality(dropped)
      BY DEF Accounted, Passed, InWork, Sending
    <3>2. restarts' = 0 =>
            /\ scanned' = filtered' + Cardinality(Passed') + Cardinality(InWork')
            /\ Cardinality(Passed') = Cardinality(Sending') + Len(tradeCh')
                 + Cardinality(taken') + Cardinality(dropped')
      <4> DEFINE a == Cardinality(taken)
                 d == Cardinality(dropped)
                 x == Cardinality(Sending)
      <4>1. a \in Nat /\ d \in Nat /\ x \in Nat
        BY CountedSets
      <4>2. /\ Cardinality(Passed') = Cardinality(Passed)
            /\ Cardinality(InWork') = Cardinality(InWork)
            /\ Cardinality(Sending') = x /\ Cardinality(dropped') = d
            /\ Cardinality(taken') = a + 1
        BY <2>1, <2>4, <2>6
      <4> HIDE DEF a, d, x
      <4>3. restarts = 0 => Cardinality(Passed) = x + Len(tradeCh) + a + d
        BY <3>1 DEF a, d, x
      <4>4. x + Len(tradeCh) + a + d = x + Len(tradeCh') + (a + 1) + d
        BY <2>2, <4>1
      <4> QED
        BY <2>1, <3>1, <4>2, <4>3, <4>4
    <3> QED
      BY <3>2 DEF Accounted, Passed, InWork, Sending
  <2> QED
    BY <2>5, <2>7
<1>4. ASSUME NEW m \in Mints, Forget(m) PROVE ChannelInv' /\ Accounted'
  BY <1>4, AccountFrame DEF Forget
<1>5. CASE Restart
  <2>1. restarts' # 0
    BY <1>5 DEF Restart, TypeOK
  <2> QED
    BY <1>5, <2>1 DEF Restart, ChannelInv, Accounted
<1>6. CASE UNCHANGED vars
  BY <1>6, AccountFrame DEF vars, redisVars
<1> QED
  BY <1>1, <1>2, <1>3, <1>4, <1>5, <1>6

LEMMA InitAccounts == Init => ChannelInv /\ Accounted
<1> SUFFICES ASSUME Init PROVE ChannelInv /\ Accounted
  OBVIOUS
<1>1. Passed = {} /\ InWork = {} /\ Sending = {}
  BY DEF Init, Passed, With, InWork, Sending, NewProc, Working
<1>2. tradeCh = <<>> /\ taken = {} /\ dropped = {} /\ scanned = 0 /\ filtered = 0
  BY DEF Init
<1>3. Cardinality({}) = 0 /\ Len(<<>>) = 0
  BY FS_EmptySet
<1>4. /\ scanned = filtered + Cardinality(Passed) + Cardinality(InWork)
      /\ Cardinality(Passed)
           = Cardinality(Sending) + Len(tradeCh) + Cardinality(taken) + Cardinality(dropped)
  BY <1>1, <1>2, <1>3
<1>5. Accounted
  BY <1>4 DEF Accounted, Passed, InWork, Sending
<1>6. ChannelInv
  BY <1>2, <1>3 DEF ChannelInv
<1> QED
  BY <1>5, <1>6

\* With no call failing, the counters, the dataset and the signals account for the same
\* tokens until a restart, for any finite set of events and any capacity of tradeCh.
THEOREM TokensAreAccounted ==
    ASSUME ~Faults, IsFiniteSet(Events)
    PROVE  Spec => []Accounted
<1>1. TypeOK /\ TypeOK' /\ AnalyzerInv /\ ChannelInv /\ Accounted /\ [Next]_vars
        => (ChannelInv /\ Accounted)'
  <2> SUFFICES ASSUME TypeOK, TypeOK', AnalyzerInv, ChannelInv, Accounted, [Next]_vars
               PROVE  ChannelInv' /\ Accounted'
    OBVIOUS
  <2>1. ASSUME NEW e \in Events, ProcStep(e) PROVE ChannelInv' /\ Accounted'
    BY <2>1, ProcAccounts
  <2> QED
    BY <2>1, EnvironmentAccounts DEF Next
<1> QED
  BY InitAccounts, <1>1, AnalyzerTypes, AnalyzerIsSafe, PTL DEF Spec
=============================================================================
