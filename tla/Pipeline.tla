------------------------------ MODULE Pipeline ------------------------------
(***************************************************************************)
(* The analyzer and the executor together, joined by tradeCh and Redis. A    *)
(* token event, the process goroutine that analyses it, the signal that      *)
(* comes of it and the executeBuy that serves the signal are one identifier, *)
(* a member of Buys. The executor by itself assumes of its signals what the  *)
(* analyzer has to provide; here it gets them from the analyzer only.        *)
(***************************************************************************)
EXTENDS Executor

CONSTANTS Liquidity, Friction, MinLiqSOL, GraduationGuard, MaxFrictionPct, Capacity,
          Faults, MaxForgets

\* What Analyzer assumes of its constants.
ASSUME AnalyzerAssumption ==
    /\ Liquidity \subseteq Nat /\ Friction \subseteq Nat
    /\ MinLiqSOL \in Nat /\ GraduationGuard \in Nat /\ MaxFrictionPct \in Nat
    /\ Capacity \in Nat /\ MaxForgets \in Nat /\ Faults \in BOOLEAN
    /\ Mints # {}

VARIABLES token, seen, scanned, filtered, dataset, proc, tradeCh, taken, dropped, forgets

analyzerVars == <<token, seen, scanned, filtered, dataset, proc, tradeCh, taken, dropped,
                  forgets>>
executorVars == <<memVars, redisVars, metricVars, records, threadVars, chainVars>>
pipelineVars == <<analyzerVars, executorVars, restarts>>

A == INSTANCE Analyzer WITH Events <- Buys

PipelineInit == Init /\ A!Init

-----------------------------------------------------------------------------
\* An event about the signal's mint, and everything its goroutine does.
Analyze(e) ==
    /\ \/ A!Receive(e) /\ proc'[e].mint = Mint(e)
       \/ A!Deadline(e)
       \/ A!ProcStep(e)
    /\ UNCHANGED <<executorVars, restarts>>

\* Executor.Run receives a signal; its goroutine is there but has not run yet.
Deliver ==
    /\ A!Take
    /\ UNCHANGED <<executorVars, restarts>>

\* Signals of m are in tradeCh, or with a goroutine that is still buying.
OnItsWay(b) ==
    \/ \E i \in DOMAIN tradeCh : tradeCh[i] = b
    \/ b \in taken /\ buy[b].pc # "done"

\* The seen key lives for 48 h, an analysis and a buy for a minute or two. A position
\* may be older.
Expire(m) ==
    /\ A!Forget(m)
    /\ \A b \in Buys : Mint(b) = m => ~OnItsWay(b)
    /\ UNCHANGED <<executorVars, restarts>>

\* The executor moves; a buy begins with its signal.
Execute ==
    /\ \/ \E b \in Buys : (b \in taken /\ BuyStep(b)) \/ Elapse(b)
       \/ TickStep
       \/ \E c \in Checks : CheckStep(c)
       \/ \E s \in Sells : SellStep(s)
       \/ (\E h \in Kills : KillStep(h)) \/ Disarm
       \/ \E t \in Buys \cup Sells : BundleSettles(t)
    /\ UNCHANGED <<analyzerVars, restarts>>

\* One process: both forget, and what was on its way is gone.
RestartBoth ==
    /\ Restart
    /\ A!Restart
    /\ \A b \in Buys : buy'[b].pc = IF buy[b].pc = "idle" /\ b \notin taken THEN "idle" ELSE "done"

PipelineNext ==
    \/ \E e \in Buys : Analyze(e)
    \/ Deliver
    \/ \E m \in Mints : Expire(m)
    \/ Execute
    \/ RestartBoth

PipelineSpec == PipelineInit /\ [][PipelineNext]_pipelineVars

-----------------------------------------------------------------------------
(* Properties *)

\* The executor's own dedup looks at the map, which a buy enters minutes after it
\* looked; that no two buys of a token overlap in between is up to the analyzer's seen
\* key: when a signal arrives, no other one of its token is waiting or being served
\* (TryMarkTokenSeen and executeBuy).
SignalsComeAlone ==
    \A a, b \in Buys : a # b /\ Mint(a) = Mint(b) => ~(OnItsWay(a) /\ OnItsWay(b))

\* The bot buys nothing but tokens that passed the filters and whose record is written, or
\* was lost by the file, whatever fails or restarts in between: SOL spent, lots held and
\* positions all belong to events with the label PASSED_ANALYSIS.
BoughtIsVetted ==
    \A b \in Buys :
      bundle[b].state # "none" \/ pos[b].status # "absent" =>
        A!Vetted(b) /\ A!IsPassed(b)

\* A token is bought no more often than its key came to life.
BuysPerKey ==
    \A m \in Mints :
      Cardinality({b \in Buys : Mint(b) = m /\ (bundle[b].state # "none" \/ pos[b].status # "absent")})
        <= 1 + forgets[m]
=============================================================================
