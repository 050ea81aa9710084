------------------------------ MODULE Listener ------------------------------
(***************************************************************************)
(* The listener of the trading bot (src/internal/listener/listener.go).     *)
(*                                                                         *)
(* Run keeps one session after another: a WebSocket connection with one     *)
(* subscription per program, one reader goroutine and one bounded channel   *)
(* per subscription, and a select loop that spawns a handler goroutine per   *)
(* notification. Handlers outlive the session and send token events to the  *)
(* bounded eventCh without blocking.                                        *)
(***************************************************************************)
EXTENDS Integers, Sequences, FiniteSets

CONSTANTS
    Notes,           \* log notifications the node sends
    RaydiumDisabled, \* cfg.RaydiumDisabled
    Buffer,          \* capacity of raydiumCh and pumpCh
    Capacity,        \* capacity of eventCh
    MaxBreaks,       \* subscriptions that break (bound)
    Stops            \* whether the process may shut down

ASSUME ListenerAssumption ==
    /\ RaydiumDisabled \in BOOLEAN /\ Stops \in BOOLEAN
    /\ Buffer \in Nat /\ Capacity \in Nat /\ MaxBreaks \in Nat

VARIABLES
    run,        \* where the Run goroutine is
    alive,      \* subscriptions the node still serves
    reader,     \* the session's reader goroutines
    held,       \* what a blocked reader wants to send
    ch,         \* raydiumCh and pumpCh
    closed,     \* the channels their reader has closed
    handler,    \* the handler goroutine of each notification
    eventCh,    \* events on their way to the analyzer
    received,   \* events the analyzer has received
    dropped,    \* events dropped at a full eventCh
    scanned,    \* counter TokensScanned
    reconnects, \* counter WSReconnections
    breaks      \* connections and subscriptions that failed so far

sessionVars == <<alive, reader, held, ch, closed>>
eventVars == <<eventCh, received, dropped, scanned>>
vars == <<run, sessionVars, handler, eventVars, reconnects, breaks>>

Subs == {"raydium", "pump"}
Wanted == IF RaydiumDisabled THEN {"pump"} ELSE Subs

NoReaders == [s \in Subs |-> "none"]

\* Deferred Unsubscribe and Close: the node stops serving, the channels are forgotten
\* with what is in them.
\* A reader in Recv gets an error and returns; one that blocks on a full channel
\* never touches the next session.
EndSession ==
    /\ alive' = {}
    /\ reader' = NoReaders
    /\ held' = [s \in Subs |-> {}]
    /\ ch' = [s \in Subs |-> <<>>]
    /\ closed' = {}
    /\ handler' = [n \in Notes |-> IF handler[n] = "queued" THEN "lost" ELSE handler[n]]

Init ==
    /\ run = "connect"
    /\ alive = {}
    /\ reader = NoReaders
    /\ held = [s \in Subs |-> {}]
    /\ ch = [s \in Subs |-> <<>>]
    /\ closed = {}
    /\ handler = [n \in Notes |-> "none"]
    /\ eventCh = <<>>
    /\ received = {}
    /\ dropped = {}
    /\ scanned = 0
    /\ reconnects = 0
    /\ breaks = 0

-----------------------------------------------------------------------------
(* Run and subscribe *)

\* subscribe returns an error: Run counts a reconnection and waits five seconds.
SubscribeFails ==
    /\ run \in {"connect", "raydium", "pump"}
    /\ breaks < MaxBreaks
    /\ breaks' = breaks + 1
    /\ run' = "wait"
    /\ reconnects' = reconnects + 1
    /\ EndSession
    /\ UNCHANGED eventVars

Connect ==
    /\ run = "connect"
    /\ run' = IF RaydiumDisabled THEN "pump" ELSE "raydium"
    /\ UNCHANGED <<sessionVars, handler, eventVars, reconnects, breaks>>

Subscribe(s, next) ==
    /\ run = s
    /\ alive' = alive \cup {s}
    /\ reader' = [reader EXCEPT ![s] = "recv"]
    /\ run' = next
    /\ UNCHANGED <<held, ch, closed, handler, eventVars, reconnects, breaks>>

SubscribeRaydium == Subscribe("raydium", "pump")
SubscribePump == Subscribe("pump", "serve")

Wake ==
    /\ run = "wait"
    /\ run' = "connect"
    /\ UNCHANGED <<sessionVars, handler, eventVars, reconnects, breaks>>

\* The select loop takes a notification.
Serve(s) ==
    /\ run = "serve" /\ ch[s] # <<>>
    /\ handler' = [handler EXCEPT ![Head(ch[s])] = "filter"]
    /\ ch' = [ch EXCEPT ![s] = Tail(@)]
    /\ UNCHANGED <<run, alive, reader, held, closed, eventVars, reconnects, breaks>>

\* The loop finds a closed channel, emptied before: subscribe returns nil, and Run
\* connects again at once.
ServeClosed(s) ==
    /\ run = "serve" /\ ch[s] = <<>> /\ s \in closed
    /\ run' = "connect"
    /\ EndSession
    /\ UNCHANGED <<eventVars, reconnects, breaks>>

\* The process context is cancelled.
Stop ==
    /\ Stops
    /\ run \in {"connect", "wait", "serve"}
    /\ run' = "stopped"
    /\ EndSession
    /\ UNCHANGED <<eventVars, reconnects, breaks>>

-----------------------------------------------------------------------------
(* The reader goroutines *)

\* Recv returns a notification, which goes to the channel or blocks the reader.
Recv(s, n) ==
    /\ reader[s] = "recv" /\ s \in alive
    /\ handler[n] = "none"
    /\ handler' = [handler EXCEPT ![n] = "queued"]
    /\ IF Len(ch[s]) < Buffer
       THEN ch' = [ch EXCEPT ![s] = Append(@, n)] /\ UNCHANGED <<reader, held>>
       ELSE /\ reader' = [reader EXCEPT ![s] = "blocked"]
            /\ held' = [held EXCEPT ![s] = {n}]
            /\ UNCHANGED ch
    /\ UNCHANGED <<run, alive, closed, eventVars, reconnects, breaks>>

Unblock(s) ==
    /\ reader[s] = "blocked" /\ Len(ch[s]) < Buffer
    /\ \E n \in held[s] : ch' = [ch EXCEPT ![s] = Append(@, n)]
    /\ held' = [held EXCEPT ![s] = {}]
    /\ reader' = [reader EXCEPT ![s] = "recv"]
    /\ UNCHANGED <<run, alive, closed, handler, eventVars, reconnects, breaks>>

\* Fault: the reader returns without close(ch).
CloseForgotten(s) == UNCHANGED closed

Close(s) == closed' = closed \cup {s}

\* Recv returns an error: the reader closes its channel and returns.
RecvFails(s) ==
    /\ reader[s] = "recv" /\ s \notin alive
    /\ reader' = [reader EXCEPT ![s] = "none"]
    /\ Close(s)
    /\ UNCHANGED <<run, alive, held, ch, handler, eventVars, reconnects, breaks>>

\* The connection is lost, or the node drops one subscription of it.
Break ==
    /\ breaks < MaxBreaks
    /\ \E lost \in SUBSET alive : lost # {} /\ alive' = alive \ lost
    /\ breaks' = breaks + 1
    /\ UNCHANGED <<run, reader, held, ch, closed, handler, eventVars, reconnects>>

-----------------------------------------------------------------------------
(* handleRaydium and handlePumpFun *)

\* A failed transaction, no create instruction, an RPC error, an instruction that does
\* not match or a pool without SOL: the handler returns.
HandlerReturns(n) ==
    /\ handler[n] \in {"filter", "fetch", "balance"}
    /\ handler' = [handler EXCEPT ![n] = "done"]
    /\ UNCHANGED <<run, sessionVars, eventVars, reconnects, breaks>>

\* The logs name a creation; the transaction is fetched; the pool's SOL is read.
HandlerContinues(n) ==
    /\ handler[n] \in {"filter", "fetch", "balance"}
    /\ handler' = [handler EXCEPT ![n] =
                     CASE @ = "filter" -> "fetch" [] @ = "fetch" -> "balance" [] OTHER -> "send"]
    /\ UNCHANGED <<run, sessionVars, eventVars, reconnects, breaks>>

\* Fault: an event dropped at a full channel is sent again later.
EmitAgain(n) ==
    IF Len(eventCh) < Capacity
    THEN /\ eventCh' = Append(eventCh, n)
         /\ handler' = [handler EXCEPT ![n] = "done"]
         /\ UNCHANGED dropped
    ELSE dropped' = dropped \cup {n} /\ UNCHANGED <<eventCh, handler>>

\* Fault: the send blocks while the channel is full.
EmitBlocking(n) ==
    /\ Len(eventCh) < Capacity
    /\ eventCh' = Append(eventCh, n)
    /\ handler' = [handler EXCEPT ![n] = "done"]
    /\ UNCHANGED dropped

\* The non-blocking send.
Emit(n) ==
    /\ IF Len(eventCh) < Capacity
       THEN eventCh' = Append(eventCh, n) /\ UNCHANGED dropped
       ELSE dropped' = dropped \cup {n} /\ UNCHANGED eventCh
    /\ handler' = [handler EXCEPT ![n] = "done"]

HandlerSends(n) ==
    /\ handler[n] = "send"
    /\ scanned' = scanned + 1
    /\ Emit(n)
    /\ UNCHANGED <<run, sessionVars, received, reconnects, breaks>>

\* Analyzer.Run takes an event.
Take ==
    /\ eventCh # <<>>
    /\ received' = received \cup {Head(eventCh)}
    /\ eventCh' = Tail(eventCh)
    /\ UNCHANGED <<run, sessionVars, handler, dropped, scanned, reconnects, breaks>>

RunStep ==
    \/ Connect \/ SubscribeRaydium \/ SubscribePump \/ Wake
    \/ \E s \in Subs : Serve(s) \/ ServeClosed(s)

ReaderStep(s) == Unblock(s) \/ RecvFails(s) \/ \E n \in Notes : Recv(s, n)

HandlerStep(n) == HandlerReturns(n) \/ HandlerContinues(n) \/ HandlerSends(n)

Next ==
    \/ RunStep \/ SubscribeFails \/ Stop \/ Break \/ Take
    \/ \E s \in Subs : ReaderStep(s)
    \/ \E n \in Notes : HandlerStep(n)

Spec == Init /\ [][Next]_vars

\* Goroutines are scheduled; select picks among its ready cases at random, so none
\* waits for ever. Connections fail at most MaxBreaks times.
Fairness ==
    /\ WF_vars(RunStep)
    /\ \A s \in Subs :
         /\ WF_vars(ReaderStep(s))
         /\ SF_vars(Serve(s))
         /\ SF_vars(ServeClosed(s))
    /\ \A n \in Notes : WF_vars(HandlerStep(n))

FairSpec == Spec /\ Fairness

-----------------------------------------------------------------------------
(* Properties *)

\* Every variable has its type; a channel never exceeds its capacity, and the one of a
\* disabled subscription is never used.
TypeOK ==
    /\ run \in {"connect", "raydium", "pump", "serve", "wait", "stopped"}
    /\ alive \subseteq Wanted /\ closed \subseteq Wanted
    /\ reader \in [Subs -> {"none", "recv", "blocked"}]
    /\ held \in [Subs -> SUBSET Notes]
    /\ ch \in [Subs -> Seq(Notes)] /\ \A s \in Subs : Len(ch[s]) <= Buffer
    /\ handler \in [Notes -> {"none", "queued", "filter", "fetch", "balance", "send", "done",
                             "lost"}]
    /\ eventCh \in Seq(Notes) /\ Len(eventCh) <= Capacity
    /\ received \subseteq Notes /\ dropped \subseteq Notes
    /\ scanned \in Nat /\ reconnects \in Nat /\ breaks \in 0..MaxBreaks

\* A session is never half dead: while the select loop runs, every subscription has a
\* reader or a closed channel that will end the session.
NoDeafSession == run = "serve" => \A s \in Wanted : reader[s] # "none" \/ s \in closed

\* One notification becomes at most one event, and the TokensScanned counter is the
\* number of events sent or dropped, whatever sessions come and go meanwhile.
EventsAccounted ==
    /\ scanned = Len(eventCh) + Cardinality(received) + Cardinality(dropped)
    /\ received \cap dropped = {}
    /\ \A i, j \in 1..Len(eventCh) : i # j => eventCh[i] # eventCh[j]
    /\ \A i \in 1..Len(eventCh) : eventCh[i] \notin received \cup dropped

\* After a connection is lost, or one of its subscriptions, the listener ends up with
\* all its subscriptions served again, unless the process shuts down.
Resubscribes == [](alive # Wanted => <>(alive = Wanted \/ run = "stopped"))

\* A notification that was received gets its handler, which returns, unless the session
\* ends first: neither a busy subscription nor a full channel starves the other.
Served == \A n \in Notes : handler[n] = "queued" ~> handler[n] \in {"done", "lost"}
=============================================================================
