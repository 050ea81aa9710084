--------------------------- MODULE ListenerProofs ---------------------------
(***************************************************************************)
(* Proofs about Listener: types, no deaf session, and the account of events. *)
(***************************************************************************)
EXTENDS Listener, FiniteSetTheorems, SequenceTheorems, TLAPS

USE ListenerAssumption

(* Types and sessions *)

Ear(s) == reader[s] # "none" \/ s \in closed

\* A reader belongs to a wanted subscription, and at each step of subscribe the
\* subscriptions before it have a reader or a closed channel.
SessionInv ==
    /\ \A s \in Subs : reader[s] # "none" => s \in Wanted
    /\ run = "raydium" => ~RaydiumDisabled
    /\ run = "pump" => \A s \in Wanted \ {"pump"} : Ear(s)
    /\ NoDeafSession

IInv == TypeOK /\ SessionInv

LEMMA SubsWanted == Wanted \subseteq Subs /\ "pump" \in Wanted
BY DEF Wanted, Subs

LEMMA InitInv == Init => IInv
BY SubsWanted DEF Init, IInv, TypeOK, SessionInv, NoDeafSession, NoReaders, Ear, Wanted,
                  Subs

\* What ends a session leaves nothing that could be ill-typed or deaf.
LEMMA EndKeeps ==
    ASSUME IInv, EndSession, UNCHANGED eventVars,
           run' \in {"connect", "wait", "stopped"},
           reconnects' \in Nat, breaks' \in 0..MaxBreaks
    PROVE  IInv'
<1>1. TypeOK'
  BY SMTT(30) DEF IInv, TypeOK, EndSession, eventVars, NoReaders, Subs
<1>2. SessionInv'
  BY DEF SessionInv, NoDeafSession, EndSession, NoReaders, Subs
<1> QED BY <1>1, <1>2 DEF IInv

LEMMA SubscribeKeeps ==
    ASSUME IInv, SubscribeRaydium \/ SubscribePump
    PROVE  IInv'
<1>1. TypeOK'
  <2>1. /\ alive' \subseteq Wanted
        /\ run' \in {"pump", "serve"}
        /\ reader' \in [Subs -> {"none", "recv", "blocked"}]
    <3>1. PICK s \in Subs :
            /\ run = s /\ run' \in {"pump", "serve"}
            /\ alive' = alive \cup {s} /\ reader' = [reader EXCEPT ![s] = "recv"]
      BY DEF SubscribeRaydium, SubscribePump, Subscribe, Subs
    <3>2. s \in Wanted
      BY <3>1 DEF IInv, SessionInv, Wanted, Subs
    <3> QED
      BY <3>1, <3>2 DEF IInv, TypeOK
  <2>2. UNCHANGED <<held, ch, closed, handler, eventCh, received, dropped, scanned,
                    reconnects, breaks>>
    BY DEF SubscribeRaydium, SubscribePump, Subscribe, eventVars
  <2> QED
    BY <2>1, <2>2 DEF IInv, TypeOK
<1>2. SessionInv'
  BY DEF IInv, TypeOK, SessionInv, NoDeafSession, Ear, SubscribeRaydium, SubscribePump,
         Subscribe, Wanted, Subs
<1> QED BY <1>1, <1>2 DEF IInv

\* A reader changes its own channel, and leaves an ear when it goes.
LEMMA ReaderKeeps ==
    ASSUME IInv, NEW s \in Subs, ReaderStep(s)
    PROVE  IInv'
<1> USE DEF IInv, TypeOK
<1>1. CASE \E n \in Notes : Recv(s, n)
  <2>1. PICK n \in Notes : Recv(s, n)
    BY <1>1
  <2>2. CASE Len(ch[s]) < Buffer
    <3>1. /\ Append(ch[s], n) \in Seq(Notes)
          /\ Len(Append(ch[s], n)) = Len(ch[s]) + 1
      BY AppendProperties
    <3>2. ch' = [ch EXCEPT ![s] = Append(@, n)] /\ UNCHANGED <<reader, held>>
      BY <2>1, <2>2 DEF Recv
    <3>3. ch' \in [Subs -> Seq(Notes)] /\ \A t \in Subs : Len(ch'[t]) <= Buffer
      BY <2>2, <3>1, <3>2
    <3>4. handler' = [handler EXCEPT ![n] = "queued"]
      BY <2>1 DEF Recv
    <3>5. TypeOK'
      BY <2>1, <3>2, <3>3, <3>4 DEF Recv, eventVars
    <3>6. SessionInv'
      BY <2>1, <3>2 DEF Recv, SessionInv, NoDeafSession, Ear
    <3> QED BY <3>5, <3>6
  <2>3. CASE ~(Len(ch[s]) < Buffer)
    <3>1. /\ reader' = [reader EXCEPT ![s] = "blocked"] /\ held' = [held EXCEPT ![s] = {n}]
          /\ reader[s] # "none" /\ UNCHANGED <<ch, run, closed>>
      BY <2>1, <2>3 DEF Recv
    <3>2. handler' = [handler EXCEPT ![n] = "queued"]
      BY <2>1 DEF Recv
    <3>3. TypeOK'
      BY <2>1, <3>1, <3>2 DEF Recv, eventVars
    <3>4. SessionInv'
      BY <3>1 DEF SessionInv, NoDeafSession, Ear
    <3> QED BY <3>3, <3>4
  <2> QED BY <2>2, <2>3
<1>2. CASE Unblock(s)
  <2>1. PICK n \in held[s] : ch' = [ch EXCEPT ![s] = Append(@, n)]
    BY <1>2 DEF Unblock
  <2>2. /\ Append(ch[s], n) \in Seq(Notes)
        /\ Len(Append(ch[s], n)) = Len(ch[s]) + 1
    BY AppendProperties
  <2>3. TypeOK'
    BY <1>2, <2>1, <2>2 DEF Unblock, eventVars
  <2>4. SessionInv'
    BY <1>2 DEF Unblock, SessionInv, NoDeafSession, Ear
  <2> QED BY <2>3, <2>4
<1>3. CASE RecvFails(s)
  <2>1. TypeOK'
    BY <1>3 DEF RecvFails, Close, eventVars, SessionInv
  <2>2. SessionInv'
    BY <1>3 DEF RecvFails, Close, SessionInv, NoDeafSession, Ear
  <2> QED BY <2>1, <2>2
<1> QED BY <1>1, <1>2, <1>3 DEF ReaderStep

\* The handlers and the analyzer do not touch the session.
LEMMA HandlerKeeps ==
    ASSUME IInv, (\E n \in Notes : HandlerStep(n)) \/ Take
    PROVE  IInv'
<1> USE DEF IInv, TypeOK
<1>1. ASSUME NEW n \in Notes, HandlerReturns(n) \/ HandlerContinues(n) PROVE IInv'
  BY <1>1 DEF HandlerReturns, HandlerContinues, sessionVars, eventVars, SessionInv,
              NoDeafSession, Ear
<1>2. ASSUME NEW n \in Notes, HandlerSends(n) PROVE IInv'
  <2> DEFINE q == Append(eventCh, n)
  <2>1. q \in Seq(Notes) /\ Len(q) = Len(eventCh) + 1 /\ Len(eventCh) \in Nat
    BY AppendProperties
  <2>2. \/ eventCh' = q /\ dropped' = dropped /\ Len(eventCh) < Capacity
        \/ eventCh' = eventCh /\ dropped' = dropped \cup {n}
    BY <1>2 DEF HandlerSends, Emit
  <2> HIDE DEF q
  <2>6. /\ eventCh' \in Seq(Notes) /\ Len(eventCh') <= Capacity
        /\ dropped' \subseteq Notes /\ scanned' \in Nat
    BY <1>2, <2>1, <2>2 DEF HandlerSends
  <2>3. /\ handler' = [handler EXCEPT ![n] = "done"]
        /\ UNCHANGED <<run, alive, reader, held, ch, closed, received, reconnects, breaks>>
    BY <1>2 DEF HandlerSends, Emit, sessionVars
  <2>4. TypeOK'
    BY <2>3, <2>6
  <2>5. SessionInv'
    BY <2>3 DEF SessionInv, NoDeafSession, Ear
  <2> QED BY <2>4, <2>5
<1>3. CASE Take
  <2>1. /\ Head(eventCh) \in Notes /\ Tail(eventCh) \in Seq(Notes)
        /\ Len(Tail(eventCh)) = Len(eventCh) - 1
    BY <1>3, HeadTailProperties DEF Take
  <2>2. TypeOK'
    BY <1>3, <2>1 DEF Take, sessionVars
  <2>3. SessionInv'
    BY <1>3 DEF Take, sessionVars, SessionInv, NoDeafSession, Ear
  <2> QED BY <2>2, <2>3
<1> QED BY <1>1, <1>2, <1>3 DEF HandlerStep

LEMMA RunKeeps ==
    ASSUME IInv, Connect \/ Wake \/ Break \/ \E s \in Subs : Serve(s)
    PROVE  IInv'
<1> USE DEF IInv, TypeOK
<1>1. CASE Connect
  BY <1>1 DEF Connect, sessionVars, eventVars, SessionInv, NoDeafSession, Ear, Wanted
<1>2. CASE Wake
  BY <1>2 DEF Wake, sessionVars, eventVars, SessionInv, NoDeafSession, Ear
<1>3. CASE Break
  BY <1>3 DEF Break, eventVars, SessionInv, NoDeafSession, Ear
<1>4. ASSUME NEW s \in Subs, Serve(s) PROVE IInv'
  <2>1. /\ Head(ch[s]) \in Notes /\ Tail(ch[s]) \in Seq(Notes)
        /\ Len(Tail(ch[s])) = Len(ch[s]) - 1
    BY <1>4, HeadTailProperties DEF Serve
  <2>2. TypeOK'
    BY <1>4, <2>1 DEF Serve, eventVars
  <2>3. SessionInv'
    BY <1>4 DEF Serve, SessionInv, NoDeafSession, Ear
  <2> QED BY <2>2, <2>3
<1> QED BY <1>1, <1>2, <1>3, <1>4

LEMMA StepInv == IInv /\ [Next]_vars => IInv'
<1> SUFFICES ASSUME IInv, [Next]_vars PROVE IInv'
  OBVIOUS
<1>1. CASE SubscribeFails
  BY <1>1, EndKeeps DEF SubscribeFails, IInv, TypeOK
<1>2. ASSUME NEW s \in Subs, ServeClosed(s) PROVE IInv'
  BY <1>2, EndKeeps DEF ServeClosed, IInv, TypeOK
<1>3. CASE Stop
  BY <1>3, EndKeeps DEF Stop, IInv, TypeOK
<1>4. CASE UNCHANGED vars
  BY <1>4 DEF vars, sessionVars, eventVars, IInv, TypeOK, SessionInv, NoDeafSession, Ear
<1> QED
  BY <1>1, <1>2, <1>3, <1>4, SubscribeKeeps, ReaderKeeps, HandlerKeeps, RunKeeps
     DEF Next, RunStep

\* Every reachable state of the listener is well typed: no channel exceeds its capacity,
\* and a disabled subscription is never used (Run, subscribe, the handlers' sends).
THEOREM ListenerTypes == Spec => []TypeOK
<1>1. IInv => TypeOK
  BY DEF IInv
<1> QED BY <1>1, InitInv, StepInv, PTL DEF Spec

\* A session whose select loop runs has, for every subscription, a reader or a closed
\* channel that will end it, whatever breaks and when (subscribe and its readers).
THEOREM SessionsHear == Spec => []NoDeafSession
<1>1. IInv => NoDeafSession
  BY DEF IInv, SessionInv
<1> QED BY <1>1, InitInv, StepInv, PTL DEF Spec

-----------------------------------------------------------------------------
(* The account of events *)

\* A notification is in one place at a time: the channels and the blocked readers hold
\* queued ones, each of them once.
OnePlace ==
    /\ \A s \in Subs : \A i \in 1..Len(ch[s]) : handler[ch[s][i]] = "queued"
    /\ \A s \in Subs : \A n \in held[s] : handler[n] = "queued"
    /\ \A s \in Subs : \A i, j \in 1..Len(ch[s]) : ch[s][i] = ch[s][j] => i = j
    /\ \A s, t \in Subs : \A i \in 1..Len(ch[s]), j \in 1..Len(ch[t]) :
         ch[s][i] = ch[t][j] => s = t
    /\ \A s, t \in Subs : \A i \in 1..Len(ch[s]) : ch[s][i] \notin held[t]
    /\ \A s, t \in Subs : \A n \in held[s] : n \in held[t] => s = t

\* Only what a handler is done with has become an event.
DoneWith ==
    /\ \A i \in 1..Len(eventCh) : handler[eventCh[i]] = "done"
    /\ \A n \in received \cup dropped : handler[n] = "done"
    /\ IsFiniteSet(received) /\ IsFiniteSet(dropped)

AccountInv == OnePlace /\ DoneWith /\ EventsAccounted

LEMMA InitAccount == Init => AccountInv
BY FS_EmptySet DEF Init, AccountInv, OnePlace, DoneWith, EventsAccounted

\* Handlers that are done stay done, and nothing is sent or received.
LEMMA AccountStays ==
    ASSUME DoneWith, EventsAccounted, UNCHANGED <<eventCh, received, dropped, scanned>>,
           \A n \in Notes : handler[n] = "done" => handler'[n] = "done", TypeOK
    PROVE  DoneWith' /\ EventsAccounted'
<1>1. \A i \in 1..Len(eventCh) : eventCh[i] \in Notes
  BY DEF TypeOK
<1> QED BY <1>1 DEF DoneWith, EventsAccounted, TypeOK

\* A session that ends leaves the channels empty.
LEMMA EndAccounts ==
    ASSUME TypeOK, AccountInv, EndSession, UNCHANGED eventVars
    PROVE  AccountInv'
<1>1. \A n \in Notes : handler[n] = "done" => handler'[n] = "done"
  BY DEF EndSession
<1>2. OnePlace'
  BY DEF EndSession, OnePlace
<1> QED BY <1>1, <1>2, AccountStays DEF AccountInv, eventVars

\* Handlers move only from where they are not queued.
LEMMA PlacesStay ==
    ASSUME TypeOK, OnePlace, UNCHANGED <<ch, held>>,
           \A n \in Notes : handler[n] = "queued" => handler'[n] = "queued"
    PROVE  OnePlace'
<1>1. \A s \in Subs : \A i \in 1..Len(ch[s]) : ch[s][i] \in Notes
  BY DEF TypeOK
<1>2. \A s \in Subs : held[s] \subseteq Notes
  BY DEF TypeOK
<1> QED BY <1>1, <1>2 DEF OnePlace

LEMMA RecvAccounts ==
    ASSUME TypeOK, AccountInv, NEW s \in Subs, NEW n \in Notes, Recv(s, n)
    PROVE  AccountInv'
<1>1. /\ handler[n] = "none" /\ handler' = [handler EXCEPT ![n] = "queued"]
      /\ UNCHANGED <<eventCh, received, dropped, scanned>>
  BY DEF Recv, eventVars
<1>2. DoneWith' /\ EventsAccounted'
  BY <1>1, AccountStays DEF AccountInv, TypeOK
<1>3. /\ \A t \in Subs : \A i \in 1..Len(ch[t]) : ch[t][i] \in Notes /\ ch[t][i] # n
      /\ \A t \in Subs : held[t] \subseteq Notes /\ n \notin held[t]
  BY <1>1 DEF TypeOK, AccountInv, OnePlace
<1>4. OnePlace'
  <2>1. CASE Len(ch[s]) < Buffer
    <3>1. ch' = [ch EXCEPT ![s] = Append(@, n)] /\ UNCHANGED held
      BY <2>1 DEF Recv
    <3> DEFINE c == Append(ch[s], n)
    <3>2. /\ Len(c) = Len(ch[s]) + 1 /\ c[Len(ch[s]) + 1] = n
          /\ \A i \in 1..Len(ch[s]) : c[i] = ch[s][i]
          /\ Len(ch[s]) \in Nat
      BY AppendProperties DEF TypeOK
    <3>3. \A i \in 1..Len(c) : i \in 1..Len(ch[s]) \/ i = Len(ch[s]) + 1
      BY <3>2
    <3>4. ch'[s] = c /\ \A t \in Subs \ {s} : ch'[t] = ch[t]
      BY <3>1 DEF TypeOK
    <3>5. handler'[n] = "queued" /\ \A m \in Notes \ {n} : handler'[m] = handler[m]
      BY <1>1 DEF TypeOK
    <3> HIDE DEF c
    <3> QED
      BY <1>3, <3>1, <3>2, <3>3, <3>4, <3>5, SMTT(30) DEF AccountInv, OnePlace
  <2>2. CASE ~(Len(ch[s]) < Buffer)
    <3>1. held' = [held EXCEPT ![s] = {n}] /\ UNCHANGED ch
      BY <2>2 DEF Recv
    <3> QED BY <1>1, <1>3, <3>1 DEF AccountInv, OnePlace, TypeOK
  <2> QED BY <2>1, <2>2
<1> QED BY <1>2, <1>4 DEF AccountInv

LEMMA UnblockAccounts ==
    ASSUME TypeOK, AccountInv, NEW s \in Subs, Unblock(s)
    PROVE  AccountInv'
<1>1. UNCHANGED <<handler, eventCh, received, dropped, scanned>>
  BY DEF Unblock, eventVars
<1>2. DoneWith' /\ EventsAccounted'
  BY <1>1, AccountStays DEF AccountInv
<1>3. PICK n \in held[s] : ch' = [ch EXCEPT ![s] = Append(@, n)]
  BY DEF Unblock
<1> DEFINE c == Append(ch[s], n)
<1>4. /\ Len(c) = Len(ch[s]) + 1 /\ c[Len(ch[s]) + 1] = n
      /\ \A i \in 1..Len(ch[s]) : c[i] = ch[s][i]
      /\ Len(ch[s]) \in Nat
  BY AppendProperties DEF TypeOK
<1>5. \A i \in 1..Len(c) : i \in 1..Len(ch[s]) \/ i = Len(ch[s]) + 1
  BY <1>4
<1>6. /\ ch'[s] = c /\ \A t \in Subs \ {s} : ch'[t] = ch[t]
      /\ held'[s] = {} /\ \A t \in Subs \ {s} : held'[t] = held[t]
  BY <1>3 DEF Unblock, TypeOK
<1>7. OnePlace
  BY DEF AccountInv
<1> HIDE DEF c
<1>8. OnePlace'
  <2>1. \A t \in Subs : \A i \in 1..Len(ch'[t]) : handler[ch'[t][i]] = "queued"
    BY <1>4, <1>5, <1>6, <1>7 DEF OnePlace
  <2>2. \A t \in Subs : \A m \in held'[t] : handler[m] = "queued" /\ m \in held[t] /\ t # s
    BY <1>6, <1>7 DEF OnePlace
  <2>3. \A t \in Subs : \A i, j \in 1..Len(ch'[t]) : ch'[t][i] = ch'[t][j] => i = j
    BY <1>4, <1>5, <1>6, <1>7 DEF OnePlace
  <2>4. \A t, u \in Subs : \A i \in 1..Len(ch'[t]), j \in 1..Len(ch'[u]) :
          ch'[t][i] = ch'[u][j] => t = u
    <3>1. \A t, u \in Subs \ {s} : \A i \in 1..Len(ch'[t]), j \in 1..Len(ch'[u]) :
            ch'[t][i] = ch'[u][j] => t = u
      BY <1>6, <1>7 DEF OnePlace
    <3>2. \A u \in Subs \ {s} : \A i \in 1..Len(c), j \in 1..Len(ch[u]) : c[i] # ch[u][j]
      BY <1>4, <1>5, <1>7 DEF OnePlace
    <3> QED BY <1>6, <3>1, <3>2
  <2>5. \A t, u \in Subs : \A i \in 1..Len(ch'[t]) : ch'[t][i] \notin held'[u]
    BY <1>4, <1>5, <1>6, <1>7, <2>2 DEF OnePlace
  <2>6. \A t, u \in Subs : \A m \in held'[t] : m \in held'[u] => t = u
    BY <1>7, <2>2 DEF OnePlace
  <2> QED BY <1>1, <2>1, <2>2, <2>3, <2>4, <2>5, <2>6 DEF OnePlace
<1> QED BY <1>2, <1>8 DEF AccountInv

LEMMA ServeAccounts ==
    ASSUME TypeOK, AccountInv, NEW s \in Subs, Serve(s)
    PROVE  AccountInv'
<1> DEFINE n == Head(ch[s])
           c == Tail(ch[s])
<1>1. /\ n \in Notes /\ n = ch[s][1] /\ Len(ch[s]) \in Nat \ {0}
      /\ Len(c) = Len(ch[s]) - 1
      /\ \A i \in 1..Len(c) : c[i] = ch[s][i + 1] /\ i + 1 \in 1..Len(ch[s])
  <2>1. ch[s] \in Seq(Notes) /\ ch[s] # <<>>
    BY DEF Serve, TypeOK
  <2>2. /\ Head(ch[s]) \in Notes /\ Len(Tail(ch[s])) = Len(ch[s]) - 1
        /\ \A i \in 1..Len(Tail(ch[s])) : Tail(ch[s])[i] = ch[s][i + 1]
    BY <2>1, HeadTailProperties
  <2>3. Len(ch[s]) \in Nat \ {0} /\ Head(ch[s]) = ch[s][1]
    BY <2>1, EmptySeq
  <2> QED BY <2>2, <2>3
<1>2. /\ ch'[s] = c /\ \A t \in Subs \ {s} : ch'[t] = ch[t]
      /\ UNCHANGED <<held, eventCh, received, dropped, scanned>>
      /\ handler' = [handler EXCEPT ![n] = "filter"]
  BY DEF Serve, eventVars, TypeOK
<1>3. handler[n] = "queued" /\ OnePlace
  BY <1>1 DEF AccountInv, OnePlace
<1> HIDE DEF n, c
<1>4. \A m \in Notes \ {n} : handler'[m] = handler[m]
  BY <1>2 DEF TypeOK
<1>5. DoneWith' /\ EventsAccounted'
  BY <1>2, <1>3, <1>4, AccountStays DEF AccountInv
<1>6. \A t \in Subs : \A i \in 1..Len(ch'[t]) :
        \E j \in 1..Len(ch[t]) :
          ch'[t][i] = ch[t][j] /\ j = (IF t = s THEN i + 1 ELSE i) /\ ch[t][j] \in Notes \ {n}
  <2>1. \A t \in Subs : \A j \in 1..Len(ch[t]) : ch[t][j] \in Notes
    BY DEF TypeOK
  <2>2. \A i \in 1..Len(ch'[s]) :
          /\ i + 1 \in 1..Len(ch[s]) /\ ch'[s][i] = ch[s][i + 1]
          /\ ch[s][i + 1] # n
    BY <1>1, <1>2, <1>3 DEF OnePlace
  <2>3. \A t \in Subs \ {s} : \A j \in 1..Len(ch[t]) : ch[t][j] # n
    BY <1>1, <1>3 DEF OnePlace
  <2> QED BY <1>2, <2>1, <2>2, <2>3
<1>7. \A t \in Subs : n \notin held[t] /\ held[t] \subseteq Notes
  BY <1>1, <1>3 DEF OnePlace, TypeOK
<1>8. OnePlace'
  <2>1. \A t \in Subs : \A i \in 1..Len(ch'[t]) : handler'[ch'[t][i]] = "queued"
    BY <1>3, <1>4, <1>6, SMTT(30) DEF OnePlace
  <2>2. \A t \in Subs : \A m \in held'[t] : handler'[m] = "queued"
    BY <1>2, <1>3, <1>4, <1>7 DEF OnePlace
  <2>3. \A t \in Subs : \A i, j \in 1..Len(ch'[t]) : ch'[t][i] = ch'[t][j] => i = j
    <3>1. SUFFICES ASSUME NEW t \in Subs, NEW i \in 1..Len(ch'[t]), NEW j \in 1..Len(ch'[t]),
                          ch'[t][i] = ch'[t][j]
                   PROVE  i = j
      OBVIOUS
    <3>2. PICK k \in 1..Len(ch[t]) :
            ch'[t][i] = ch[t][k] /\ k = (IF t = s THEN i + 1 ELSE i)
      BY <1>6
    <3>3. PICK l \in 1..Len(ch[t]) :
            ch'[t][j] = ch[t][l] /\ l = (IF t = s THEN j + 1 ELSE j)
      BY <1>6
    <3>4. k = l
      BY <1>3, <3>1, <3>2, <3>3 DEF OnePlace
    <3> QED BY <3>2, <3>3, <3>4
  <2>4. \A t, u \in Subs : \A i \in 1..Len(ch'[t]), j \in 1..Len(ch'[u]) :
          ch'[t][i] = ch'[u][j] => t = u
    BY <1>3, <1>6 DEF OnePlace
  <2>5. \A t, u \in Subs : \A i \in 1..Len(ch'[t]) : ch'[t][i] \notin held'[u]
    BY <1>2, <1>3, <1>6 DEF OnePlace
  <2>6. \A t, u \in Subs : \A m \in held'[t] : m \in held'[u] => t = u
    BY <1>2, <1>3 DEF OnePlace
  <2> QED BY <2>1, <2>2, <2>3, <2>4, <2>5, <2>6 DEF OnePlace
<1> QED BY <1>5, <1>8 DEF AccountInv

\* A handler sends its event once, to the channel or to the floor.
LEMMA SendAccounts ==
    ASSUME TypeOK, AccountInv, NEW n \in Notes, HandlerSends(n)
    PROVE  AccountInv'
<1>1. /\ handler[n] = "send" /\ handler' = [handler EXCEPT ![n] = "done"]
      /\ scanned' = scanned + 1 /\ UNCHANGED <<ch, held, received>>
  BY DEF HandlerSends, Emit, sessionVars
<1>2. OnePlace'
  BY <1>1, PlacesStay DEF AccountInv, TypeOK
<1>3. /\ n \notin received \cup dropped
      /\ \A i \in 1..Len(eventCh) : eventCh[i] # n /\ eventCh[i] \in Notes
  BY <1>1 DEF AccountInv, DoneWith, TypeOK
<1>4. handler'[n] = "done" /\ \A m \in Notes \ {n} : handler'[m] = handler[m]
  BY <1>1 DEF TypeOK
<1>5. /\ Len(eventCh) \in Nat /\ Cardinality(received) \in Nat /\ Cardinality(dropped) \in Nat
      /\ received \subseteq Notes /\ dropped \subseteq Notes /\ scanned \in Nat
  BY FS_CardinalityType DEF AccountInv, DoneWith, TypeOK
<1>6. CASE Len(eventCh) < Capacity
  <2> DEFINE q == Append(eventCh, n)
  <2>1. eventCh' = q /\ UNCHANGED dropped
    BY <1>6 DEF HandlerSends, Emit
  <2>2. /\ Len(q) = Len(eventCh) + 1 /\ q[Len(eventCh) + 1] = n
        /\ \A i \in 1..Len(eventCh) : q[i] = eventCh[i]
    BY AppendProperties DEF TypeOK
  <2> HIDE DEF q
  <2>3. \A i \in 1..Len(q) : i \in 1..Len(eventCh) \/ i = Len(eventCh) + 1
    BY <1>5, <2>2
  <2>4. DoneWith'
    BY <1>1, <1>3, <1>4, <1>5, <2>1, <2>2, <2>3 DEF AccountInv, DoneWith
  <2>5. EventsAccounted'
    <3>1. scanned' = Len(q) + Cardinality(received) + Cardinality(dropped)
      BY <1>1, <1>5, <2>2 DEF AccountInv, EventsAccounted
    <3>2. \A i, j \in 1..Len(q) : i # j => q[i] # q[j]
      BY <1>3, <1>5, <2>2, <2>3 DEF AccountInv, EventsAccounted
    <3>3. \A i \in 1..Len(q) : q[i] \notin received \cup dropped
      BY <1>3, <2>2, <2>3 DEF AccountInv, EventsAccounted
    <3> QED BY <1>1, <2>1, <3>1, <3>2, <3>3 DEF AccountInv, EventsAccounted
  <2> QED BY <1>2, <2>4, <2>5 DEF AccountInv
<1>7. CASE ~(Len(eventCh) < Capacity)
  <2>1. dropped' = dropped \cup {n} /\ UNCHANGED eventCh
    BY <1>7 DEF HandlerSends, Emit
  <2>2. IsFiniteSet(dropped') /\ Cardinality(dropped') = Cardinality(dropped) + 1
    BY <1>3, <2>1, FS_AddElement DEF AccountInv, DoneWith
  <2>3. DoneWith'
    BY <1>1, <1>3, <1>4, <1>5, <2>1, <2>2 DEF AccountInv, DoneWith
  <2>4. EventsAccounted'
    BY <1>1, <1>3, <1>5, <2>1, <2>2, SMTT(30) DEF AccountInv, EventsAccounted
  <2> QED BY <1>2, <2>3, <2>4 DEF AccountInv
<1> QED BY <1>6, <1>7

LEMMA TakeAccounts ==
    ASSUME TypeOK, AccountInv, Take
    PROVE  AccountInv'
<1> DEFINE n == Head(eventCh)
           q == Tail(eventCh)
<1>1. /\ n \in Notes /\ n = eventCh[1] /\ Len(eventCh) \in Nat \ {0}
      /\ Len(q) = Len(eventCh) - 1
      /\ \A i \in 1..Len(q) : q[i] = eventCh[i + 1] /\ i + 1 \in 1..Len(eventCh)
  <2>1. eventCh \in Seq(Notes) /\ eventCh # <<>>
    BY DEF Take, TypeOK
  <2>2. /\ Head(eventCh) \in Notes /\ Len(Tail(eventCh)) = Len(eventCh) - 1
        /\ \A i \in 1..Len(Tail(eventCh)) : Tail(eventCh)[i] = eventCh[i + 1]
    BY <2>1, HeadTailProperties
  <2>3. Len(eventCh) \in Nat \ {0} /\ Head(eventCh) = eventCh[1]
    BY <2>1, EmptySeq
  <2> QED BY <2>2, <2>3
<1>2. /\ received' = received \cup {n} /\ eventCh' = q
      /\ UNCHANGED <<ch, held, handler, dropped, scanned>>
  BY DEF Take, sessionVars
<1> HIDE DEF n, q
<1>3. OnePlace'
  BY <1>2, PlacesStay DEF AccountInv
<1>4. n \notin received \cup dropped /\ \A i \in 1..Len(q) : q[i] # n
  BY <1>1 DEF AccountInv, EventsAccounted
<1>5. /\ IsFiniteSet(received') /\ Cardinality(received') = Cardinality(received) + 1
      /\ Cardinality(received) \in Nat /\ Cardinality(dropped) \in Nat
  BY <1>2, <1>4, FS_AddElement, FS_CardinalityType DEF AccountInv, DoneWith
<1>6. DoneWith'
  BY <1>1, <1>2, <1>5 DEF AccountInv, DoneWith
<1>7. EventsAccounted'
  <2>1. scanned = Len(q) + Cardinality(received') + Cardinality(dropped)
    BY <1>1, <1>5 DEF AccountInv, EventsAccounted
  <2>2. \A i, j \in 1..Len(q) : i # j => q[i] # q[j]
    BY <1>1 DEF AccountInv, EventsAccounted
  <2>3. \A i \in 1..Len(q) : q[i] \notin received' \cup dropped
    BY <1>1, <1>2, <1>4 DEF AccountInv, EventsAccounted
  <2>4. received' \cap dropped = {}
    BY <1>2, <1>4 DEF AccountInv, EventsAccounted
  <2> QED BY <1>2, <2>1, <2>2, <2>3, <2>4 DEF EventsAccounted
<1> QED BY <1>3, <1>6, <1>7 DEF AccountInv

LEMMA StepAccounts == TypeOK /\ AccountInv /\ [Next]_vars => AccountInv'
<1> SUFFICES ASSUME TypeOK, AccountInv, [Next]_vars PROVE AccountInv'
  OBVIOUS
<1>1. CASE UNCHANGED <<held, ch, handler, eventCh, received, dropped, scanned>>
  BY <1>1, AccountStays, PlacesStay DEF AccountInv
<1>2. CASE Connect \/ SubscribeRaydium \/ SubscribePump \/ Wake \/ Break \/ UNCHANGED vars
  BY <1>1, <1>2 DEF Connect, SubscribeRaydium, SubscribePump, Subscribe, Wake, Break, vars,
                    sessionVars, eventVars
<1>3. CASE SubscribeFails \/ Stop \/ \E s \in Subs : ServeClosed(s)
  BY <1>3, EndAccounts DEF SubscribeFails, Stop, ServeClosed
<1>4. ASSUME NEW s \in Subs, RecvFails(s) PROVE AccountInv'
  BY <1>1, <1>4 DEF RecvFails, eventVars
<1>5. ASSUME NEW n \in Notes, HandlerReturns(n) \/ HandlerContinues(n) PROVE AccountInv'
  <2>1. /\ UNCHANGED <<held, ch, eventCh, received, dropped, scanned>>
        /\ handler[n] \in {"filter", "fetch", "balance"}
        /\ \A m \in Notes \ {n} : handler'[m] = handler[m]
    BY <1>5 DEF HandlerReturns, HandlerContinues, sessionVars, eventVars, TypeOK
  <2> QED BY <2>1, AccountStays, PlacesStay DEF AccountInv
<1> QED
  BY <1>2, <1>3, <1>4, <1>5, RecvAccounts, UnblockAccounts, ServeAccounts, SendAccounts,
     TakeAccounts DEF Next, RunStep, ReaderStep, HandlerStep

\* A notification becomes at most one event, and TokensScanned counts the events sent and
\* dropped, for any number of notifications, sessions and breaks (handleRaydium,
\* handlePumpFun and their non-blocking sends).
THEOREM EventsAreAccounted == Spec => []EventsAccounted
<1>1. AccountInv => EventsAccounted
  BY DEF AccountInv
<1> QED BY <1>1, InitAccount, StepAccounts, ListenerTypes, PTL DEF Spec
=============================================================================
