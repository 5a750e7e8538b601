------------------------ MODULE TunnelControl_proofs ------------------------
(***************************************************************************)
(* Machine-checked proofs about TunnelControl, for every set of clients    *)
(* and sessions, whether or not database writes may fail and whether or    *)
(* not the other engine is started.                                        *)
(*                                                                         *)
(* The invariants lean on each other:                                      *)
(*   - NoOrphan needs to know that close() captures the registry when its  *)
(*     queue is still empty (QueueWhileClosing);                           *)
(*   - RestartForgets needs to know that every goroutine that may still    *)
(*     write a heartbeat belongs to a client seen since the last start     *)
(*     (WritersSeen), hence that none survives a stop (QuietWhenDown).     *)
(***************************************************************************)
EXTENDS TunnelControl, TLAPS

\* close() works through its queue only while the server is closing, after it has
\* taken the sessions out of the registry.
QueueWhileClosing == closeQueue # {} => phase = "closing" /\ closed

\* Start finds no goroutine of an earlier server: Wait has seen them return, or
\* the process died.
QuietWhenDown ==
    phase \in {"down", "closed"} =>
        \A s \in Sessions : handler[s] = "idle" /\ heartbeat[s] = "off"

\* Whoever may still write a heartbeat belongs to a client seen since Start.
WritersSeen ==
    \A s \in Sessions :
        handler[s] # "idle" \/ heartbeat[s] # "off" => ClientOf[s] \in seen

\* The inductive invariant.
IInv ==
    /\ TypeOK
    /\ RegistryOwned /\ NoOrphan /\ HeartbeatOwned /\ ClosedEmpty /\ RestartForgets
    /\ QueueWhileClosing /\ QuietWhenDown /\ WritersSeen

-----------------------------------------------------------------------------
(* Type correctness *)

\* The initial state, before any server was started, is well typed.
LEMMA InitTypeOK == Init => TypeOK
BY NoSessionAssumption DEF Init, TypeOK, HandlerStates, HeartbeatStates

\* The steps of a handler keep the types; one case per step.
LEMMA HandlerTypeOK ==
    ASSUME TypeOK, NEW s \in Sessions, Handler(s)
    PROVE  TypeOK'
<1> USE ClientOfAssumption DEF TypeOK, HandlerStates, HeartbeatStates
<1>1. CASE RegisterClient(s)
  BY <1>1 DEF RegisterClient, serverVars, storeVars
<1>2. CASE CloseReplaced(s)
  BY <1>2 DEF CloseReplaced, CloseSession, serverVars, storeVars
<1>3. CASE FirstHeartbeat(s)
  BY <1>3 DEF FirstHeartbeat, UpsertClientHeartbeat, serverVars, storeVars
<1>4. CASE UnregisterClient(s)
  BY <1>4 DEF UnregisterClient, serverVars, storeVars
<1>5. CASE CloseOwn(s)
  BY <1>5 DEF CloseOwn, CloseSession, serverVars, storeVars
<1>6. CASE MarkOwn(s)
  BY <1>6 DEF MarkOwn, MarkClientDisconnected, serverVars, storeVars
<1> QED
  BY <1>1, <1>2, <1>3, <1>4, <1>5, <1>6 DEF Handler

\* So do the steps of a heartbeat loop.
LEMMA HeartbeatTypeOK ==
    ASSUME TypeOK, NEW s \in Sessions, Heartbeat(s)
    PROVE  TypeOK'
BY ClientOfAssumption
   DEF TypeOK, HandlerStates, HeartbeatStates, Heartbeat, HeartbeatDone, HeartbeatTick,
       HeartbeatUpsert, UpsertClientHeartbeat, serverVars, storeVars

\* So do the closer, the start of a server and a crash.
LEMMA ServerTypeOK ==
    ASSUME TypeOK, Server \/ Start \/ Crash \/ OtherEngineStart
    PROVE  TypeOK'
<1> USE DEF TypeOK, HandlerStates, HeartbeatStates
<1>1. CASE CloseListener
  BY <1>1 DEF CloseListener, sessionVars, storeVars
<1>2. CASE CloseRegistry
  BY <1>2 DEF CloseRegistry, sessionVars, storeVars
<1>3. CASE CloseNext
  BY <1>3 DEF CloseNext, CloseSession, storeVars
<1>4. CASE CloseMark
  BY <1>4 DEF CloseMark, MarkClientDisconnected, sessionVars, storeVars
<1>5. CASE Stopped
  BY <1>5 DEF Stopped, sessionVars, storeVars
<1>6. CASE Start
  BY <1>6 DEF Start, InitializeRuntimeState, sessionVars
<1>7. CASE Crash
  BY <1>7 DEF Crash, storeVars
<1>8. CASE OtherEngineStart
  BY <1>8 DEF OtherEngineStart, InitializeRuntimeState, serverVars, sessionVars
<1> QED
  BY <1>1, <1>2, <1>3, <1>4, <1>5, <1>6, <1>7, <1>8 DEF Server

\* So do the administrator's changes of the rows.
LEMMA AdminTypeOK ==
    ASSUME TypeOK, Admin
    PROVE  TypeOK'
BY DEF TypeOK, HandlerStates, HeartbeatStates, Admin, EnsureClient, DeleteClient,
       serverVars, sessionVars

\* Every step keeps the types.
LEMMA NextTypeOK == TypeOK /\ [Next]_vars => TypeOK'
<1> SUFFICES ASSUME TypeOK, [Next]_vars
             PROVE  TypeOK'
  OBVIOUS
<1>1. CASE Next
  BY <1>1, HandlerTypeOK, HeartbeatTypeOK, ServerTypeOK, AdminTypeOK DEF Next
<1>2. CASE UNCHANGED vars
  BY <1>2 DEF TypeOK, vars, serverVars, sessionVars, storeVars
<1> QED
  BY <1>1, <1>2

\* Every variable keeps its type, through crashes, restarts and failed writes.
THEOREM TypeCorrect == Spec => []TypeOK
<1>1. Init => TypeOK
  BY InitTypeOK
<1>2. TypeOK /\ [Next]_vars => TypeOK'
  BY NextTypeOK
<1> QED
  BY <1>1, <1>2, PTL DEF Spec

-----------------------------------------------------------------------------
(* The registry *)

\* A step of any goroutine keeps the registry owned: only registerClient enters a
\* session, and only its unregisterClient, the closer or a crash takes it out.
LEMMA RegistryOwnedStep ==
    ASSUME TypeOK, RegistryOwned, [Next]_vars
    PROVE  RegistryOwned'
<1> USE NoSessionAssumption, ClientOfAssumption
    DEF TypeOK, RegistryOwned, Registered, serverVars, sessionVars, storeVars
<1>1. ASSUME NEW s \in Sessions, Handler(s)
      PROVE  RegistryOwned'
  <2>1. CASE RegisterClient(s)
    BY <2>1 DEF RegisterClient, Unreferenced
  <2>2. CASE CloseReplaced(s)
    BY <2>2 DEF CloseReplaced
  <2>3. CASE FirstHeartbeat(s)
    BY <2>3 DEF FirstHeartbeat
  <2>4. CASE UnregisterClient(s)
    BY <2>4 DEF UnregisterClient, IsCurrent
  <2>5. CASE CloseOwn(s) \/ MarkOwn(s)
    BY <2>5 DEF CloseOwn, MarkOwn
  <2> QED
    BY <1>1, <2>1, <2>2, <2>3, <2>4, <2>5 DEF Handler
<1>2. ASSUME NEW s \in Sessions, Heartbeat(s)
      PROVE  RegistryOwned'
  BY <1>2 DEF Heartbeat, HeartbeatDone, HeartbeatTick, HeartbeatUpsert
<1>3. CASE CloseRegistry \/ Crash
  BY <1>3 DEF CloseRegistry, Crash
<1>4. CASE CloseListener \/ CloseNext \/ CloseMark \/ Stopped \/ Start \/ OtherEngineStart
  BY <1>4 DEF CloseListener, CloseNext, CloseMark, Stopped, Start, OtherEngineStart
<1>5. CASE Admin
  BY <1>5 DEF Admin, EnsureClient, DeleteClient
<1>6. CASE UNCHANGED vars
  BY <1>6 DEF vars
<1> QED
  BY <1>1, <1>2, <1>3, <1>4, <1>5, <1>6 DEF Next, Server

\* The registry stays empty once it was closed.
LEMMA ClosedEmptyStep ==
    ASSUME TypeOK, ClosedEmpty, [Next]_vars
    PROVE  ClosedEmpty'
<1> USE DEF TypeOK, ClosedEmpty, serverVars, sessionVars, storeVars
<1>1. ASSUME NEW s \in Sessions, Handler(s)
      PROVE  ClosedEmpty'
  <2>1. CASE RegisterClient(s)
    BY <2>1 DEF RegisterClient, Accepts
  <2>2. CASE UnregisterClient(s)
    BY <2>2 DEF UnregisterClient
  <2>3. CASE CloseReplaced(s) \/ FirstHeartbeat(s) \/ CloseOwn(s) \/ MarkOwn(s)
    BY <2>3 DEF CloseReplaced, FirstHeartbeat, CloseOwn, MarkOwn
  <2> QED
    BY <1>1, <2>1, <2>2, <2>3 DEF Handler
<1>2. ASSUME NEW s \in Sessions, Heartbeat(s)
      PROVE  ClosedEmpty'
  BY <1>2 DEF Heartbeat, HeartbeatDone, HeartbeatTick, HeartbeatUpsert
<1>3. CASE CloseRegistry \/ Crash \/ Start
  BY <1>3 DEF CloseRegistry, Crash, Start
<1>4. CASE CloseListener \/ CloseNext \/ CloseMark \/ Stopped \/ OtherEngineStart
  BY <1>4 DEF CloseListener, CloseNext, CloseMark, Stopped, OtherEngineStart
<1>5. CASE Admin
  BY <1>5 DEF Admin, EnsureClient, DeleteClient
<1>6. CASE UNCHANGED vars
  BY <1>6 DEF vars
<1> QED
  BY <1>1, <1>2, <1>3, <1>4, <1>5, <1>6 DEF Next, Server

\* The closer has sessions in its queue only inside close().
LEMMA QueueWhileClosingStep ==
    ASSUME TypeOK, QueueWhileClosing, [Next]_vars
    PROVE  QueueWhileClosing'
<1> USE DEF TypeOK, QueueWhileClosing, serverVars, sessionVars, storeVars
<1>1. ASSUME NEW s \in Sessions, Handler(s) \/ Heartbeat(s)
      PROVE  QueueWhileClosing'
  BY <1>1 DEF Handler, RegisterClient, CloseReplaced, FirstHeartbeat, UnregisterClient, CloseOwn,
     MarkOwn, Heartbeat, HeartbeatDone, HeartbeatTick, HeartbeatUpsert
<1>2. CASE Server
  BY <1>2 DEF Server, CloseListener, CloseRegistry, CloseNext, CloseMark, Stopped
<1>3. CASE Start \/ Crash \/ OtherEngineStart
  BY <1>3 DEF Start, Crash, OtherEngineStart
<1>4. CASE Admin
  BY <1>4 DEF Admin, EnsureClient, DeleteClient
<1>5. CASE UNCHANGED vars
  BY <1>5 DEF vars
<1> QED
  BY <1>1, <1>2, <1>3, <1>4, <1>5 DEF Next

\* A heartbeat loop runs next to its handler until the session is closed.
LEMMA HeartbeatOwnedStep ==
    ASSUME TypeOK, HeartbeatOwned, [Next]_vars
    PROVE  HeartbeatOwned'
<1> USE DEF TypeOK, HeartbeatOwned, serverVars, sessionVars, storeVars
<1>1. ASSUME NEW s \in Sessions, Handler(s)
      PROVE  HeartbeatOwned'
  <2>1. CASE RegisterClient(s)
    BY <2>1 DEF RegisterClient, Unreferenced
  <2>2. CASE CloseReplaced(s)
    BY <2>2 DEF CloseReplaced, CloseSession
  <2>3. CASE FirstHeartbeat(s)
    BY <2>3 DEF FirstHeartbeat
  <2>4. CASE UnregisterClient(s)
    BY <2>4 DEF UnregisterClient
  <2>5. CASE CloseOwn(s)
    BY <2>5 DEF CloseOwn, CloseSession
  <2>6. CASE MarkOwn(s)
    BY <2>6 DEF MarkOwn
  <2> QED
    BY <1>1, <2>1, <2>2, <2>3, <2>4, <2>5, <2>6 DEF Handler
<1>2. ASSUME NEW s \in Sessions, Heartbeat(s)
      PROVE  HeartbeatOwned'
  BY <1>2 DEF Heartbeat, HeartbeatDone, HeartbeatTick, HeartbeatUpsert
<1>3. CASE CloseNext \/ Crash
  BY <1>3 DEF CloseNext, CloseSession, Crash
<1>4. CASE CloseListener \/ CloseRegistry \/ CloseMark \/ Stopped \/ Start \/ OtherEngineStart
  BY <1>4 DEF CloseListener, CloseRegistry, CloseMark, Stopped, Start, OtherEngineStart
<1>5. CASE Admin
  BY <1>5 DEF Admin, EnsureClient, DeleteClient
<1>6. CASE UNCHANGED vars
  BY <1>6 DEF vars
<1> QED
  BY <1>1, <1>2, <1>3, <1>4, <1>5, <1>6 DEF Next, Server

-----------------------------------------------------------------------------
(* Displaced sessions *)

\* A session that is to be closed stays so as long as no handler leaves the state
\* "replace" and the closer keeps its queue.
LEMMA ToBeClosedKept ==
    ASSUME NEW s \in Sessions, ToBeClosed(s), closeQueue \subseteq closeQueue',
           \A t \in Sessions : handler[t] = "replace" =>
               handler'[t] = "replace" /\ replaced'[t] = replaced[t]
    PROVE  ToBeClosed(s)'
BY DEF ToBeClosed

\* A displaced session stays somebody's business until it is closed.
LEMMA NoOrphanStep ==
    ASSUME TypeOK, NoOrphan, QueueWhileClosing, [Next]_vars
    PROVE  NoOrphan'
<1> USE DEF TypeOK, serverVars, sessionVars, storeVars
<1> SUFFICES ASSUME NEW t \in Sessions,
                    Registered(t)', ~sessClosed'[t], clients'[ClientOf[t]] # t
             PROVE  ToBeClosed(t)'
  BY DEF NoOrphan
<1>old. Registered(t) /\ ~sessClosed[t] /\ clients[ClientOf[t]] # t => ToBeClosed(t)
  BY DEF NoOrphan
<1>1. ASSUME NEW s \in Sessions, Handler(s)
      PROVE  ToBeClosed(t)'
  <2>1. CASE RegisterClient(s)
    <3>1. t # s
      BY <2>1, ClientOfAssumption DEF RegisterClient
    <3>2. CASE clients[ClientOf[t]] = t
      \* s took the name from t: its handler goes on to close it.
      <4>1. ClientOf[t] = ClientOf[s] /\ t # NoSession
        BY <2>1, <3>1, <3>2, NoSessionAssumption, ClientOfAssumption DEF RegisterClient
      <4>2. handler'[s] = "replace" /\ replaced'[s] = t
        BY <2>1, <3>2, <4>1 DEF RegisterClient
      <4> QED
        BY <4>2 DEF ToBeClosed
    <3>3. CASE clients[ClientOf[t]] # t
      <4>1. ToBeClosed(t)
        BY <2>1, <3>1, <3>3, <1>old DEF RegisterClient, Registered
      <4>2. \A u \in Sessions : handler[u] = "replace" =>
                handler'[u] = "replace" /\ replaced'[u] = replaced[u]
        BY <2>1 DEF RegisterClient, Unreferenced
      <4>3. closeQueue' = closeQueue
        BY <2>1 DEF RegisterClient
      <4> QED
        BY <4>1, <4>2, <4>3, ToBeClosedKept
    <3> QED
      BY <3>2, <3>3
  <2>2. CASE CloseReplaced(s)
    <3>1. Registered(t) /\ ~sessClosed[t] /\ clients[ClientOf[t]] # t
      BY <2>2 DEF CloseReplaced, CloseSession, Registered
    <3>2. t # replaced[s]
      BY <2>2 DEF CloseReplaced, CloseSession
    <3> QED
      BY <2>2, <3>1, <3>2, <1>old DEF CloseReplaced, ToBeClosed
  <2>3. CASE FirstHeartbeat(s)
    BY <2>3, <1>old, ToBeClosedKept DEF FirstHeartbeat, Registered
  <2>4. CASE UnregisterClient(s)
    <3>1. Registered(t) /\ ~sessClosed[t] /\ t # s
      BY <2>4 DEF UnregisterClient, Registered
    <3>2. clients[ClientOf[t]] # t
      BY <2>4, <3>1, ClientOfAssumption DEF UnregisterClient, IsCurrent
    <3> QED
      BY <2>4, <3>1, <3>2, <1>old, ToBeClosedKept DEF UnregisterClient
  <2>5. CASE CloseOwn(s)
    BY <2>5, <1>old, ToBeClosedKept DEF CloseOwn, CloseSession, Registered
  <2>6. CASE MarkOwn(s)
    BY <2>6, <1>old, ToBeClosedKept DEF MarkOwn, Registered
  <2> QED
    BY <1>1, <2>1, <2>2, <2>3, <2>4, <2>5, <2>6 DEF Handler
<1>2. ASSUME NEW s \in Sessions, Heartbeat(s)
      PROVE  ToBeClosed(t)'
  BY <1>2, <1>old, ToBeClosedKept
     DEF Heartbeat, HeartbeatDone, HeartbeatTick, HeartbeatUpsert, Registered
<1>3. CASE CloseRegistry
  \* The queue is still empty, so no session is dropped from it.
  <2>1. closeQueue = {}
    BY <1>3 DEF CloseRegistry, QueueWhileClosing
  <2>2. CASE clients[ClientOf[t]] = t
    BY <1>3, <2>2, NoSessionAssumption, ClientOfAssumption DEF CloseRegistry, ToBeClosed
  <2>3. CASE clients[ClientOf[t]] # t
    BY <1>3, <2>1, <2>3, <1>old, ToBeClosedKept DEF CloseRegistry, Registered
  <2> QED
    BY <2>2, <2>3
<1>4. CASE CloseNext
  <2>1. Registered(t) /\ ~sessClosed[t] /\ clients[ClientOf[t]] # t
    BY <1>4 DEF CloseNext, CloseSession, Registered
  <2> QED
    BY <1>4, <2>1, <1>old DEF CloseNext, CloseSession, ToBeClosed
<1>5. CASE CloseListener \/ CloseMark \/ Stopped
  BY <1>5, <1>old, ToBeClosedKept DEF CloseListener, CloseMark, Stopped, Registered
<1>6. CASE Start \/ OtherEngineStart
  BY <1>6, <1>old, ToBeClosedKept DEF Start, OtherEngineStart, Registered
<1>7. CASE Crash
  BY <1>7 DEF Crash, Registered
<1>8. CASE Admin
  BY <1>8, <1>old, ToBeClosedKept DEF Admin, EnsureClient, DeleteClient, Registered
<1>9. CASE UNCHANGED vars
  BY <1>9, <1>old, ToBeClosedKept DEF vars, Registered
<1> QED
  BY <1>1, <1>2, <1>3, <1>4, <1>5, <1>6, <1>7, <1>8, <1>9 DEF Next, Server

-----------------------------------------------------------------------------
(* Presence across restarts *)

\* A process that died, or a server that finished, has no handler and no heartbeat.
LEMMA QuietWhenDownStep ==
    ASSUME TypeOK, QuietWhenDown, [Next]_vars
    PROVE  QuietWhenDown'
<1> USE DEF TypeOK, QuietWhenDown, serverVars, sessionVars, storeVars
<1>1. ASSUME NEW s \in Sessions, Handler(s)
      PROVE  QuietWhenDown'
  <2>1. CASE RegisterClient(s)
    BY <2>1 DEF RegisterClient, Accepts
  <2>2. CASE CloseReplaced(s) \/ FirstHeartbeat(s) \/ UnregisterClient(s) \/ CloseOwn(s) \/ MarkOwn(s)
    \* None of them is enabled when every handler is idle.
    BY <2>2 DEF CloseReplaced, FirstHeartbeat, UnregisterClient, CloseOwn, MarkOwn
  <2> QED
    BY <1>1, <2>1, <2>2 DEF Handler
<1>2. ASSUME NEW s \in Sessions, Heartbeat(s)
      PROVE  QuietWhenDown'
  BY <1>2 DEF Heartbeat, HeartbeatDone, HeartbeatTick, HeartbeatUpsert
<1>3. CASE Stopped \/ Crash \/ Start
  BY <1>3 DEF Stopped, Crash, Start
<1>4. CASE CloseListener \/ CloseRegistry \/ CloseNext \/ CloseMark \/ OtherEngineStart
  BY <1>4 DEF CloseListener, CloseRegistry, CloseNext, CloseMark, OtherEngineStart
<1>5. CASE Admin
  BY <1>5 DEF Admin, EnsureClient, DeleteClient
<1>6. CASE UNCHANGED vars
  BY <1>6 DEF vars
<1> QED
  BY <1>1, <1>2, <1>3, <1>4, <1>5, <1>6 DEF Next, Server

\* Whoever may still write a heartbeat has registered since the last start.
LEMMA WritersSeenStep ==
    ASSUME TypeOK, WritersSeen, QuietWhenDown, [Next]_vars
    PROVE  WritersSeen'
<1> USE DEF TypeOK, WritersSeen, serverVars, sessionVars, storeVars
<1>1. ASSUME NEW s \in Sessions, Handler(s)
      PROVE  WritersSeen'
  <2>1. CASE RegisterClient(s)
    BY <2>1 DEF RegisterClient
  <2>2. CASE CloseReplaced(s) \/ FirstHeartbeat(s) \/ UnregisterClient(s) \/ CloseOwn(s) \/ MarkOwn(s)
    BY <2>2 DEF CloseReplaced, FirstHeartbeat, UnregisterClient, CloseOwn, MarkOwn
  <2> QED
    BY <1>1, <2>1, <2>2 DEF Handler
<1>2. ASSUME NEW s \in Sessions, Heartbeat(s)
      PROVE  WritersSeen'
  BY <1>2 DEF Heartbeat, HeartbeatDone, HeartbeatTick, HeartbeatUpsert
<1>3. CASE Start
  \* seen is emptied, and nobody is left that could write.
  BY <1>3 DEF Start, QuietWhenDown
<1>4. CASE Server \/ Crash \/ OtherEngineStart
  BY <1>4 DEF Server, CloseListener, CloseRegistry, CloseNext, CloseMark, Stopped, Crash,
     OtherEngineStart
<1>5. CASE Admin
  BY <1>5 DEF Admin, EnsureClient, DeleteClient
<1>6. CASE UNCHANGED vars
  BY <1>6 DEF vars
<1> QED
  BY <1>1, <1>2, <1>3, <1>4, <1>5, <1>6 DEF Next

\* Only clients that registered since the last start are shown as connected.
LEMMA RestartForgetsStep ==
    ASSUME TypeOK, RestartForgets, WritersSeen, [Next]_vars
    PROVE  RestartForgets'
<1> USE DEF TypeOK, RestartForgets, serverVars, sessionVars, storeVars
<1>1. ASSUME NEW s \in Sessions, Handler(s)
      PROVE  RestartForgets'
  <2>1. CASE RegisterClient(s)
    BY <2>1 DEF RegisterClient
  <2>2. CASE FirstHeartbeat(s)
    BY <2>2 DEF FirstHeartbeat, UpsertClientHeartbeat, WritersSeen
  <2>3. CASE MarkOwn(s)
    BY <2>3 DEF MarkOwn, MarkClientDisconnected
  <2>4. CASE CloseReplaced(s) \/ UnregisterClient(s) \/ CloseOwn(s)
    BY <2>4 DEF CloseReplaced, UnregisterClient, CloseOwn
  <2> QED
    BY <1>1, <2>1, <2>2, <2>3, <2>4 DEF Handler
<1>2. ASSUME NEW s \in Sessions, Heartbeat(s)
      PROVE  RestartForgets'
  BY <1>2 DEF Heartbeat, HeartbeatDone, HeartbeatTick, HeartbeatUpsert, UpsertClientHeartbeat,
     WritersSeen
<1>3. CASE Start \/ OtherEngineStart
  BY <1>3 DEF Start, OtherEngineStart, InitializeRuntimeState
<1>4. CASE CloseMark
  BY <1>4 DEF CloseMark, MarkClientDisconnected
<1>5. CASE CloseListener \/ CloseRegistry \/ CloseNext \/ Stopped \/ Crash
  BY <1>5 DEF CloseListener, CloseRegistry, CloseNext, Stopped, Crash
<1>6. CASE Admin
  BY <1>6 DEF Admin, EnsureClient, DeleteClient
<1>7. CASE UNCHANGED vars
  BY <1>7 DEF vars
<1> QED
  BY <1>1, <1>2, <1>3, <1>4, <1>5, <1>6, <1>7 DEF Next, Server

-----------------------------------------------------------------------------
(* The inductive invariant, and what follows from it *)

\* The inductive invariant holds initially ...
LEMMA InitIInv == Init => IInv
<1> SUFFICES ASSUME Init
             PROVE  IInv
  OBVIOUS
<1>1. TypeOK
  BY InitTypeOK
<1>2. RegistryOwned /\ ClosedEmpty /\ HeartbeatOwned /\ RestartForgets
  BY DEF Init, RegistryOwned, ClosedEmpty, HeartbeatOwned, RestartForgets
<1>3. NoOrphan
  BY DEF Init, NoOrphan, Registered
<1>4. QueueWhileClosing /\ QuietWhenDown /\ WritersSeen
  BY DEF Init, QueueWhileClosing, QuietWhenDown, WritersSeen
<1> QED
  BY <1>1, <1>2, <1>3, <1>4 DEF IInv

\* ... is kept by every step ...
LEMMA NextIInv == IInv /\ [Next]_vars => IInv'
BY NextTypeOK, RegistryOwnedStep, NoOrphanStep, HeartbeatOwnedStep, ClosedEmptyStep,
   RestartForgetsStep, QueueWhileClosingStep, QuietWhenDownStep, WritersSeenStep
   DEF IInv

\* ... and so holds throughout.
LEMMA InductiveInvariant == Spec => []IInv
<1>1. Init => IInv
  BY InitIInv
<1>2. IInv /\ [Next]_vars => IInv'
  BY NextIInv
<1> QED
  BY <1>1, <1>2, PTL DEF Spec

\* The registry is well formed: every entry belongs to a handler that will remove it,
\* every heartbeat loop has somebody who ends it, and nobody enters the registry
\* after close() has emptied it.
THEOREM RegistryIsSafe == Spec => []RegistrySafe
<1>1. IInv => RegistrySafe
  BY DEF IInv, RegistrySafe
<1> QED
  BY <1>1, InductiveInvariant, PTL

\* A displaced session is closed, or somebody is committed to closing it, however
\* reconnections, shutdown and crashes interleave.
THEOREM NoSessionIsOrphaned == Spec => []NoOrphan
<1>1. IInv => NoOrphan
  BY DEF IInv
<1> QED
  BY <1>1, InductiveInvariant, PTL

\* A client that did not register since the last start is not shown as connected,
\* whatever the database said when the process died.
THEOREM RestartForgetsPresence == Spec => []RestartForgets
<1>1. IInv => RestartForgets
  BY DEF IInv
<1> QED
  BY <1>1, InductiveInvariant, PTL

-----------------------------------------------------------------------------
(* Refinement: the registry implements the safety part of NameService *)

\* A session's name, and whether it is being served, change together or not at all:
\* each step of a handler takes a name, leaves it, ends, or leaves both alone.
LEMMA HandlerImplements ==
  ASSUME TypeOK, NEW s \in Sessions, Handler(s)
  PROVE  Registry!Next \/ UNCHANGED <<clients, Serving>>
<1> USE NoSessionAssumption, ClientOfAssumption DEF TypeOK, serverVars, sessionVars, storeVars
<1>1. CASE RegisterClient(s)
  <2>1. Registry!Take(s)
    BY <1>1 DEF RegisterClient, Unreferenced, Registry!Take, Serving, Registered, HandlerStates
  <2> QED
    BY <2>1 DEF Registry!Next
<1>2. CASE UnregisterClient(s) /\ clients[ClientOf[s]] = s
  <2>1. Registry!Leave(s)
    BY <1>2 DEF UnregisterClient, IsCurrent, Registry!Leave, Serving, Registered, HandlerStates
  <2> QED
    BY <2>1 DEF Registry!Next
<1>3. CASE UnregisterClient(s) /\ clients[ClientOf[s]] # s
  <2>1. Registry!End(s)
    BY <1>3 DEF UnregisterClient, IsCurrent, Registry!End, Serving, Registered, HandlerStates
  <2> QED
    BY <2>1 DEF Registry!Next
<1>4. CASE CloseReplaced(s)
  BY <1>4 DEF CloseReplaced, Serving, Registered
<1>5. CASE FirstHeartbeat(s)
  BY <1>5 DEF FirstHeartbeat, Serving, Registered
<1>6. CASE CloseOwn(s) \/ MarkOwn(s)
  BY <1>6 DEF CloseOwn, MarkOwn, Serving, Registered
<1> QED
  BY <1>1, <1>2, <1>3, <1>4, <1>5, <1>6 DEF Handler

\* The closer evicts every owner, a crash resets the registry, and no other step of
\* the server or of the administrator touches names or handlers.
LEMMA ServerImplements ==
  ASSUME TypeOK, Server \/ Start \/ Crash \/ OtherEngineStart \/ Admin
  PROVE  Registry!Next \/ UNCHANGED <<clients, Serving>>
<1> USE DEF TypeOK, serverVars, sessionVars, storeVars
<1>1. CASE CloseRegistry
  <2>1. UNCHANGED Serving
    BY <1>1 DEF CloseRegistry, Serving, Registered
  <2>2. clients' = [n \in Clients |-> IF n \in Clients THEN NoSession ELSE clients[n]]
    BY <1>1 DEF CloseRegistry
  <2> QED
    BY <2>1, <2>2 DEF Registry!Next, Registry!Evict
<1>2. CASE Crash
  <2>1. Registry!Reset
    BY <1>2 DEF Crash, Registry!Reset, Serving, Registered
  <2> QED
    BY <2>1 DEF Registry!Next
<1>3. CASE CloseListener \/ CloseNext \/ CloseMark \/ Stopped
  BY <1>3 DEF CloseListener, CloseNext, CloseMark, Stopped, Serving, Registered
<1>4. CASE Start \/ OtherEngineStart \/ Admin
  BY <1>4 DEF Start, OtherEngineStart, Admin, EnsureClient, DeleteClient, Serving, Registered
<1> QED
  BY <1>1, <1>2, <1>3, <1>4 DEF Server

\* The registry implements the safety part of NameService under the mapping of the
\* run: a session loses its name only to a newer session, to its own handler, to the
\* closer or to a crash, and is served only between taking a name and leaving.
THEOREM RegistryImplementsNames == Spec => Registry!Safe
<1>1. Init => Registry!Init
  BY DEF Init, Registry!Init, Serving, Registered
<1>2. TypeOK /\ [Next]_vars => [Registry!Next]_(Registry!vars)
  <2> SUFFICES ASSUME TypeOK, [Next]_vars
               PROVE  Registry!Next \/ UNCHANGED <<clients, Serving>>
    BY DEF Registry!vars
  <2>1. CASE UNCHANGED vars
    BY <2>1 DEF vars, sessionVars, Serving, Registered
  <2>2. ASSUME NEW s \in Sessions, Heartbeat(s)
        PROVE  UNCHANGED <<clients, Serving>>
    BY <2>2 DEF Heartbeat, HeartbeatDone, HeartbeatTick, HeartbeatUpsert, Serving, Registered
  <2> QED
    BY <2>1, <2>2, HandlerImplements, ServerImplements DEF Next
<1> QED
  BY <1>1, <1>2, TypeCorrect, PTL DEF Spec, Registry!Safe
=============================================================================
