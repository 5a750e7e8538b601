-------------------------- MODULE WebManager_proofs --------------------------
(***************************************************************************)
(* Proofs about what the web manager runs, for every value of the          *)
(* constants: the tunnel client (TunnelClient), the tunnel servers with    *)
(* what is saved for them (WebServices), and the proxies with the names    *)
(* that may use them (ProxyAccess).  The three specifications are          *)
(* independent, and so are the three parts of this module.                 *)
(***************************************************************************)
EXTENDS TunnelClient, WebServices, ProxyAccess, TLAPS

-----------------------------------------------------------------------------
(* The tunnel client *)

\* The slot is held by a client whose goroutine has not returned.
SlotIsLive == slot # NoRun => pc[slot] # "idle"

\* Where a classic client is when it has no connection, or has just cleared its routes.
Unrouted == {"idle", "validate", "dial", "register", "announce", "showNone", "notify", "delay", "watch"}

\* Without a connection a classic client serves no route, nor does an object that is free.
RoutesForgotten ==
    \A c \in Runs :
        /\ pc[c] \in {"idle", "validate"} => routes[c] = {}
        /\ engine[c] = "classic" /\ pc[c] \in Unrouted => routes[c] = {}

\* The inductive invariant.
IInv == TypeOK /\ OneClient /\ SlotIsLive /\ RoutesForgotten /\ ConnectedIsOnline /\ ShownRoutesAreServed

\* Every step of the system is one of these.
LEMMA NextCases ==
    ASSUME Next
    PROVE  \/ StopClient \/ Shutdown \/ ExitProcess \/ ServerChanges
           \/ \E c \in Runs :
                \/ \E e \in Engines : StartClient(c, e)
                \/ CallCancel(c) \/ Validate(c) \/ Dial(c) \/ RegisterAnswered(c) \/ RegisterFails(c)
                \/ OnConnected(c) \/ QuicLoop(c) \/ ShowRoutes(c) \/ ReadFails(c) \/ RunChecks(c)
                \/ ClearRoutes(c) \/ ShowNoRoutes(c) \/ OnDisconnected(c) \/ Delay(c) \/ Watch(c) \/ Drop(c)
                \/ \E R \in SUBSET Routes : ReceiveRoutes(c, R)
BY DEF Next, RunStep, RegisterEnds

-----------------------------------------------------------------------------
\* Every step of the system keeps the types.
LEMMA TypeOKStep ==
    ASSUME TypeOK, [Next]_vars
    PROVE  TypeOK'
<1> USE NoRunAssumption DEF TypeOK, PCs, Engines, Errors, LaunchErrors, Goto, slotVars, runVars
<1>1. CASE StopClient
  BY <1>1 DEF StopClient
<1>2. CASE Shutdown
  BY <1>2 DEF Shutdown
<1>3. CASE ExitProcess
  BY <1>3 DEF ExitProcess, LaunchErrors
<1>4. CASE ServerChanges
  BY <1>4 DEF ServerChanges
<1>5. ASSUME NEW c \in Runs, NEW e \in Engines, StartClient(c, e)
      PROVE  TypeOK'
  BY <1>5 DEF StartClient, Free, SlotIsFree
<1>6. ASSUME NEW c \in Runs, CallCancel(c)
      PROVE  TypeOK'
  BY <1>6 DEF CallCancel
<1>7. ASSUME NEW c \in Runs, Validate(c)
      PROVE  TypeOK'
  BY <1>7 DEF Validate
<1>8. ASSUME NEW c \in Runs, Dial(c)
      PROVE  TypeOK'
  BY <1>8 DEF Dial, RunOnceReturns
<1>9. ASSUME NEW c \in Runs, RegisterAnswered(c)
      PROVE  TypeOK'
  BY <1>9 DEF RegisterAnswered, RunOnceReturns
<1>10. ASSUME NEW c \in Runs, RegisterFails(c)
      PROVE  TypeOK'
  BY <1>10 DEF RegisterFails, RunOnceReturns
<1>11. ASSUME NEW c \in Runs, OnConnected(c)
      PROVE  TypeOK'
  BY <1>11 DEF OnConnected, NextMessage
<1>12. ASSUME NEW c \in Runs, QuicLoop(c)
      PROVE  TypeOK'
  BY <1>12 DEF QuicLoop, RunOnceReturns
<1>13. ASSUME NEW c \in Runs, ShowRoutes(c)
      PROVE  TypeOK'
  BY <1>13 DEF ShowRoutes, OnRoutesChanged, NextMessage
<1>14. ASSUME NEW c \in Runs, ReadFails(c)
      PROVE  TypeOK'
  BY <1>14 DEF ReadFails, RunOnceReturns
<1>15. ASSUME NEW c \in Runs, RunChecks(c)
      PROVE  TypeOK'
  BY <1>15 DEF RunChecks, NotifyFrom
<1>16. ASSUME NEW c \in Runs, ClearRoutes(c)
      PROVE  TypeOK'
  BY <1>16 DEF ClearRoutes
<1>17. ASSUME NEW c \in Runs, ShowNoRoutes(c)
      PROVE  TypeOK'
  BY <1>17 DEF ShowNoRoutes, OnRoutesChanged
<1>18. ASSUME NEW c \in Runs, OnDisconnected(c)
      PROVE  TypeOK'
  BY <1>18 DEF OnDisconnected, AfterNotify
<1>19. ASSUME NEW c \in Runs, Delay(c)
      PROVE  TypeOK'
  BY <1>19 DEF Delay, NotifyFrom
<1>20. ASSUME NEW c \in Runs, Watch(c)
      PROVE  TypeOK'
  BY <1>20 DEF Watch
<1>21. ASSUME NEW c \in Runs, Drop(c)
      PROVE  TypeOK'
  BY <1>21 DEF Drop
<1>22. ASSUME NEW c \in Runs, NEW R \in SUBSET Routes, ReceiveRoutes(c, R)
      PROVE  TypeOK'
  BY <1>22 DEF ReceiveRoutes
<1>23. CASE UNCHANGED vars
  BY <1>23 DEF vars
<1> QED
  BY <1>1, <1>2, <1>3, <1>4, <1>5, <1>6, <1>7, <1>8, <1>9, <1>10, <1>11, <1>12, <1>13, <1>14,
     <1>15, <1>16, <1>17, <1>18, <1>19, <1>20, <1>21, <1>22, <1>23, NextCases

-----------------------------------------------------------------------------
\* A start needs a free slot, and only the goroutine of its holder frees it, when it returns.
LEMMA OneClientStep ==
    ASSUME TypeOK, OneClient, SlotIsLive, [Next]_vars
    PROVE  OneClient' /\ SlotIsLive'
<1> USE NoRunAssumption DEF TypeOK, OneClient, SlotIsLive, Goto, slotVars, runVars
<1>1. CASE StopClient
  BY <1>1 DEF StopClient
<1>2. CASE Shutdown
  BY <1>2 DEF Shutdown
<1>3. CASE ExitProcess
  BY <1>3 DEF ExitProcess, LaunchErrors
<1>4. CASE ServerChanges
  BY <1>4 DEF ServerChanges
<1>5. ASSUME NEW c \in Runs, NEW e \in Engines, StartClient(c, e)
      PROVE  OneClient' /\ SlotIsLive'
  BY <1>5 DEF StartClient, Free, SlotIsFree
<1>6. ASSUME NEW c \in Runs, CallCancel(c)
      PROVE  OneClient' /\ SlotIsLive'
  BY <1>6 DEF CallCancel
<1>7. ASSUME NEW c \in Runs, Validate(c)
      PROVE  OneClient' /\ SlotIsLive'
  BY <1>7 DEF Validate
<1>8. ASSUME NEW c \in Runs, Dial(c)
      PROVE  OneClient' /\ SlotIsLive'
  BY <1>8 DEF Dial, RunOnceReturns
<1>9. ASSUME NEW c \in Runs, RegisterAnswered(c)
      PROVE  OneClient' /\ SlotIsLive'
  BY <1>9 DEF RegisterAnswered, RunOnceReturns
<1>10. ASSUME NEW c \in Runs, RegisterFails(c)
      PROVE  OneClient' /\ SlotIsLive'
  BY <1>10 DEF RegisterFails, RunOnceReturns
<1>11. ASSUME NEW c \in Runs, OnConnected(c)
      PROVE  OneClient' /\ SlotIsLive'
  BY <1>11 DEF OnConnected, NextMessage
<1>12. ASSUME NEW c \in Runs, QuicLoop(c)
      PROVE  OneClient' /\ SlotIsLive'
  BY <1>12 DEF QuicLoop, RunOnceReturns
<1>13. ASSUME NEW c \in Runs, ShowRoutes(c)
      PROVE  OneClient' /\ SlotIsLive'
  BY <1>13 DEF ShowRoutes, OnRoutesChanged, NextMessage
<1>14. ASSUME NEW c \in Runs, ReadFails(c)
      PROVE  OneClient' /\ SlotIsLive'
  BY <1>14 DEF ReadFails, RunOnceReturns
<1>15. ASSUME NEW c \in Runs, RunChecks(c)
      PROVE  OneClient' /\ SlotIsLive'
  BY <1>15 DEF RunChecks, NotifyFrom
<1>16. ASSUME NEW c \in Runs, ClearRoutes(c)
      PROVE  OneClient' /\ SlotIsLive'
  BY <1>16 DEF ClearRoutes
<1>17. ASSUME NEW c \in Runs, ShowNoRoutes(c)
      PROVE  OneClient' /\ SlotIsLive'
  BY <1>17 DEF ShowNoRoutes, OnRoutesChanged
<1>18. ASSUME NEW c \in Runs, OnDisconnected(c)
      PROVE  OneClient' /\ SlotIsLive'
  BY <1>18 DEF OnDisconnected, AfterNotify
<1>19. ASSUME NEW c \in Runs, Delay(c)
      PROVE  OneClient' /\ SlotIsLive'
  BY <1>19 DEF Delay, NotifyFrom
<1>20. ASSUME NEW c \in Runs, Watch(c)
      PROVE  OneClient' /\ SlotIsLive'
  BY <1>20 DEF Watch
<1>21. ASSUME NEW c \in Runs, Drop(c)
      PROVE  OneClient' /\ SlotIsLive'
  BY <1>21 DEF Drop
<1>22. ASSUME NEW c \in Runs, NEW R \in SUBSET Routes, ReceiveRoutes(c, R)
      PROVE  OneClient' /\ SlotIsLive'
  BY <1>22 DEF ReceiveRoutes
<1>23. CASE UNCHANGED vars
  BY <1>23 DEF vars
<1> QED
  BY <1>1, <1>2, <1>3, <1>4, <1>5, <1>6, <1>7, <1>8, <1>9, <1>10, <1>11, <1>12, <1>13, <1>14,
     <1>15, <1>16, <1>17, <1>18, <1>19, <1>20, <1>21, <1>22, <1>23, NextCases

-----------------------------------------------------------------------------
\* A classic client has cleared its routes whenever it dials again.
LEMMA RoutesForgottenStep ==
    ASSUME TypeOK, RoutesForgotten, [Next]_vars
    PROVE  RoutesForgotten'
<1> USE NoRunAssumption DEF TypeOK, PCs, Engines, RoutesForgotten, Unrouted, Goto, slotVars, runVars
<1>1. CASE StopClient
  BY <1>1 DEF StopClient
<1>2. CASE Shutdown
  BY <1>2 DEF Shutdown
<1>3. CASE ExitProcess
  BY <1>3 DEF ExitProcess, LaunchErrors
<1>4. CASE ServerChanges
  BY <1>4 DEF ServerChanges
<1>5. ASSUME NEW c \in Runs, NEW e \in Engines, StartClient(c, e)
      PROVE  RoutesForgotten'
  BY <1>5 DEF StartClient, Free, SlotIsFree
<1>6. ASSUME NEW c \in Runs, CallCancel(c)
      PROVE  RoutesForgotten'
  BY <1>6 DEF CallCancel
<1>7. ASSUME NEW c \in Runs, Validate(c)
      PROVE  RoutesForgotten'
  BY <1>7 DEF Validate
<1>8. ASSUME NEW c \in Runs, Dial(c)
      PROVE  RoutesForgotten'
  BY <1>8 DEF Dial, RunOnceReturns
<1>9. ASSUME NEW c \in Runs, RegisterAnswered(c)
      PROVE  RoutesForgotten'
  BY <1>9 DEF RegisterAnswered, RunOnceReturns
<1>10. ASSUME NEW c \in Runs, RegisterFails(c)
      PROVE  RoutesForgotten'
  BY <1>10 DEF RegisterFails, RunOnceReturns
<1>11. ASSUME NEW c \in Runs, OnConnected(c)
      PROVE  RoutesForgotten'
  BY <1>11 DEF OnConnected, NextMessage
<1>12. ASSUME NEW c \in Runs, QuicLoop(c)
      PROVE  RoutesForgotten'
  BY <1>12 DEF QuicLoop, RunOnceReturns
<1>13. ASSUME NEW c \in Runs, ShowRoutes(c)
      PROVE  RoutesForgotten'
  BY <1>13 DEF ShowRoutes, OnRoutesChanged, NextMessage
<1>14. ASSUME NEW c \in Runs, ReadFails(c)
      PROVE  RoutesForgotten'
  BY <1>14 DEF ReadFails, RunOnceReturns
<1>15. ASSUME NEW c \in Runs, RunChecks(c)
      PROVE  RoutesForgotten'
  BY <1>15 DEF RunChecks, NotifyFrom
<1>16. ASSUME NEW c \in Runs, ClearRoutes(c)
      PROVE  RoutesForgotten'
  BY <1>16 DEF ClearRoutes
<1>17. ASSUME NEW c \in Runs, ShowNoRoutes(c)
      PROVE  RoutesForgotten'
  BY <1>17 DEF ShowNoRoutes, OnRoutesChanged
<1>18. ASSUME NEW c \in Runs, OnDisconnected(c)
      PROVE  RoutesForgotten'
  BY <1>18 DEF OnDisconnected, AfterNotify
<1>19. ASSUME NEW c \in Runs, Delay(c)
      PROVE  RoutesForgotten'
  BY <1>19 DEF Delay, NotifyFrom
<1>20. ASSUME NEW c \in Runs, Watch(c)
      PROVE  RoutesForgotten'
  BY <1>20 DEF Watch
<1>21. ASSUME NEW c \in Runs, Drop(c)
      PROVE  RoutesForgotten'
  BY <1>21 DEF Drop
<1>22. ASSUME NEW c \in Runs, NEW R \in SUBSET Routes, ReceiveRoutes(c, R)
      PROVE  RoutesForgotten'
  BY <1>22 DEF ReceiveRoutes
<1>23. CASE UNCHANGED vars
  BY <1>23 DEF vars
<1> QED
  BY <1>1, <1>2, <1>3, <1>4, <1>5, <1>6, <1>7, <1>8, <1>9, <1>10, <1>11, <1>12, <1>13, <1>14,
     <1>15, <1>16, <1>17, <1>18, <1>19, <1>20, <1>21, <1>22, <1>23, NextCases

-----------------------------------------------------------------------------
\* Whoever leaves the read loop takes back what it has shown, since it holds the slot.
LEMMA ConnectedStep ==
    ASSUME TypeOK, OneClient, ConnectedIsOnline, [Next]_vars
    PROVE  ConnectedIsOnline'
<1> USE NoRunAssumption DEF TypeOK, OneClient, ConnectedIsOnline, Online, Goto, slotVars, runVars
<1>1. CASE StopClient
  BY <1>1 DEF StopClient
<1>2. CASE Shutdown
  BY <1>2 DEF Shutdown
<1>3. CASE ExitProcess
  BY <1>3 DEF ExitProcess, LaunchErrors
<1>4. CASE ServerChanges
  BY <1>4 DEF ServerChanges
<1>5. ASSUME NEW c \in Runs, NEW e \in Engines, StartClient(c, e)
      PROVE  ConnectedIsOnline'
  BY <1>5 DEF StartClient, Free, SlotIsFree
<1>6. ASSUME NEW c \in Runs, CallCancel(c)
      PROVE  ConnectedIsOnline'
  BY <1>6 DEF CallCancel
<1>7. ASSUME NEW c \in Runs, Validate(c)
      PROVE  ConnectedIsOnline'
  BY <1>7 DEF Validate
<1>8. ASSUME NEW c \in Runs, Dial(c)
      PROVE  ConnectedIsOnline'
  BY <1>8 DEF Dial, RunOnceReturns
<1>9. ASSUME NEW c \in Runs, RegisterAnswered(c)
      PROVE  ConnectedIsOnline'
  BY <1>9 DEF RegisterAnswered, RunOnceReturns
<1>10. ASSUME NEW c \in Runs, RegisterFails(c)
      PROVE  ConnectedIsOnline'
  BY <1>10 DEF RegisterFails, RunOnceReturns
<1>11. ASSUME NEW c \in Runs, OnConnected(c)
      PROVE  ConnectedIsOnline'
  BY <1>11 DEF OnConnected, NextMessage
<1>12. ASSUME NEW c \in Runs, QuicLoop(c)
      PROVE  ConnectedIsOnline'
  BY <1>12 DEF QuicLoop, RunOnceReturns
<1>13. ASSUME NEW c \in Runs, ShowRoutes(c)
      PROVE  ConnectedIsOnline'
  BY <1>13 DEF ShowRoutes, OnRoutesChanged, NextMessage
<1>14. ASSUME NEW c \in Runs, ReadFails(c)
      PROVE  ConnectedIsOnline'
  BY <1>14 DEF ReadFails, RunOnceReturns
<1>15. ASSUME NEW c \in Runs, RunChecks(c)
      PROVE  ConnectedIsOnline'
  BY <1>15 DEF RunChecks, NotifyFrom
<1>16. ASSUME NEW c \in Runs, ClearRoutes(c)
      PROVE  ConnectedIsOnline'
  BY <1>16 DEF ClearRoutes
<1>17. ASSUME NEW c \in Runs, ShowNoRoutes(c)
      PROVE  ConnectedIsOnline'
  BY <1>17 DEF ShowNoRoutes, OnRoutesChanged
<1>18. ASSUME NEW c \in Runs, OnDisconnected(c)
      PROVE  ConnectedIsOnline'
  BY <1>18 DEF OnDisconnected, AfterNotify
<1>19. ASSUME NEW c \in Runs, Delay(c)
      PROVE  ConnectedIsOnline'
  BY <1>19 DEF Delay, NotifyFrom
<1>20. ASSUME NEW c \in Runs, Watch(c)
      PROVE  ConnectedIsOnline'
  BY <1>20 DEF Watch
<1>21. ASSUME NEW c \in Runs, Drop(c)
      PROVE  ConnectedIsOnline'
  BY <1>21 DEF Drop
<1>22. ASSUME NEW c \in Runs, NEW R \in SUBSET Routes, ReceiveRoutes(c, R)
      PROVE  ConnectedIsOnline'
  BY <1>22 DEF ReceiveRoutes
<1>23. CASE UNCHANGED vars
  BY <1>23 DEF vars
<1> QED
  BY <1>1, <1>2, <1>3, <1>4, <1>5, <1>6, <1>7, <1>8, <1>9, <1>10, <1>11, <1>12, <1>13, <1>14,
     <1>15, <1>16, <1>17, <1>18, <1>19, <1>20, <1>21, <1>22, <1>23, NextCases

-----------------------------------------------------------------------------
\* Each change of the routes is followed by its callback, before anything else is shown.
LEMMA ShownRoutesStep ==
    ASSUME TypeOK, OneClient, SlotIsLive, RoutesForgotten, ShownRoutesAreServed, [Next]_vars
    PROVE  ShownRoutesAreServed'
<1> USE NoRunAssumption
   DEF TypeOK, PCs, Engines, OneClient, SlotIsLive, RoutesForgotten, Unrouted, ShownRoutesAreServed, Goto,
       slotVars, runVars
<1>1. CASE StopClient
  BY <1>1 DEF StopClient
<1>2. CASE Shutdown
  BY <1>2 DEF Shutdown
<1>3. CASE ExitProcess
  BY <1>3 DEF ExitProcess, LaunchErrors
<1>4. CASE ServerChanges
  BY <1>4 DEF ServerChanges
<1>5. ASSUME NEW c \in Runs, NEW e \in Engines, StartClient(c, e)
      PROVE  ShownRoutesAreServed'
  BY <1>5 DEF StartClient, Free, SlotIsFree
<1>6. ASSUME NEW c \in Runs, CallCancel(c)
      PROVE  ShownRoutesAreServed'
  BY <1>6 DEF CallCancel
<1>7. ASSUME NEW c \in Runs, Validate(c)
      PROVE  ShownRoutesAreServed'
  BY <1>7 DEF Validate
<1>8. ASSUME NEW c \in Runs, Dial(c)
      PROVE  ShownRoutesAreServed'
  BY <1>8 DEF Dial, RunOnceReturns
<1>9. ASSUME NEW c \in Runs, RegisterAnswered(c)
      PROVE  ShownRoutesAreServed'
  BY <1>9 DEF RegisterAnswered, RunOnceReturns
<1>10. ASSUME NEW c \in Runs, RegisterFails(c)
      PROVE  ShownRoutesAreServed'
  BY <1>10 DEF RegisterFails, RunOnceReturns
<1>11. ASSUME NEW c \in Runs, OnConnected(c)
      PROVE  ShownRoutesAreServed'
  BY <1>11 DEF OnConnected, NextMessage
<1>12. ASSUME NEW c \in Runs, QuicLoop(c)
      PROVE  ShownRoutesAreServed'
  BY <1>12 DEF QuicLoop, RunOnceReturns
<1>13. ASSUME NEW c \in Runs, ShowRoutes(c)
      PROVE  ShownRoutesAreServed'
  BY <1>13 DEF ShowRoutes, OnRoutesChanged, NextMessage
<1>14. ASSUME NEW c \in Runs, ReadFails(c)
      PROVE  ShownRoutesAreServed'
  BY <1>14 DEF ReadFails, RunOnceReturns
<1>15. ASSUME NEW c \in Runs, RunChecks(c)
      PROVE  ShownRoutesAreServed'
  BY <1>15 DEF RunChecks, NotifyFrom
<1>16. ASSUME NEW c \in Runs, ClearRoutes(c)
      PROVE  ShownRoutesAreServed'
  BY <1>16 DEF ClearRoutes
<1>17. ASSUME NEW c \in Runs, ShowNoRoutes(c)
      PROVE  ShownRoutesAreServed'
  BY <1>17 DEF ShowNoRoutes, OnRoutesChanged
<1>18. ASSUME NEW c \in Runs, OnDisconnected(c)
      PROVE  ShownRoutesAreServed'
  BY <1>18 DEF OnDisconnected, AfterNotify
<1>19. ASSUME NEW c \in Runs, Delay(c)
      PROVE  ShownRoutesAreServed'
  BY <1>19 DEF Delay, NotifyFrom
<1>20. ASSUME NEW c \in Runs, Watch(c)
      PROVE  ShownRoutesAreServed'
  BY <1>20 DEF Watch
<1>21. ASSUME NEW c \in Runs, Drop(c)
      PROVE  ShownRoutesAreServed'
  BY <1>21 DEF Drop
<1>22. ASSUME NEW c \in Runs, NEW R \in SUBSET Routes, ReceiveRoutes(c, R)
      PROVE  ShownRoutesAreServed'
  BY <1>22 DEF ReceiveRoutes
<1>23. CASE UNCHANGED vars
  BY <1>23 DEF vars
<1> QED
  BY <1>1, <1>2, <1>3, <1>4, <1>5, <1>6, <1>7, <1>8, <1>9, <1>10, <1>11, <1>12, <1>13, <1>14,
     <1>15, <1>16, <1>17, <1>18, <1>19, <1>20, <1>21, <1>22, <1>23, NextCases

-----------------------------------------------------------------------------
(* The theorems *)

\* The process starts with an empty slot and no client.
LEMMA InitIInv == Init => IInv
<1> SUFFICES ASSUME Init
             PROVE  IInv
  OBVIOUS
<1> USE NoRunAssumption DEF Init
<1>1. TypeOK
  BY DEF TypeOK, PCs, Engines, Errors, LaunchErrors
<1>2. OneClient /\ SlotIsLive /\ RoutesForgotten
  BY DEF OneClient, SlotIsLive, RoutesForgotten
<1>3. ConnectedIsOnline /\ ShownRoutesAreServed
  BY DEF ConnectedIsOnline, ShownRoutesAreServed
<1> QED
  BY <1>1, <1>2, <1>3 DEF IInv

\* Every step keeps the invariant; one lemma per conjunct.
LEMMA NextIInv == IInv /\ [Next]_vars => IInv'
BY TypeOKStep, OneClientStep, RoutesForgottenStep, ConnectedStep, ShownRoutesStep DEF IInv

\* The invariant holds of every reachable state.
LEMMA InductiveInvariant == Spec => []IInv
BY InitIInv, NextIInv, PTL DEF Spec

\* The manager never runs two clients, whatever starts, stops and late
\* cancellations overlap: startManagedTunnelClientWithTLS only checks that the
\* slot is free, and the slot is free only when the goroutine has returned.  And
\* what getManagedTunnelClientStatus shows as connected is the client in the
\* slot between its two callbacks, without an error of an earlier connection.
THEOREM ClientIsSafe == Spec => []ClientSafe
<1>1. IInv => ClientSafe
  BY DEF IInv, ClientSafe
<1> QED
  BY <1>1, InductiveInvariant, PTL

\* The routes shown are those the client serves, but for the moment between
\* replaceRoutes and its callback, and for a QUIC client that has lost its
\* connection, of which none are shown.
THEOREM RoutesShownAreServed == Spec => []ShownRoutesAreServed
<1>1. IInv => ShownRoutesAreServed
  BY DEF IInv
<1> QED
  BY <1>1, InductiveInvariant, PTL

\* A step opens a control connection only in dialServer, under a context that
\* is alive.
LEMMA OnlyDialConnects ==
    ASSUME TypeOK, [Next]_vars, NEW d \in Runs, link'[d], ~link[d]
    PROVE  ~CtxDone(d)
<1>1. link' # link
  OBVIOUS
<1>2. ASSUME NEW c \in Runs, Dial(c)
      PROVE  ~CtxDone(d)
  BY <1>1, <1>2 DEF Dial, RunOnceReturns, CanDial, CtxDone, TypeOK
<1>3. ASSUME NEW c \in Runs, RegisterAnswered(c) \/ RegisterFails(c) \/ QuicLoop(c) \/ ReadFails(c)
      PROVE  FALSE
  BY <1>1, <1>3 DEF RegisterAnswered, RegisterFails, QuicLoop, ReadFails, RunOnceReturns, TypeOK
<1>4. CASE ExitProcess \/ \E c \in Runs : Drop(c)
  BY <1>4 DEF ExitProcess, Drop, TypeOK
<1>5. CASE StopClient \/ Shutdown \/ ServerChanges \/ UNCHANGED vars
  BY <1>1, <1>5 DEF StopClient, Shutdown, ServerChanges, vars, runVars
<1>6. ASSUME NEW c \in Runs,
             \/ \E e \in Engines : StartClient(c, e)
             \/ \E R \in SUBSET Routes : ReceiveRoutes(c, R)
             \/ CallCancel(c) \/ Validate(c) \/ OnConnected(c) \/ ShowRoutes(c) \/ RunChecks(c)
             \/ ClearRoutes(c) \/ ShowNoRoutes(c) \/ OnDisconnected(c) \/ Delay(c) \/ Watch(c)
      PROVE  FALSE
  BY <1>1, <1>6
     DEF StartClient, ReceiveRoutes, CallCancel, Validate, OnConnected, ShowRoutes, RunChecks,
         ClearRoutes, ShowNoRoutes, OnRoutesChanged, OnDisconnected, Delay, Watch
<1> QED
  BY <1>2, <1>3, <1>4, <1>5, <1>6, NextCases

\* A client that was told to stop never opens another control connection, even
\* if its reconnect timer fires together with the cancellation.
THEOREM StoppedStaysAway == Spec => NoReconnectAfterStop
<1>1. IInv => TypeOK
  BY DEF IInv
<1>2. ASSUME TypeOK, [Next]_vars
      PROVE  [\A c \in Runs : CtxDone(c) /\ pc[c] # "idle" => ~(link'[c] /\ ~link[c])]_vars
  BY <1>2, OnlyDialConnects
<1> QED
  BY <1>1, <1>2, InductiveInvariant, PTL DEF Spec, NoReconnectAfterStop

-----------------------------------------------------------------------------
(* The tunnel servers, what is saved for them, and their TLS files *)

\* A handler that is about to write the row of configurations has read one for each
\* engine, and what it has read is still there unless somebody wrote in between.
RowsRead ==
    \A h \in ServiceHandlers : At(h, ConfigOps, "write") =>
        /\ serverJob[h].read \in [ServerEngines -> Configs]
        /\ serverJob[h].alone => serverJob[h].read = saved

\* An upload that is alone finds the files it has written.
LoneUpload ==
    \A h \in ServiceHandlers : serverJob[h].op = "upload" /\ serverJob[h].alone =>
        /\ \A k \in ServiceHandlers \ {h} : serverJob[k].op # "upload"
        /\ serverJob[h].at \in {"key", "ca"} => files["cert"] = serverJob[h].pair
        /\ serverJob[h].at = "ca" => files["key"] = serverJob[h].pair

\* A slot holds a server whose watcher has not returned.
SlotsHeld == \A e \in ServerEngines : serverSlot[e] # None => server[serverSlot[e]] # NoServer

\* The inductive invariant.
ServicesInv ==
    /\ ServicesTypeOK /\ ServersInSlots /\ SlotsHeld
    /\ RowsRead /\ LoneUpload

\* The jobs of a handler are told apart by their operation.
LEMMA JobKinds ==
    ASSUME ServicesTypeOK, NEW h \in ServiceHandlers
    PROVE  /\ serverJob[h].op \in {"none", "start", "save", "boot", "upload", "stop"}
           /\ serverJob[h].op = "none" => serverJob[h] = Idle
           /\ serverJob[h].op \in {"start", "save", "boot"} => serverJob[h] \in ServerJob
           /\ serverJob[h].op = "upload" => serverJob[h] \in UploadJob
           /\ serverJob[h].op = "stop" => serverJob[h] \in StopJob
BY DEF ServicesTypeOK, Idle, ServerJob, UploadJob, StopJob

\* A server that runs stops, fails, or is held by a silent peer, which may go again.
ServerTurns(s) ==
    /\ server[s].state \in {"running", "held"}
    /\ \E state \in {"running", "held", "ended"} : ServerBecomes(s, state)

\* Every step of the tunnel servers and their handlers is one of these.
LEMMA ServicesCases ==
    ASSUME ServicesNext
    PROVE  \/ BeginShutdown \/ ShutdownCancels \/ CancelShutdownCtx
           \/ Restart
           \/ \E s \in Servers : WatchServer(s) \/ ServerTurns(s)
           \/ \E h \in ServiceHandlers :
                \/ \E e \in ServerEngines : BootStart(h, e) \/ RequestStop(h, e)
                \/ \E r \in StartRequests : RequestStart(h, r[1], r[2])
                \/ \E r \in SaveRequests : RequestSave(h, r[1], r[2])
                \/ \E p \in Pairs : RequestUpload(h, p)
                \/ CallServerCancel(h) \/ LoadCert(h) \/ LoadKey(h)
                \/ LoadConfigs(h) \/ WriteConfigs(h) \/ Launch(h)
                \/ \E file \in {"cert", "key", "ca"} : WriteFile(h, file)
BY DEF ServicesNext, Request, Handle, ShutdownGoesOn, ServerStops, ServerFails, PeerFallsSilent, PeerGoes,
       ServerTurns

\* The jobs of handlers.
Jobs == {Idle} \cup ServerJob \cup UploadJob \cup StopJob

\* Every step keeps the types.
LEMMA ServicesTypes ==
    ASSUME ServicesTypeOK, RowsRead, [ServicesNext]_servicesVars
    PROVE  ServicesTypeOK'
<1> USE DEF ServicesTypeOK, tunnelVars, stopVars
<1>1. CASE BeginShutdown
  BY <1>1 DEF BeginShutdown
<1>2. CASE ShutdownCancels
  BY <1>2 DEF ShutdownCancels
<1>3. CASE CancelShutdownCtx
  BY <1>3 DEF CancelShutdownCtx
<1>4. CASE Restart
  BY <1>4 DEF Restart
<1>5. ASSUME NEW s \in Servers, WatchServer(s)
      PROVE  ServicesTypeOK'
  BY <1>5 DEF WatchServer
<1>6. ASSUME NEW s \in Servers, ServerTurns(s)
      PROVE  ServicesTypeOK'
  <2>1. PICK state \in {"running", "held", "ended"} : ServerBecomes(s, state)
    BY <1>6 DEF ServerTurns
  <2>2. server[s] \in [engine : ServerEngines, state : {"running", "held", "ended"}]
    BY <1>6 DEF ServerTurns, NoServer
  <2>3. [server[s] EXCEPT !.state = state] \in [engine : ServerEngines, state : {"running", "held", "ended"}]
    BY <2>2
  <2> QED
    BY <2>1, <2>3 DEF ServerBecomes
<1>7. ASSUME NEW h \in ServiceHandlers, NEW e \in ServerEngines, BootStart(h, e)
      PROVE  ServicesTypeOK'
  <2>1. NewServerJob("boot", "cert", e, serverBoot[e]) \in Jobs
    BY <1>7 DEF Jobs, NewServerJob, ServerJob, BootStart
  <2> QED
    BY <1>7, <2>1 DEF BootStart, Jobs
<1>8. ASSUME NEW h \in ServiceHandlers, NEW e \in ServerEngines, RequestStop(h, e)
      PROVE  ServicesTypeOK'
  <2>1. [op |-> "stop", target |-> serverSlot[e]] \in Jobs
    BY <1>8 DEF Jobs, RequestStop, StopJob
  <2> QED
    BY <1>8, <2>1 DEF RequestStop, Jobs
<1>9. ASSUME NEW h \in ServiceHandlers, NEW r \in StartRequests, RequestStart(h, r[1], r[2])
      PROVE  ServicesTypeOK'
  <2>1. r[1] \in ServerEngines /\ r[2] \in Configs
    BY RequestAssumption
  <2>2. NewServerJob("start", "cert", r[1], r[2]) \in Jobs
    BY <2>1 DEF Jobs, NewServerJob, ServerJob
  <2> QED
    BY <1>9, <2>2 DEF RequestStart, Jobs
<1>10. ASSUME NEW h \in ServiceHandlers, NEW r \in SaveRequests, RequestSave(h, r[1], r[2])
      PROVE  ServicesTypeOK'
  <2>1. r[1] \in ServerEngines /\ r[2] \in Configs
    BY RequestAssumption
  <2>2. NewServerJob("save", "load", r[1], r[2]) \in Jobs
    BY <2>1 DEF Jobs, NewServerJob, ServerJob
  <2> QED
    BY <1>10, <2>2 DEF RequestSave, Jobs
<1>11. ASSUME NEW h \in ServiceHandlers, NEW p \in Pairs, RequestUpload(h, p)
      PROVE  ServicesTypeOK'
  <2>1. \A k \in ServiceHandlers : serverJob[k].op = "upload" =>
            [serverJob[k] EXCEPT !.alone = FALSE] \in UploadJob
    BY JobKinds DEF UploadJob
  <2>2. \A b \in BOOLEAN : [op |-> "upload", at |-> "cert", pair |-> p, alone |-> b] \in UploadJob
    BY DEF UploadJob
  <2>3. \A k \in ServiceHandlers : serverJob'[k] \in Jobs
    BY <1>11, <2>1, <2>2 DEF RequestUpload, Jobs
  <2> QED
    BY <1>11, <2>3 DEF RequestUpload, Jobs
<1>12. ASSUME NEW h \in ServiceHandlers, CallServerCancel(h)
      PROVE  ServicesTypeOK'
  <2>1. serverJob[h] \in StopJob
    BY <1>12, JobKinds DEF CallServerCancel
  <2>2. serverJob[h].target \in Servers
    BY <2>1 DEF StopJob
  <2> QED
    BY <1>12, <2>2 DEF CallServerCancel, Finish
<1>13. ASSUME NEW h \in ServiceHandlers, LoadCert(h)
      PROVE  ServicesTypeOK'
  <2>1. serverJob[h] \in ServerJob
    BY <1>13, JobKinds DEF LoadCert, At, ConfigOps
  <2>2. serverJob' = [serverJob EXCEPT ![h] = serverJob'[h]] /\ serverJob'[h] \in Jobs
    BY <1>13, <2>1 DEF LoadCert, ServerJob, Jobs, Finish
  <2> QED
    BY <1>13, <2>2 DEF LoadCert, Jobs
<1>14. ASSUME NEW h \in ServiceHandlers, LoadKey(h)
      PROVE  ServicesTypeOK'
  <2>1. serverJob[h] \in ServerJob
    BY <1>14, JobKinds DEF LoadKey, At, ConfigOps
  <2>2. serverJob' = [serverJob EXCEPT ![h] = serverJob'[h]] /\ serverJob'[h] \in Jobs
    BY <1>14, <2>1 DEF LoadKey, ServerJob, Jobs, Finish
  <2> QED
    BY <1>14, <2>2 DEF LoadKey, Jobs
<1>15. ASSUME NEW h \in ServiceHandlers, LoadConfigs(h)
      PROVE  ServicesTypeOK'
  <2>1. serverJob[h] \in ServerJob
    BY <1>15, JobKinds DEF LoadConfigs, At, ConfigOps
  <2>2. saved \in [ServerEngines -> Configs] /\ [e \in ServerEngines |-> Default] \in [ServerEngines -> Configs]
    BY ConfigAssumption
  <2>3. PICK ok \in BOOLEAN : serverJob' = [serverJob EXCEPT ![h].at = "write", ![h].alone = ok,
            ![h].read = IF ok THEN saved ELSE [e \in ServerEngines |-> Default]]
    BY <1>15 DEF LoadConfigs
  <2>4. serverJob' = [serverJob EXCEPT ![h] = serverJob'[h]]
    BY <2>3
  <2>5. serverJob'[h] \in Jobs
    BY <2>1, <2>2, <2>3 DEF ServerJob, Jobs
  <2> QED
    BY <1>15, <2>4, <2>5 DEF LoadConfigs, Jobs
<1>16. ASSUME NEW h \in ServiceHandlers, WriteConfigs(h)
      PROVE  ServicesTypeOK'
  <2>1. CASE Finish(h) /\ UNCHANGED saved
    BY <1>16, <2>1 DEF WriteConfigs, Finish
  <2>2. CASE /\ saved' = [serverJob[h].read EXCEPT ![serverJob[h].engine] = serverJob[h].config]
             /\ Written(h)
    <3>1. \A k \in ServiceHandlers : At(k, ConfigOps, "write") =>
              serverJob[k] \in ServerJob
      BY JobKinds DEF At, ConfigOps
    <3>2. \A k \in ServiceHandlers \ {h} : serverJob'[k] \in Jobs
      <4>1. \A k \in ServiceHandlers : At(k, ConfigOps, "write") =>
                [serverJob[k] EXCEPT !.alone = FALSE] \in ServerJob
        BY <3>1 DEF ServerJob
      <4> QED
        BY <2>2, <4>1 DEF Written, Jobs
    <3>3. serverJob'[h] \in Jobs
      <4>1. [serverJob[h] EXCEPT !.at = "launch", !.read = None, !.alone = FALSE] \in ServerJob
        BY <1>16, <3>1 DEF WriteConfigs, ServerJob
      <4> QED
        BY <2>2, <4>1 DEF Written, Jobs
    <3>4. saved' \in [ServerEngines -> Configs]
      <4>1. serverJob[h].engine \in ServerEngines /\ serverJob[h].config \in Configs
        BY <1>16, <3>1 DEF WriteConfigs, ServerJob
      <4>2. serverJob[h].read \in [ServerEngines -> Configs]
        BY <1>16 DEF WriteConfigs, RowsRead
      <4> QED
        BY <2>2, <4>1, <4>2
    <3>5. serverJob' \in [ServiceHandlers -> Jobs]
      BY <2>2, <3>2, <3>3 DEF Written
    <3> QED
      BY <1>16, <3>4, <3>5 DEF WriteConfigs, Jobs
  <2> QED
    BY <1>16, <2>1, <2>2 DEF WriteConfigs
<1>17. ASSUME NEW h \in ServiceHandlers, Launch(h)
      PROVE  ServicesTypeOK'
  <2>1. serverJob' \in [ServiceHandlers -> Jobs]
    BY <1>17 DEF Launch, Finish, Jobs
  <2>2. CASE UNCHANGED <<server, serverCancelled, serverSlot>>
    BY <1>17, <2>1, <2>2 DEF Launch, Jobs
  <2>3. CASE StartServer(serverJob[h].engine)
    <3>1. serverJob[h].engine \in ServerEngines
      BY <1>17, JobKinds DEF Launch, At, ConfigOps, ServerJob
    <3>2. PICK s \in Servers :
              /\ server' = [server EXCEPT ![s] = [engine |-> serverJob[h].engine, state |-> "running"]]
              /\ serverCancelled' = serverCancelled \ {s}
              /\ serverSlot' = [serverSlot EXCEPT ![serverJob[h].engine] = s]
      BY <2>3 DEF StartServer
    <3> QED
      BY <1>17, <2>1, <3>1, <3>2 DEF Launch, Jobs
  <2> QED
    BY <1>17, <2>2, <2>3 DEF Launch
<1>18. ASSUME NEW h \in ServiceHandlers, NEW file \in {"cert", "key", "ca"}, WriteFile(h, file)
      PROVE  ServicesTypeOK'
  <2>1. serverJob[h] \in UploadJob
    BY <1>18, JobKinds DEF WriteFile, At
  <2>2. serverJob' \in [ServiceHandlers -> Jobs]
    <3>1. CASE Finish(h)
      BY <3>1 DEF Finish, Jobs
    <3>2. CASE file # "ca" /\ serverJob' = [serverJob EXCEPT ![h].at = After(file)]
      <4>1. [serverJob[h] EXCEPT !.at = After(file)] \in UploadJob
        BY <2>1 DEF UploadJob, After
      <4> QED
        BY <3>2, <4>1 DEF Jobs
    <3> QED
      BY <1>18, <3>1, <3>2 DEF WriteFile
  <2>3. files' \in [{"cert", "key", "ca"} -> Pairs \cup {None}]
    <3>1. serverJob[h].pair \in Pairs
      BY <2>1 DEF UploadJob
    <3> QED
      BY <1>18, <3>1 DEF WriteFile
  <2> QED
    BY <1>18, <2>2, <2>3 DEF WriteFile, Jobs
<1>19. CASE UNCHANGED servicesVars
  BY <1>19 DEF servicesVars
<1> QED
  BY <1>1, <1>2, <1>3, <1>4, <1>5, <1>6, <1>7, <1>8, <1>9, <1>10, <1>11, <1>12, <1>13, <1>14, <1>15,
     <1>16, <1>17, <1>18, <1>19, ServicesCases

\* The check of the slot, the start and the release by the watcher are under one lock.
LEMMA SlotsStep ==
    ASSUME ServicesTypeOK, ServersInSlots, SlotsHeld, [ServicesNext]_servicesVars
    PROVE  ServersInSlots' /\ SlotsHeld'
<1> USE DEF ServersInSlots, SlotsHeld, tunnelVars
<1>1. CASE BeginShutdown
  BY <1>1 DEF BeginShutdown
<1>2. CASE ShutdownCancels
  BY <1>2 DEF ShutdownCancels
<1>3. CASE CancelShutdownCtx
  BY <1>3 DEF CancelShutdownCtx
<1>4. CASE Restart
  BY <1>4 DEF Restart
<1>5. ASSUME NEW s \in Servers, WatchServer(s)
      PROVE  ServersInSlots' /\ SlotsHeld'
  <2>1. server[s] # NoServer
    BY <1>5 DEF WatchServer, NoServer
  <2>2. \A t \in Servers : server'[t] = IF t = s THEN NoServer ELSE server[t]
    BY <1>5 DEF WatchServer, ServicesTypeOK
  <2>3. \A e \in ServerEngines : serverSlot'[e] = IF serverSlot[e] = s THEN None ELSE serverSlot[e]
    BY <1>5 DEF WatchServer
  <2>4. \A e \in ServerEngines : serverSlot[e] \in Servers \cup {None}
    BY DEF ServicesTypeOK
  <2>5. \A t \in Servers : server[t] # NoServer => server[t].engine \in ServerEngines
    BY DEF ServicesTypeOK
  <2> QED
    BY <2>1, <2>2, <2>3, <2>4, <2>5
<1>6. ASSUME NEW s \in Servers, ServerTurns(s)
      PROVE  ServersInSlots' /\ SlotsHeld'
  <2>1. server[s] # NoServer /\ server'[s] # NoServer
    BY <1>6 DEF ServerTurns, ServerBecomes, ServicesTypeOK, NoServer
  <2>2. server'[s].engine = server[s].engine
    BY <1>6, <2>1 DEF ServerTurns, ServerBecomes, ServicesTypeOK
  <2>3. \A t \in Servers \ {s} : server'[t] = server[t]
    BY <1>6 DEF ServerTurns, ServerBecomes, ServicesTypeOK
  <2>4. serverSlot' = serverSlot /\ \A e \in ServerEngines : serverSlot[e] \in Servers \cup {None}
    BY <1>6 DEF ServerTurns, ServerBecomes, ServicesTypeOK
  <2> QED
    BY <2>1, <2>2, <2>3, <2>4
<1>7. ASSUME NEW h \in ServiceHandlers, NEW e \in ServerEngines, BootStart(h, e)
      PROVE  ServersInSlots' /\ SlotsHeld'
  BY <1>7 DEF BootStart
<1>8. ASSUME NEW h \in ServiceHandlers, NEW e \in ServerEngines, RequestStop(h, e)
      PROVE  ServersInSlots' /\ SlotsHeld'
  BY <1>8 DEF RequestStop
<1>9. ASSUME NEW h \in ServiceHandlers, NEW r \in StartRequests, RequestStart(h, r[1], r[2])
      PROVE  ServersInSlots' /\ SlotsHeld'
  BY <1>9 DEF RequestStart
<1>10. ASSUME NEW h \in ServiceHandlers, NEW r \in SaveRequests, RequestSave(h, r[1], r[2])
      PROVE  ServersInSlots' /\ SlotsHeld'
  BY <1>10 DEF RequestSave
<1>11. ASSUME NEW h \in ServiceHandlers, NEW p \in Pairs, RequestUpload(h, p)
      PROVE  ServersInSlots' /\ SlotsHeld'
  BY <1>11 DEF RequestUpload
<1>12. ASSUME NEW h \in ServiceHandlers, CallServerCancel(h)
      PROVE  ServersInSlots' /\ SlotsHeld'
  BY <1>12 DEF CallServerCancel
<1>13. ASSUME NEW h \in ServiceHandlers, LoadCert(h)
      PROVE  ServersInSlots' /\ SlotsHeld'
  BY <1>13 DEF LoadCert
<1>14. ASSUME NEW h \in ServiceHandlers, LoadKey(h)
      PROVE  ServersInSlots' /\ SlotsHeld'
  BY <1>14 DEF LoadKey
<1>15. ASSUME NEW h \in ServiceHandlers, LoadConfigs(h)
      PROVE  ServersInSlots' /\ SlotsHeld'
  BY <1>15 DEF LoadConfigs
<1>16. ASSUME NEW h \in ServiceHandlers, WriteConfigs(h)
      PROVE  ServersInSlots' /\ SlotsHeld'
  BY <1>16 DEF WriteConfigs
<1>17. ASSUME NEW h \in ServiceHandlers, Launch(h)
      PROVE  ServersInSlots' /\ SlotsHeld'
  <2>1. CASE UNCHANGED <<server, serverCancelled, serverSlot>>
    BY <2>1
  <2>2. CASE serverSlot[serverJob[h].engine] = None /\ StartServer(serverJob[h].engine)
    <3> DEFINE e == serverJob[h].engine
    <3>1. e \in ServerEngines
      BY <1>17, JobKinds DEF Launch, At, ConfigOps, ServerJob
    <3>2. PICK s \in Servers :
              /\ server[s] = NoServer
              /\ server' = [server EXCEPT ![s] = [engine |-> e, state |-> "running"]]
              /\ serverSlot' = [serverSlot EXCEPT ![e] = s]
      BY <2>2 DEF StartServer, FreeServer
    <3>3. server'[s] # NoServer /\ server'[s].engine = e
      BY <3>2 DEF ServicesTypeOK, NoServer
    <3>4. \A t \in Servers \ {s} : server'[t] = server[t]
      BY <3>2 DEF ServicesTypeOK
    <3>5. serverSlot'[e] = s /\ \A d \in ServerEngines \ {e} : serverSlot'[d] = serverSlot[d]
      BY <3>1, <3>2 DEF ServicesTypeOK
    <3>6. \A d \in ServerEngines : serverSlot[d] \in Servers \cup {None}
      BY DEF ServicesTypeOK
    <3>7. \A t \in Servers : server[t] # NoServer => server[t].engine \in ServerEngines
      BY DEF ServicesTypeOK
    <3>8. s # None
      BY NoneAssumption
    <3>9. ASSUME NEW t \in Servers, server'[t] # NoServer
          PROVE  serverSlot'[server'[t].engine] = t
      <4>1. CASE t = s
        BY <3>3, <3>5, <4>1
      <4>2. CASE t # s
        <5>1. serverSlot[server[t].engine] = t /\ server[t].engine \in ServerEngines
          BY <3>4, <3>7, <3>9, <4>2
        <5>2. t # None
          BY NoneAssumption
        <5>3. server[t].engine # e
          BY <2>2, <5>1, <5>2
        <5> QED
          BY <3>4, <3>5, <4>2, <5>1, <5>3
      <4> QED
        BY <4>1, <4>2
    <3>10. ASSUME NEW d \in ServerEngines, serverSlot'[d] # None
           PROVE  server'[serverSlot'[d]].engine = d /\ server'[serverSlot'[d]] # NoServer
      <4>1. CASE d = e
        BY <3>3, <3>5, <4>1
      <4>2. CASE d # e
        <5>1. serverSlot'[d] = serverSlot[d] /\ serverSlot[d] \in Servers
          BY <3>5, <3>6, <3>10, <4>2
        <5>2. server[serverSlot[d]] # NoServer /\ server[serverSlot[d]].engine = d
          BY <3>10, <5>1
        <5>3. serverSlot[d] # s
          BY <3>2, <5>2
        <5> QED
          BY <3>4, <5>1, <5>2, <5>3
      <4> QED
        BY <4>1, <4>2
    <3> QED
      BY <3>9, <3>10
  <2> QED
    BY <1>17, <2>1, <2>2 DEF Launch
<1>18. ASSUME NEW h \in ServiceHandlers, NEW file \in {"cert", "key", "ca"}, WriteFile(h, file)
      PROVE  ServersInSlots' /\ SlotsHeld'
  BY <1>18 DEF WriteFile
<1>19. CASE UNCHANGED servicesVars
  BY <1>19 DEF servicesVars
<1> QED
  BY <1>1, <1>2, <1>3, <1>4, <1>5, <1>6, <1>7, <1>8, <1>9, <1>10, <1>11, <1>12, <1>13, <1>14, <1>15,
     <1>16, <1>17, <1>18, <1>19, ServicesCases

\* Who reads or writes no row changes nothing here.
LEMMA RowsUntouched ==
    ASSUME RowsRead, UNCHANGED saved,
           \A k \in ServiceHandlers : At(k, ConfigOps, "write")' => serverJob'[k] = serverJob[k]
    PROVE  RowsRead'
BY DEF RowsRead, At

\* Whoever writes the row tells those who have read it.
LEMMA RowsReadStep ==
    ASSUME ServicesTypeOK, RowsRead, [ServicesNext]_servicesVars
    PROVE  RowsRead'
<1> USE DEF tunnelVars
<1>1. CASE BeginShutdown
  BY <1>1, RowsUntouched DEF BeginShutdown
<1>2. CASE ShutdownCancels
  BY <1>2, RowsUntouched DEF ShutdownCancels
<1>3. CASE CancelShutdownCtx
  BY <1>3, RowsUntouched DEF CancelShutdownCtx
<1>4. CASE Restart
  BY <1>4 DEF Restart, RowsRead, At, ConfigOps, Idle
<1>5. ASSUME NEW s \in Servers, WatchServer(s)
      PROVE  RowsRead'
  BY <1>5, RowsUntouched DEF WatchServer
<1>6. ASSUME NEW s \in Servers, ServerTurns(s)
      PROVE  RowsRead'
  BY <1>6, RowsUntouched DEF ServerTurns, ServerBecomes
<1>7. ASSUME NEW h \in ServiceHandlers, NEW e \in ServerEngines, BootStart(h, e)
      PROVE  RowsRead'
  <2>1. \A k \in ServiceHandlers : At(k, ConfigOps, "write")' => serverJob'[k] = serverJob[k]
    BY <1>7 DEF BootStart, NewServerJob, ServicesTypeOK, At, ConfigOps
  <2> QED
    BY <1>7, <2>1, RowsUntouched DEF BootStart
<1>8. ASSUME NEW h \in ServiceHandlers, NEW e \in ServerEngines, RequestStop(h, e)
      PROVE  RowsRead'
  <2>1. \A k \in ServiceHandlers : At(k, ConfigOps, "write")' => serverJob'[k] = serverJob[k]
    BY <1>8 DEF RequestStop, ServicesTypeOK, At, ConfigOps
  <2> QED
    BY <1>8, <2>1, RowsUntouched DEF RequestStop
<1>9. ASSUME NEW h \in ServiceHandlers, NEW r \in StartRequests, RequestStart(h, r[1], r[2])
      PROVE  RowsRead'
  <2>1. \A k \in ServiceHandlers : At(k, ConfigOps, "write")' => serverJob'[k] = serverJob[k]
    BY <1>9 DEF RequestStart, NewServerJob, ServicesTypeOK, At, ConfigOps
  <2> QED
    BY <1>9, <2>1, RowsUntouched DEF RequestStart
<1>10. ASSUME NEW h \in ServiceHandlers, NEW r \in SaveRequests, RequestSave(h, r[1], r[2])
      PROVE  RowsRead'
  <2>1. \A k \in ServiceHandlers : At(k, ConfigOps, "write")' => serverJob'[k] = serverJob[k]
    BY <1>10 DEF RequestSave, NewServerJob, ServicesTypeOK, At, ConfigOps
  <2> QED
    BY <1>10, <2>1, RowsUntouched DEF RequestSave
<1>11. ASSUME NEW h \in ServiceHandlers, NEW p \in Pairs, RequestUpload(h, p)
      PROVE  RowsRead'
  <2>1. \A k \in ServiceHandlers : At(k, ConfigOps, "write")' => serverJob'[k] = serverJob[k]
    BY <1>11 DEF RequestUpload, ServicesTypeOK, At, ConfigOps
  <2> QED
    BY <1>11, <2>1, RowsUntouched DEF RequestUpload
<1>12. ASSUME NEW h \in ServiceHandlers, CallServerCancel(h)
      PROVE  RowsRead'
  <2>1. \A k \in ServiceHandlers : At(k, ConfigOps, "write")' => serverJob'[k] = serverJob[k]
    BY <1>12 DEF CallServerCancel, Finish, Idle, ServicesTypeOK, At, ConfigOps
  <2> QED
    BY <1>12, <2>1, RowsUntouched DEF CallServerCancel
<1>13. ASSUME NEW h \in ServiceHandlers, LoadCert(h)
      PROVE  RowsRead'
  <2>1. \A k \in ServiceHandlers : At(k, ConfigOps, "write")' => serverJob'[k] = serverJob[k]
    BY <1>13, JobKinds DEF LoadCert, Finish, Idle, ServerJob, ServicesTypeOK, At, ConfigOps
  <2> QED
    BY <1>13, <2>1, RowsUntouched DEF LoadCert
<1>14. ASSUME NEW h \in ServiceHandlers, LoadKey(h)
      PROVE  RowsRead'
  <2>1. \A k \in ServiceHandlers : At(k, ConfigOps, "write")' => serverJob'[k] = serverJob[k]
    BY <1>14, JobKinds DEF LoadKey, Finish, Idle, ServerJob, ServicesTypeOK, At, ConfigOps
  <2> QED
    BY <1>14, <2>1, RowsUntouched DEF LoadKey
<1>15. ASSUME NEW h \in ServiceHandlers, LoadConfigs(h)
      PROVE  RowsRead'
  <2>1. saved \in [ServerEngines -> Configs] /\ [e \in ServerEngines |-> Default] \in [ServerEngines -> Configs]
    BY ConfigAssumption DEF ServicesTypeOK
  <2>2. serverJob[h] \in ServerJob
    BY <1>15, JobKinds DEF LoadConfigs, At, ConfigOps
  <2>3. PICK ok \in BOOLEAN : serverJob' = [serverJob EXCEPT ![h].at = "write", ![h].alone = ok,
            ![h].read = IF ok THEN saved ELSE [e \in ServerEngines |-> Default]]
    BY <1>15 DEF LoadConfigs
  <2>4. /\ serverJob'[h].alone = ok
        /\ serverJob'[h].read = IF ok THEN saved ELSE [e \in ServerEngines |-> Default]
    BY <2>2, <2>3 DEF ServicesTypeOK, ServerJob
  <2>5. \A k \in ServiceHandlers \ {h} : serverJob'[k] = serverJob[k]
    BY <2>3 DEF ServicesTypeOK
  <2>6. saved' = saved
    BY <1>15 DEF LoadConfigs
  <2> QED
    BY <2>1, <2>4, <2>5, <2>6 DEF RowsRead, At
<1>16. ASSUME NEW h \in ServiceHandlers, WriteConfigs(h)
      PROVE  RowsRead'
  <2>1. CASE Finish(h) /\ UNCHANGED saved
    <3>1. \A k \in ServiceHandlers : At(k, ConfigOps, "write")' => serverJob'[k] = serverJob[k]
      BY <2>1 DEF Finish, ServicesTypeOK, At, ConfigOps, Idle
    <3> QED
      BY <2>1, <3>1, RowsUntouched
  <2>2. CASE Written(h)
    <3>1. ASSUME NEW k \in ServiceHandlers, At(k, ConfigOps, "write")'
          PROVE  serverJob'[k].alone = FALSE /\ serverJob'[k].read \in [ServerEngines -> Configs]
      <4>1. k # h
        BY <1>16, <2>2, <3>1, JobKinds DEF Written, WriteConfigs, ServicesTypeOK, At, ConfigOps,
               Idle, ServerJob
      <4>2. serverJob'[k] = IF At(k, ConfigOps, "write")
                            THEN [serverJob[k] EXCEPT !.alone = FALSE] ELSE serverJob[k]
        BY <2>2, <4>1 DEF Written
      <4>3. At(k, ConfigOps, "write")
        BY <3>1, <4>2 DEF At
      <4>4. serverJob[k] \in ServerJob
        BY <4>3, JobKinds DEF At, ConfigOps
      <4>5. serverJob'[k] = [serverJob[k] EXCEPT !.alone = FALSE]
        BY <4>2, <4>3
      <4>6. serverJob'[k].alone = FALSE /\ serverJob'[k].read = serverJob[k].read
        BY <4>4, <4>5 DEF ServerJob
      <4> QED
        BY <4>3, <4>6 DEF RowsRead
    <3> QED
      BY <3>1 DEF RowsRead, At
  <2> QED
    BY <1>16, <2>1, <2>2 DEF WriteConfigs
<1>17. ASSUME NEW h \in ServiceHandlers, Launch(h)
      PROVE  RowsRead'
  <2>1. \A k \in ServiceHandlers : At(k, ConfigOps, "write")' => serverJob'[k] = serverJob[k]
    BY <1>17 DEF Launch, Finish, StartServer, Idle, ServicesTypeOK, At, ConfigOps
  <2> QED
    BY <1>17, <2>1, RowsUntouched DEF Launch
<1>18. ASSUME NEW h \in ServiceHandlers, NEW file \in {"cert", "key", "ca"}, WriteFile(h, file)
      PROVE  RowsRead'
  <2>1. \A k \in ServiceHandlers : At(k, ConfigOps, "write")' => serverJob'[k] = serverJob[k]
    BY <1>18, JobKinds DEF WriteFile, Finish, After, Idle, UploadJob, ServicesTypeOK, At, ConfigOps
  <2> QED
    BY <1>18, <2>1, RowsUntouched DEF WriteFile
<1>19. CASE UNCHANGED servicesVars
  BY <1>19, RowsUntouched DEF servicesVars
<1> QED
  BY <1>1, <1>2, <1>3, <1>4, <1>5, <1>6, <1>7, <1>8, <1>9, <1>10, <1>11, <1>12, <1>13, <1>14, <1>15,
     <1>16, <1>17, <1>18, <1>19, ServicesCases

\* Who starts no upload and writes no file changes nothing here.
LEMMA UploadsUntouched ==
    ASSUME LoneUpload, UNCHANGED files,
           \A k \in ServiceHandlers : serverJob'[k].op = "upload" => serverJob'[k] = serverJob[k]
    PROVE  LoneUpload'
BY DEF LoneUpload

\* A second upload tells the first one, and an upload writes its files in order.
LEMMA LoneUploadStep ==
    ASSUME ServicesTypeOK, LoneUpload, [ServicesNext]_servicesVars
    PROVE  LoneUpload'
<1> USE DEF tunnelVars
<1>1. CASE BeginShutdown
  BY <1>1, UploadsUntouched DEF BeginShutdown
<1>2. CASE ShutdownCancels
  BY <1>2, UploadsUntouched DEF ShutdownCancels
<1>3. CASE CancelShutdownCtx
  BY <1>3, UploadsUntouched DEF CancelShutdownCtx
<1>4. CASE Restart
  BY <1>4 DEF Restart, LoneUpload, Idle
<1>5. ASSUME NEW s \in Servers, WatchServer(s)
      PROVE  LoneUpload'
  BY <1>5, UploadsUntouched DEF WatchServer
<1>6. ASSUME NEW s \in Servers, ServerTurns(s)
      PROVE  LoneUpload'
  BY <1>6, UploadsUntouched DEF ServerTurns, ServerBecomes
<1>7. ASSUME NEW h \in ServiceHandlers, NEW e \in ServerEngines, BootStart(h, e)
      PROVE  LoneUpload'
  <2>1. \A k \in ServiceHandlers : serverJob'[k].op = "upload" => serverJob'[k] = serverJob[k]
    BY <1>7 DEF BootStart, NewServerJob, ServicesTypeOK
  <2> QED
    BY <1>7, <2>1, UploadsUntouched DEF BootStart
<1>8. ASSUME NEW h \in ServiceHandlers, NEW e \in ServerEngines, RequestStop(h, e)
      PROVE  LoneUpload'
  <2>1. \A k \in ServiceHandlers : serverJob'[k].op = "upload" => serverJob'[k] = serverJob[k]
    BY <1>8 DEF RequestStop, ServicesTypeOK
  <2> QED
    BY <1>8, <2>1, UploadsUntouched DEF RequestStop
<1>9. ASSUME NEW h \in ServiceHandlers, NEW r \in StartRequests, RequestStart(h, r[1], r[2])
      PROVE  LoneUpload'
  <2>1. \A k \in ServiceHandlers : serverJob'[k].op = "upload" => serverJob'[k] = serverJob[k]
    BY <1>9 DEF RequestStart, NewServerJob, ServicesTypeOK
  <2> QED
    BY <1>9, <2>1, UploadsUntouched DEF RequestStart
<1>10. ASSUME NEW h \in ServiceHandlers, NEW r \in SaveRequests, RequestSave(h, r[1], r[2])
      PROVE  LoneUpload'
  <2>1. \A k \in ServiceHandlers : serverJob'[k].op = "upload" => serverJob'[k] = serverJob[k]
    BY <1>10 DEF RequestSave, NewServerJob, ServicesTypeOK
  <2> QED
    BY <1>10, <2>1, UploadsUntouched DEF RequestSave
<1>11. ASSUME NEW h \in ServiceHandlers, NEW p \in Pairs, RequestUpload(h, p)
      PROVE  LoneUpload'
  <2> DEFINE others == {k \in ServiceHandlers : serverJob[k].op = "upload"}
  <2>1. h \notin others
    BY <1>11 DEF RequestUpload, Idle
  <2>2. /\ serverJob'[h].alone => others = {}
        /\ serverJob'[h].at = "cert"
    BY <1>11, <2>1 DEF RequestUpload
  <2>3. \A k \in others : serverJob'[k].alone = FALSE
    <3>1. \A k \in others : serverJob'[k] = [serverJob[k] EXCEPT !.alone = FALSE]
      BY <1>11, <2>1 DEF RequestUpload
    <3> QED
      BY <3>1, JobKinds DEF UploadJob
  <2>4. \A k \in ServiceHandlers \ (others \cup {h}) : serverJob'[k] = serverJob[k]
    BY <1>11 DEF RequestUpload
  <2>5. \A k \in ServiceHandlers : serverJob'[k].op = "upload" /\ serverJob'[k].alone => k = h
    BY <2>3, <2>4
  <2>6. serverJob'[h].alone => \A k \in ServiceHandlers \ {h} : serverJob'[k].op # "upload"
    BY <2>2, <2>4
  <2> QED
    BY <2>2, <2>5, <2>6 DEF LoneUpload
<1>12. ASSUME NEW h \in ServiceHandlers, CallServerCancel(h)
      PROVE  LoneUpload'
  <2>1. \A k \in ServiceHandlers : serverJob'[k].op = "upload" => serverJob'[k] = serverJob[k]
    BY <1>12 DEF CallServerCancel, Finish, Idle, ServicesTypeOK
  <2> QED
    BY <1>12, <2>1, UploadsUntouched DEF CallServerCancel
<1>13. ASSUME NEW h \in ServiceHandlers, LoadCert(h)
      PROVE  LoneUpload'
  <2>1. \A k \in ServiceHandlers : serverJob'[k].op = "upload" => serverJob'[k] = serverJob[k]
    BY <1>13, JobKinds DEF LoadCert, Finish, Idle, ServerJob, At, ConfigOps, ServicesTypeOK
  <2> QED
    BY <1>13, <2>1, UploadsUntouched DEF LoadCert
<1>14. ASSUME NEW h \in ServiceHandlers, LoadKey(h)
      PROVE  LoneUpload'
  <2>1. \A k \in ServiceHandlers : serverJob'[k].op = "upload" => serverJob'[k] = serverJob[k]
    BY <1>14, JobKinds DEF LoadKey, Finish, Idle, ServerJob, At, ConfigOps, ServicesTypeOK
  <2> QED
    BY <1>14, <2>1, UploadsUntouched DEF LoadKey
<1>15. ASSUME NEW h \in ServiceHandlers, LoadConfigs(h)
      PROVE  LoneUpload'
  <2>1. \A k \in ServiceHandlers : serverJob'[k].op = "upload" => serverJob'[k] = serverJob[k]
    BY <1>15, JobKinds DEF LoadConfigs, Idle, ServerJob, At, ConfigOps, ServicesTypeOK
  <2> QED
    BY <1>15, <2>1, UploadsUntouched DEF LoadConfigs
<1>16. ASSUME NEW h \in ServiceHandlers, WriteConfigs(h)
      PROVE  LoneUpload'
  <2>1. serverJob[h] \in ServerJob
    BY <1>16, JobKinds DEF WriteConfigs, At, ConfigOps
  <2>2. \A k \in ServiceHandlers : At(k, ConfigOps, "write") => serverJob[k] \in ServerJob
    BY JobKinds DEF At, ConfigOps
  <2>3. CASE Finish(h)
    BY <1>16, <2>3, UploadsUntouched DEF WriteConfigs, Finish, ServicesTypeOK, Idle
  <2>4. CASE Written(h)
    <3>1. serverJob'[h].op # "upload"
      BY <2>1, <2>4 DEF Written, ServerJob, Idle
    <3>2. ASSUME NEW k \in ServiceHandlers \ {h}
          PROVE  serverJob'[k] = serverJob[k] \/ serverJob'[k].op # "upload"
      <4>1. CASE At(k, ConfigOps, "write")
        <5>1. serverJob'[k] = [serverJob[k] EXCEPT !.alone = FALSE]
          BY <2>4, <4>1 DEF Written
        <5> QED
          BY <2>2, <4>1, <5>1 DEF ServerJob
      <4>2. CASE ~At(k, ConfigOps, "write")
        BY <2>4, <4>2 DEF Written
      <4> QED
        BY <4>1, <4>2
    <3> QED
      BY <1>16, <3>1, <3>2, UploadsUntouched DEF WriteConfigs
  <2> QED
    BY <1>16, <2>3, <2>4 DEF WriteConfigs
<1>17. ASSUME NEW h \in ServiceHandlers, Launch(h)
      PROVE  LoneUpload'
  <2>1. \A k \in ServiceHandlers : serverJob'[k].op = "upload" => serverJob'[k] = serverJob[k]
    BY <1>17 DEF Launch, Finish, StartServer, Idle, ServicesTypeOK
  <2> QED
    BY <1>17, <2>1, UploadsUntouched DEF Launch
<1>18. ASSUME NEW h \in ServiceHandlers, NEW file \in {"cert", "key", "ca"}, WriteFile(h, file)
      PROVE  LoneUpload'
  <2>1. serverJob[h] \in UploadJob /\ serverJob[h].op = "upload" /\ serverJob[h].at = file
    BY <1>18, JobKinds DEF WriteFile, At
  <2>2. \A k \in ServiceHandlers \ {h} : serverJob'[k] = serverJob[k]
    BY <1>18 DEF WriteFile, Finish, ServicesTypeOK
  <2>3. \A k \in ServiceHandlers \ {h} : ~(serverJob[k].op = "upload" /\ serverJob[k].alone)
    BY <2>1 DEF LoneUpload
  <2>4. CASE Finish(h)
    BY <2>2, <2>3, <2>4 DEF LoneUpload, Finish, Idle, ServicesTypeOK
  <2>5. CASE /\ file # "ca"
             /\ files' = [files EXCEPT ![file] = serverJob[h].pair]
             /\ serverJob' = [serverJob EXCEPT ![h].at = After(file)]
    <3>1. /\ serverJob'[h].at = After(file)
          /\ serverJob'[h].pair = serverJob[h].pair
          /\ serverJob'[h].alone = serverJob[h].alone
      BY <2>1, <2>5 DEF ServicesTypeOK, UploadJob
    <3>2. ASSUME serverJob'[h].alone
          PROVE  /\ \A k \in ServiceHandlers \ {h} : serverJob'[k].op # "upload"
                 /\ files'["cert"] = serverJob[h].pair
                 /\ serverJob'[h].at = "ca" => files'["key"] = serverJob[h].pair
      <4>1. \A k \in ServiceHandlers \ {h} : serverJob'[k].op # "upload"
        BY <2>1, <2>2, <3>1, <3>2 DEF LoneUpload
      <4>2. CASE file = "cert"
        BY <2>5, <3>1, <4>1, <4>2 DEF After, ServicesTypeOK
      <4>3. CASE file = "key"
        BY <2>1, <2>5, <3>1, <3>2, <4>1, <4>3 DEF LoneUpload, ServicesTypeOK
      <4> QED
        BY <2>5, <4>2, <4>3
    <3> QED
      BY <2>2, <2>3, <3>1, <3>2 DEF LoneUpload
  <2> QED
    BY <1>18, <2>4, <2>5 DEF WriteFile
<1>19. CASE UNCHANGED servicesVars
  BY <1>19, UploadsUntouched DEF servicesVars
<1> QED
  BY <1>1, <1>2, <1>3, <1>4, <1>5, <1>6, <1>7, <1>8, <1>9, <1>10, <1>11, <1>12, <1>13, <1>14, <1>15,
     <1>16, <1>17, <1>18, <1>19, ServicesCases


-----------------------------------------------------------------------------
\* When the process is started for the first time nothing runs and nothing is saved.
LEMMA ServicesInitInv ==
    ASSUME ServicesInit
    PROVE  ServicesInv
<1> USE DEF ServicesInit
<1>1. \A h \in ServiceHandlers : serverJob[h] = Idle
  OBVIOUS
<1>2. ServicesTypeOK
  BY ConfigAssumption DEF ServicesTypeOK, NoServer
<1>3. ServersInSlots /\ SlotsHeld
  BY DEF ServersInSlots, SlotsHeld
<1>4. RowsRead /\ LoneUpload
  BY <1>1 DEF RowsRead, LoneUpload, At, ConfigOps, Idle
<1> QED
  BY <1>2, <1>3, <1>4 DEF ServicesInv

\* The invariant is inductive.
LEMMA ServicesStep ==
    ASSUME ServicesInv, [ServicesNext]_servicesVars
    PROVE  ServicesInv'
BY ServicesTypes, SlotsStep, RowsReadStep, LoneUploadStep DEF ServicesInv

\* The inductive invariant holds in every state of every behaviour.
THEOREM ServicesInvariant == ServicesSpec => []ServicesInv
<1>1. ServicesInit => ServicesInv
  BY ServicesInitInv
<1>2. ServicesInv /\ [ServicesNext]_servicesVars => ServicesInv'
  BY ServicesStep
<1> QED
  BY <1>1, <1>2, PTL DEF ServicesSpec

\* Every tunnel server that runs is in the slot of its engine.
THEOREM ServersAreInSlots == ServicesSpec => []WebSafe
<1>1. ServicesInv => WebSafe
  BY DEF ServicesInv, WebSafe
<1> QED
  BY <1>1, ServicesInvariant, PTL

-----------------------------------------------------------------------------
\* Who changes the row of configurations, and who the files.
LEMMA WhoWrites ==
    ASSUME [ServicesNext]_servicesVars
    PROVE  /\ UNCHANGED saved \/ \E h \in ServiceHandlers : WriteConfigs(h)
           /\ UNCHANGED files \/ \E h \in ServiceHandlers, f \in {"cert", "key", "ca"} : WriteFile(h, f)
<1>1. CASE BeginShutdown \/ ShutdownCancels \/ CancelShutdownCtx \/ Restart
  BY <1>1 DEF BeginShutdown, ShutdownCancels, CancelShutdownCtx, Restart, tunnelVars
<1>2. ASSUME NEW s \in Servers,
             WatchServer(s) \/ ServerTurns(s)
      PROVE  UNCHANGED <<saved, files>>
  BY <1>2 DEF WatchServer, ServerTurns, ServerBecomes
<1>3. ASSUME NEW h \in ServiceHandlers, NEW e \in ServerEngines,
             BootStart(h, e) \/ RequestStop(h, e)
      PROVE  UNCHANGED <<saved, files>>
  BY <1>3 DEF BootStart, RequestStop, tunnelVars
<1>4. ASSUME NEW h \in ServiceHandlers, NEW r,
             RequestStart(h, r[1], r[2]) \/ RequestSave(h, r[1], r[2])
      PROVE  UNCHANGED <<saved, files>>
  BY <1>4 DEF RequestStart, RequestSave, tunnelVars
<1>5. ASSUME NEW h \in ServiceHandlers, NEW p \in Pairs, RequestUpload(h, p)
      PROVE  UNCHANGED <<saved, files>>
  BY <1>5 DEF RequestUpload, tunnelVars
<1>6. ASSUME NEW h \in ServiceHandlers,
             \/ CallServerCancel(h) \/ LoadCert(h) \/ LoadKey(h)
             \/ LoadConfigs(h) \/ Launch(h)
      PROVE  UNCHANGED <<saved, files>>
  BY <1>6 DEF CallServerCancel, LoadCert, LoadKey, LoadConfigs, Launch, tunnelVars
<1>7. ASSUME NEW h \in ServiceHandlers, WriteConfigs(h)
      PROVE  UNCHANGED files
  BY <1>7 DEF WriteConfigs
<1>8. ASSUME NEW h \in ServiceHandlers, NEW f \in {"cert", "key", "ca"}, WriteFile(h, f)
      PROVE  UNCHANGED saved
  BY <1>8 DEF WriteFile, tunnelVars
<1>9. CASE UNCHANGED servicesVars
  BY <1>9 DEF servicesVars, tunnelVars
<1> QED
  BY <1>1, <1>2, <1>3, <1>4, <1>5, <1>6, <1>7, <1>8, <1>9, ServicesCases

\* A step that changes the configuration of an engine is a request for it, or one whose
\* reading is stale.
LEMMA ConfigKeptStep ==
    ASSUME ServicesInv, [ServicesNext]_servicesVars,
           NEW e \in ServerEngines, saved'[e] # saved[e]
    PROVE  \E h \in ServiceHandlers : /\ At(h, ConfigOps, "write")
                                      /\ serverJob[h].engine = e \/ ~serverJob[h].alone
<1>1. PICK h \in ServiceHandlers : WriteConfigs(h)
  BY WhoWrites
<1>2. /\ At(h, ConfigOps, "write")
      /\ saved' = [serverJob[h].read EXCEPT ![serverJob[h].engine] = serverJob[h].config]
  BY <1>1 DEF WriteConfigs
<1>3. /\ serverJob[h].read \in [ServerEngines -> Configs]
      /\ serverJob[h].alone => serverJob[h].read = saved
  BY <1>2 DEF ServicesInv, RowsRead
<1> QED
  BY <1>2, <1>3

\* An upload that completes alone leaves three files that belong together.
LEMMA UploadMatchesStep ==
    ASSUME ServicesInv, [ServicesNext]_servicesVars, NEW h \in ServiceHandlers,
           At(h, {"upload"}, "ca"), serverJob[h].alone,
           serverJob'[h] = Idle, files'["ca"] = serverJob[h].pair
    PROVE  \A f \in DOMAIN files : files'[f] = serverJob[h].pair
<1>1. /\ files["cert"] = serverJob[h].pair /\ files["key"] = serverJob[h].pair
      /\ \A k \in ServiceHandlers \ {h} : serverJob[k].op # "upload"
  BY DEF ServicesInv, LoneUpload, At
<1>2. DOMAIN files = {"cert", "key", "ca"}
  BY DEF ServicesInv, ServicesTypeOK
<1>3. CASE UNCHANGED files
  BY <1>1, <1>2, <1>3
<1>4. ASSUME NEW k \in ServiceHandlers, NEW f \in {"cert", "key", "ca"}, WriteFile(k, f)
      PROVE  files'["cert"] = files["cert"] /\ files'["key"] = files["key"]
  <2>1. k = h /\ f = "ca"
    BY <1>1, <1>4 DEF WriteFile, At
  <2> QED
    BY <1>4, <2>1 DEF WriteFile, ServicesInv, ServicesTypeOK
<1> QED
  BY <1>1, <1>2, <1>3, <1>4, WhoWrites

\* Only a request for an engine changes the configuration saved for it, and an upload that
\* completes leaves files that belong together, unless somebody else interfered.
THEOREM StoresAreKept == ServicesSpec => StoresKept
<1>1. ASSUME ServicesInv, [ServicesNext]_servicesVars
      PROVE  [\A e \in ServerEngines : saved'[e] # saved[e] =>
                 \E h \in ServiceHandlers : At(h, ConfigOps, "write")
                      /\ (serverJob[h].engine = e \/ ~serverJob[h].alone)]_servicesVars
  BY <1>1, ConfigKeptStep
<1>2. ASSUME ServicesInv, [ServicesNext]_servicesVars
      PROVE  [\A h \in ServiceHandlers :
                 At(h, {"upload"}, "ca") /\ serverJob[h].alone
                 /\ serverJob'[h] = Idle /\ files'["ca"] = serverJob[h].pair
                 => \A f \in DOMAIN files : files'[f] = serverJob[h].pair]_servicesVars
  BY <1>2, UploadMatchesStep
<1>3. ServicesSpec => ConfigKept
  BY <1>1, ServicesInvariant, PTL DEF ConfigKept, ServicesSpec
<1>4. ServicesSpec => UploadMatches
  BY <1>2, ServicesInvariant, PTL DEF UploadMatches, ServicesSpec
<1> QED
  BY <1>3, <1>4 DEF StoresKept

-----------------------------------------------------------------------------
(* The proxies and the names that may use them *)

\* A name whose addition is under way has not been acknowledged, and only an addition is
\* taken back.
AddsUnderWay ==
    \A h \in Handlers : accessJob[h] # NoEdit =>
        /\ accessJob[h].op = "add" => accessJob[h].name \notin acked
        /\ accessJob[h].at = "undo" => accessJob[h].op = "add"

\* Every request that was served since the last look-up was counted.
LookupsCounted == \A c \in Conns : conn[c].at = "wait" => conn[c].since <= conn[c].count

\* The inductive invariant.
AccessInv == AccessSafe /\ AddsUnderWay /\ LookupsCounted

\* An HTTP connection between two requests, and the states of a connection.
WaitingStates ==
    [at : {"wait"}, name : Names, auth : BOOLEAN, count : 0..MaxRequests, since : Nat]
ConnStates ==
    {Closed} \cup Handshake \cup Dialling \cup Relay \cup WaitingStates

\* A connection becomes what a connection may be, and its requests stay counted.
Becomes(c) ==
    \E s \in ConnStates : Become(c, s) /\ (s.at = "wait" => s.since <= s.count)

\* Every step of the proxies, their users and the administrator is one of these.
LEMMA AccessCases ==
    ASSUME AccessNext
    PROVE  \/ ReloadRead \/ ReloadStore \/ StopProxy
           \/ \E h \in Handlers :
                \/ Load(h) \/ LoadFails(h) \/ Undo(h) \/ Store(h)
                \/ Admin(h)
                \/ \E n \in Names : Add(h, n) \/ Delete(h, n)
           \/ \E l \in Listeners :
                \/ StartProxy(l) \/ CheckRunning(l) \/ AcceptFails(l)
                \/ \E c \in Conns : Accept(l, c)
           \/ \E c \in Conns :
                \/ Hangup(c) \/ Methods(c) \/ Login(c) \/ SocksRequest(c)
                \/ DialDestination(c) \/ HttpRequest(c) \/ HttpIdle(c)
                \/ AgeReached(c) \/ FirstEnds(c) \/ HandlerReturns(c)
                \/ \E d \in {"up", "down"} : CopyEnds(c, d)
BY DEF AccessNext, HandleEdit, Reload, Proxy

-----------------------------------------------------------------------------
\* The states of connections are told apart by where they are.
LEMMA ConnKinds ==
    ASSUME AccessTypeOK, NEW c \in Conns
    PROVE  /\ conn[c].at \in {"methods", "login", "request"} => conn[c] \in Handshake
           /\ conn[c].at = "wait" => conn[c] \in WaitingStates
           /\ conn[c].at = "relay" => conn[c] \in Relay
BY DEF AccessTypeOK, Closed, Handshake, Dialling, Relay, WaitingStates

\* What a connection becomes when it is over, and when it is dialled.
LEMMA ConnEnds ==
    ASSUME NEW c \in Conns, Become(c, Closed) \/ Become(c, [at |-> "dial"])
    PROVE  Becomes(c)
<1>1. CASE Become(c, Closed)
  <2>1. Closed \in ConnStates /\ Closed.at # "wait"
    BY DEF ConnStates, Closed
  <2> QED
    BY <1>1, <2>1 DEF Becomes
<1>2. CASE Become(c, [at |-> "dial"])
  <2>1. [at |-> "dial"] \in ConnStates /\ [at |-> "dial"].at # "wait"
    BY DEF ConnStates, Dialling
  <2> QED
    BY <1>2, <2>1 DEF Becomes
<1> QED
  BY <1>1, <1>2

\* A handshake that goes on.
LEMMA HandshakeGoesOn ==
    ASSUME NEW c \in Conns, NEW at \in {"login", "request"}, conn[c] \in Handshake,
           Become(c, [conn[c] EXCEPT !.at = at])
    PROVE  Becomes(c)
<1>1. [conn[c] EXCEPT !.at = at] \in Handshake
  BY DEF Handshake
<1>2. [conn[c] EXCEPT !.at = at].at # "wait"
  BY <1>1 DEF Handshake
<1> QED
  BY <1>1, <1>2 DEF Becomes, ConnStates

\* A relay that goes on.
LEMMA RelayGoesOn ==
    ASSUME NEW c \in Conns, NEW s \in Relay, Become(c, s)
    PROVE  Becomes(c)
<1>1. s.at # "wait"
  BY DEF Relay
<1> QED
  BY <1>1 DEF Becomes, ConnStates

\* A request that is served is counted, or the name has just been looked up.
LEMMA ServedIsCounted ==
    ASSUME AccessTypeOK, LookupsCounted, NEW c \in Conns, conn[c].at = "wait"
    PROVE  /\ Served(c) \in WaitingStates
           /\ Served(c).since <= Served(c).count
<1>1. /\ conn[c] \in WaitingStates /\ MaxRequests \in Nat \ {0}
      /\ conn[c].since <= conn[c].count
  BY ConnKinds, MaxAssumption DEF LookupsCounted
<1>2. /\ conn[c].since \in Nat /\ conn[c].count \in 0..MaxRequests
      /\ conn[c].at = "wait" /\ conn[c].name \in Names
  BY <1>1 DEF WaitingStates
<1>3. Count(c) \in 0..MaxRequests
  BY <1>1, <1>2 DEF Count, Recheck
<1>4. DEFINE since == IF CachedAuth(c) THEN conn[c].since + 1 ELSE 0
<1>5. since \in Nat /\ since <= Count(c)
  BY <1>1, <1>2 DEF Count, Recheck, CachedAuth
<1>6. PICK n \in 0..MaxRequests, t \in Nat : n = Count(c) /\ t = since /\ t <= n
  BY <1>3, <1>5
<1>7. Served(c) = [conn[c] EXCEPT !.auth = TRUE, !.count = n, !.since = t]
  BY <1>6, Zenon DEF Served
<1> HIDE DEF since
<1> QED
  BY <1>1, <1>6, <1>7 DEF WaitingStates

\* Every step of a connection that is open is a Becomes.
LEMMA ConnSteps ==
    ASSUME AccessTypeOK, LookupsCounted, NEW c \in Conns,
           \/ Hangup(c) \/ Methods(c) \/ Login(c) \/ SocksRequest(c)
           \/ DialDestination(c) \/ HttpRequest(c) \/ HttpIdle(c)
           \/ AgeReached(c) \/ FirstEnds(c) \/ HandlerReturns(c)
           \/ \E d \in {"up", "down"} : CopyEnds(c, d)
    PROVE  Becomes(c)
<1>1. CASE Hangup(c) \/ SocksRequest(c) \/ HttpIdle(c)
  BY <1>1, ConnEnds DEF Hangup, SocksRequest, HttpIdle
<1>2. CASE Methods(c)
  BY <1>2, ConnKinds, HandshakeGoesOn DEF Methods
<1>3. CASE Login(c)
  <2>1. conn[c] \in Handshake
    BY <1>3, ConnKinds DEF Login
  <2>2. CASE conn[c].name \in known
    BY <1>3, <2>1, <2>2, HandshakeGoesOn DEF Login
  <2>3. CASE conn[c].name \notin known
    BY <1>3, <2>3, ConnEnds DEF Login
  <2> QED
    BY <2>2, <2>3
<1>4. CASE DialDestination(c)
  <2>1. [at |-> "relay", copying |-> {"up", "down"}, stage |-> "copy"] \in Relay
    BY DEF Relay
  <2> QED
    BY <1>4, <2>1, ConnEnds, RelayGoesOn DEF DialDestination
<1>5. CASE HttpRequest(c)
  <2>1. CASE Become(c, Served(c))
    BY <1>5, <2>1, ServedIsCounted DEF HttpRequest, Becomes, ConnStates
  <2>2. CASE Become(c, Closed) \/ Become(c, [at |-> "dial"])
    BY <2>2, ConnEnds
  <2> QED
    BY <1>5, <2>1, <2>2 DEF HttpRequest
<1>6. CASE AgeReached(c) \/ FirstEnds(c)
  <2>1. conn[c] \in Relay
    BY <1>6, ConnKinds DEF AgeReached, FirstEnds, Stage
  <2>2. [conn[c] EXCEPT !.stage = "cleanup"] \in Relay
    BY <2>1 DEF Relay
  <2> QED
    BY <1>6, <2>2, RelayGoesOn DEF AgeReached, FirstEnds
<1>7. CASE HandlerReturns(c)
  <2>1. conn[c] \in Relay
    BY <1>7, ConnKinds DEF HandlerReturns, Stage
  <2>2. [conn[c] EXCEPT !.stage = "left"] \in Relay
    BY <2>1 DEF Relay
  <2> QED
    BY <1>7, <2>2, RelayGoesOn, ConnEnds DEF HandlerReturns
<1>8. ASSUME NEW d \in {"up", "down"}, CopyEnds(c, d)
      PROVE  Becomes(c)
  <2>1. conn[c] \in Relay
    BY <1>8, ConnKinds DEF CopyEnds
  <2>2. CopyDone(c, d) \in Relay
    BY <2>1 DEF CopyDone, Relay
  <2> QED
    BY <1>8, <2>2, RelayGoesOn, ConnEnds DEF CopyEnds
<1> QED
  BY <1>1, <1>2, <1>3, <1>4, <1>5, <1>6, <1>7, <1>8

-----------------------------------------------------------------------------
\* What AccessInv says of connections, of users and the administrator, and of listeners.
ConnsInv ==
    /\ conn \in [Conns -> ConnStates]
    /\ LookupsCounted

UsersInv ==
    /\ AdminTypeOK /\ SetOnce /\ AckedKept /\ AddsUnderWay
    /\ table \subseteq Names /\ known \subseteq Names /\ acked \subseteq Names
    /\ accessJob \in [Handlers -> {NoEdit} \cup EditJob]
    /\ reloader \in [at : {"off", "idle"}, read : {{}}] \cup [at : {"store"}, read : SUBSET Names]

ListenersInv ==
    /\ OneListener
    /\ running \in BOOLEAN
    /\ listener \in Listeners \cup {NoListener}
    /\ open \subseteq Listeners
    /\ loop \in [Listeners -> {"off", "check", "accept"}]

\* The three parts are the inductive invariant.
LEMMA AccessParts == AccessInv <=> ConnsInv /\ UsersInv /\ ListenersInv
<1>1. ASSUME ConnsInv
      PROVE  RecheckedInTime
  <2>1. ASSUME NEW c \in Conns, conn[c].at = "wait"
        PROVE  conn[c].since <= MaxRequests
    <3>1. conn[c] \in WaitingStates
      BY <1>1, <2>1 DEF ConnsInv, ConnStates, WaitingStates, Closed, Handshake, Dialling, Relay
    <3>2. conn[c].since <= conn[c].count
      BY <1>1, <2>1 DEF ConnsInv, LookupsCounted
    <3> QED
      BY <3>1, <3>2, MaxAssumption DEF WaitingStates
  <2> QED
    BY <2>1 DEF RecheckedInTime
<1>2. AccessTypeOK => conn \in [Conns -> ConnStates]
  BY DEF AccessTypeOK, ConnStates, WaitingStates
<1>3. /\ AdminTypeOK
      /\ table \subseteq Names /\ known \subseteq Names /\ acked \subseteq Names
      /\ accessJob \in [Handlers -> {NoEdit} \cup EditJob]
      /\ reloader \in [at : {"off", "idle"}, read : {{}}] \cup [at : {"store"}, read : SUBSET Names]
      /\ running \in BOOLEAN
      /\ listener \in Listeners \cup {NoListener}
      /\ open \subseteq Listeners
      /\ loop \in [Listeners -> {"off", "check", "accept"}]
      /\ conn \in [Conns -> ConnStates]
      <=> AccessTypeOK
  BY DEF AccessTypeOK, ConnStates, WaitingStates
<1> QED
  BY <1>1, <1>2, <1>3 DEF AccessInv, ConnsInv, UsersInv, ListenersInv, AccessSafe

\* Every step keeps what is said of connections.
LEMMA ConnsStep ==
    ASSUME AccessInv, [AccessNext]_proxyAccessVars
    PROVE  ConnsInv'
<1>1. ConnsInv /\ AccessTypeOK /\ LookupsCounted
  BY AccessParts DEF AccessInv, AccessSafe
<1>2. ASSUME UNCHANGED conn
      PROVE  ConnsInv'
  BY <1>1, <1>2 DEF ConnsInv, LookupsCounted
<1>3. ASSUME NEW c \in Conns, NEW s \in ConnStates, s.at = "wait" => s.since <= s.count,
             conn' = [conn EXCEPT ![c] = s]
      PROVE  ConnsInv'
  BY <1>1, <1>3 DEF ConnsInv, LookupsCounted
<1>4. ASSUME NEW c \in Conns, Becomes(c)
      PROVE  ConnsInv'
  BY <1>3, <1>4 DEF Becomes, Become
<1>5. ASSUME NEW l \in Listeners, NEW c \in Conns, Accept(l, c)
      PROVE  ConnsInv'
  <2>1. PICK n \in Names : \/ conn' = [conn EXCEPT ![c] = Waiting(n, FALSE, 0, 0)]
                           \/ conn' = [conn EXCEPT ![c] = [at |-> "methods", name |-> n]]
    BY <1>5 DEF Accept
  <2>2. 0 \in 0..MaxRequests
    BY MaxAssumption
  <2>3. Waiting(n, FALSE, 0, 0) \in ConnStates
    BY <2>2 DEF ConnStates, WaitingStates, Waiting
  <2>4. Waiting(n, FALSE, 0, 0).since <= Waiting(n, FALSE, 0, 0).count
    BY DEF Waiting
  <2>5. [at |-> "methods", name |-> n] \in ConnStates /\ [at |-> "methods", name |-> n].at # "wait"
    BY DEF ConnStates, Handshake
  <2> QED
    BY <1>3, <2>1, <2>3, <2>4, <2>5
<1>6. CASE ReloadRead \/ ReloadStore \/ StopProxy \/ UNCHANGED proxyAccessVars
  BY <1>2, <1>6 DEF ReloadRead, ReloadStore, StopProxy, proxyAccessVars
<1>7. ASSUME NEW h \in Handlers,
             \/ Load(h) \/ LoadFails(h) \/ Undo(h) \/ Store(h)
             \/ Admin(h)
             \/ \E n \in Names : Add(h, n) \/ Delete(h, n)
      PROVE  ConnsInv'
  BY <1>2, <1>7 DEF Load, LoadFails, Undo, Store, Admin, Add, Delete
<1>8. ASSUME NEW l \in Listeners,
             StartProxy(l) \/ CheckRunning(l) \/ AcceptFails(l)
      PROVE  ConnsInv'
  BY <1>2, <1>8 DEF StartProxy, CheckRunning, AcceptFails
<1> QED
  BY <1>1, <1>4, <1>5, <1>6, <1>7, <1>8, AccessCases, ConnSteps

\* Every step keeps what is said of listeners: a proxy that stops closes the one that is open.
LEMMA ListenersStep ==
    ASSUME AccessInv, [AccessNext]_proxyAccessVars
    PROVE  ListenersInv'
<1>1. ListenersInv /\ AccessTypeOK /\ LookupsCounted
  BY AccessParts DEF AccessInv, AccessSafe
<1> USE DEF ListenersInv, OneListener
<1>2. ASSUME UNCHANGED proxyVars
      PROVE  ListenersInv'
  BY <1>1, <1>2 DEF proxyVars
<1>3. CASE StopProxy
  BY <1>1, <1>3 DEF StopProxy
<1>4. ASSUME NEW l \in Listeners, StartProxy(l)
      PROVE  ListenersInv'
  BY <1>1, <1>4 DEF StartProxy
<1>5. ASSUME NEW l \in Listeners,
             \/ CheckRunning(l) \/ AcceptFails(l)
             \/ \E c \in Conns : Accept(l, c)
      PROVE  ListenersInv'
  <2>1. /\ UNCHANGED <<running, listener, open>>
        /\ \E p \in {"off", "check", "accept"} : loop' = [loop EXCEPT ![l] = p]
    BY <1>5 DEF CheckRunning, AcceptFails, Accept
  <2> QED
    BY <1>1, <2>1
<1>6. ASSUME NEW h \in Handlers,
             \/ Load(h) \/ LoadFails(h) \/ Undo(h) \/ Store(h)
             \/ Admin(h)
             \/ \E n \in Names : Add(h, n) \/ Delete(h, n)
      PROVE  ListenersInv'
  BY <1>2, <1>6 DEF Load, LoadFails, Undo, Store, Admin, Add, Delete
<1>7. CASE ReloadRead \/ ReloadStore \/ UNCHANGED proxyAccessVars
  BY <1>2, <1>7 DEF ReloadRead, ReloadStore, proxyAccessVars
<1>8. ASSUME NEW c \in Conns, Becomes(c)
      PROVE  ListenersInv'
  BY <1>2, <1>8 DEF Becomes, Become
<1> QED
  BY <1>1, <1>3, <1>4, <1>5, <1>6, <1>7, <1>8, AccessCases, ConnSteps

\* Every step keeps what is said of users and of the administrator.
LEMMA UsersStep ==
    ASSUME AccessInv, [AccessNext]_proxyAccessVars
    PROVE  UsersInv'
<1>1. UsersInv /\ AccessTypeOK /\ LookupsCounted
  BY AccessParts DEF AccessInv, AccessSafe
<1> USE DEF UsersInv, AdminTypeOK, SetOnce, AckedKept, AddsUnderWay
<1>2. ASSUME UNCHANGED <<accessVars, adminVars>>
      PROVE  UsersInv'
  BY <1>1, <1>2 DEF accessVars, adminVars
<1>3. ASSUME NEW h \in Handlers, NEW n \in Names, Add(h, n)
      PROVE  UsersInv'
  <2>1. [op |-> "add", at |-> "load", name |-> n] \in EditJob
    BY DEF EditJob
  <2> QED
    BY <1>1, <1>3, <2>1 DEF Add, SetJob, NoEdit, adminVars
<1>4. ASSUME NEW h \in Handlers, NEW n \in Names, Delete(h, n)
      PROVE  UsersInv'
  <2>1. [op |-> "delete", at |-> "load", name |-> n] \in EditJob
    BY DEF EditJob
  <2> QED
    BY <1>1, <1>4, <2>1 DEF Delete, SetJob, NoEdit, adminVars
<1>5. ASSUME NEW h \in Handlers, Load(h)
      PROVE  UsersInv'
  <2>1. accessJob[h] \in EditJob
    BY <1>1, <1>5 DEF Load
  <2>2. [op |-> accessJob[h].op, at |-> "store", name |-> accessJob[h].name, read |-> table] \in EditJob
    BY <1>1, <2>1 DEF EditJob
  <2> QED
    BY <1>1, <1>5, <2>1, <2>2 DEF Load, SetJob, NoEdit, adminVars
<1>6. ASSUME NEW h \in Handlers, LoadFails(h)
      PROVE  UsersInv'
  <2>1. accessJob[h] \in EditJob /\ accessJob[h] # NoEdit /\ accessJob[h].at = "load"
    BY <1>1, <1>6 DEF LoadFails
  <2>2. CASE accessJob[h].op = "add"
    <3>1. /\ [accessJob[h] EXCEPT !.at = "undo"] \in EditJob
          /\ [accessJob[h] EXCEPT !.at = "undo"].op = "add"
          /\ [accessJob[h] EXCEPT !.at = "undo"].name = accessJob[h].name
      BY <2>1, <2>2 DEF EditJob
    <3> QED
      BY <1>1, <1>6, <2>1, <2>2, <3>1 DEF LoadFails, SetJob, adminVars
  <2>3. CASE accessJob[h].op # "add"
    BY <1>1, <1>6, <2>3 DEF LoadFails, SetJob, adminVars
  <2> QED
    BY <2>2, <2>3
<1>7. ASSUME NEW h \in Handlers, Undo(h)
      PROVE  UsersInv'
  BY <1>1, <1>7 DEF Undo, SetJob, NoEdit, adminVars
<1>8. ASSUME NEW h \in Handlers, Store(h)
      PROVE  UsersInv'
  <2>1. accessJob[h] \in EditJob /\ accessJob[h].at = "store"
    BY <1>1, <1>8 DEF Store
  <2>2. accessJob[h].read \in SUBSET Names /\ accessJob[h].name \in Names
    BY <2>1 DEF EditJob
  <2>3. accessJob' = [accessJob EXCEPT ![h] = NoEdit]
    BY <1>8 DEF Store, SetJob
  <2>4. CASE acked' = acked
    BY <1>1, <1>8, <2>2, <2>3, <2>4 DEF Store, NoEdit, adminVars
  <2>5. CASE /\ AddsOf(accessJob[h].name) = {h} /\ accessJob[h].name \in table
             /\ acked' = acked \cup {accessJob[h].name}
    <3>1. \A k \in Handlers \ {h} :
             accessJob[k] # NoEdit /\ accessJob[k].op = "add" => accessJob[k].name # accessJob[h].name
      BY <2>5 DEF AddsOf
    <3> QED
      BY <1>1, <1>8, <2>2, <2>3, <2>5, <3>1 DEF Store, NoEdit, adminVars
  <2> QED
    BY <1>8, <2>4, <2>5 DEF Store
<1>9. ASSUME NEW h \in Handlers, Admin(h)
      PROVE  UsersInv'
  <2>1. UNCHANGED accessVars
    BY <1>9 DEF Admin
  <2>2. AdminTypeOK' /\ SetOnce'
    <3>1. CASE BootstrapRequest(h)
      BY <1>1, <3>1 DEF BootstrapRequest, AdminGoto
    <3>2. CASE ValidateToken(h)
      BY <1>1, <3>2 DEF ValidateToken, AdminGoto
    <3>3. CASE InsertPassword(h)
      <4>1. configured' = TRUE /\ winners' = 1
        BY <1>1, <3>3 DEF InsertPassword
      <4>2. boot' \in [Handlers -> {"none", "validate", "insert"}]
        BY <1>1, <3>3 DEF InsertPassword, AdminGoto
      <4> QED
        BY <4>1, <4>2
    <3> QED
      BY <1>9, <3>1, <3>2, <3>3 DEF Admin, AdminNext
  <2> QED
    BY <1>1, <2>1, <2>2 DEF accessVars
<1>10. CASE ReloadRead \/ ReloadStore
  BY <1>1, <1>10 DEF ReloadRead, ReloadStore, Reloader, adminVars
<1>11. CASE StopProxy \/ UNCHANGED proxyAccessVars
  BY <1>2, <1>11 DEF StopProxy, proxyAccessVars
<1>12. ASSUME NEW l \in Listeners, StartProxy(l)
      PROVE  UsersInv'
  BY <1>1, <1>12 DEF StartProxy, Reloader, adminVars
<1>13. ASSUME NEW l \in Listeners,
             \/ CheckRunning(l) \/ AcceptFails(l)
             \/ \E c \in Conns : Accept(l, c)
      PROVE  UsersInv'
  BY <1>2, <1>13 DEF CheckRunning, AcceptFails, Accept
<1>14. ASSUME NEW c \in Conns, Becomes(c)
      PROVE  UsersInv'
  BY <1>2, <1>14 DEF Becomes, Become
<1> QED
  BY <1>1, <1>3, <1>4, <1>5, <1>6, <1>7, <1>8, <1>9, <1>10, <1>11, <1>12, <1>13, <1>14,
     AccessCases, ConnSteps

-----------------------------------------------------------------------------
\* At the start nobody is known, nothing runs, and no password is set.
LEMMA AccessInitInv ==
    ASSUME AccessInit
    PROVE  AccessInv
<1> USE DEF AccessInit
<1>1. ConnsInv
  BY DEF ConnsInv, ConnStates, LookupsCounted, Closed
<1>2. UsersInv
  BY DEF UsersInv, AdminInit, AdminTypeOK, SetOnce, AckedKept, AddsUnderWay, Reloader, NoEdit
<1>3. ListenersInv
  BY DEF ListenersInv, OneListener
<1> QED
  BY <1>1, <1>2, <1>3, AccessParts

\* The inductive invariant holds in every state of every behaviour.
THEOREM AccessInvariant == AccessSpec => []AccessInv
<1>1. AccessInit => AccessInv
  BY AccessInitInv
<1>2. AccessInv /\ [AccessNext]_proxyAccessVars => (ConnsInv /\ UsersInv /\ ListenersInv)'
  BY ConnsStep, UsersStep, ListenersStep
<1>3. ConnsInv /\ UsersInv /\ ListenersInv => AccessInv
  BY AccessParts
<1> QED
  BY <1>1, <1>2, <1>3, PTL DEF AccessSpec

\* A name whose addition was reported stays until it is deleted, a kept connection is looked
\* up in time, one listener is open while the proxy runs, and the password is set once.
THEOREM AccessIsSafe == AccessSpec => []AccessSafe
<1>1. AccessInv => AccessSafe
  BY DEF AccessInv
<1> QED
  BY <1>1, AccessInvariant, PTL
=============================================================================
