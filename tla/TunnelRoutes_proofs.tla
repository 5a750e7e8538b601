------------------------- MODULE TunnelRoutes_proofs -------------------------
(***************************************************************************)
(* Proofs about TunnelRoutes, for every set of sessions, routes, ports and *)
(* listener objects: what the rows and the listeners of a session promise  *)
(* however the workers that apply routes overlap, and that a listener is   *)
(* lost only when they do.                                                 *)
(***************************************************************************)
EXTENDS TunnelRoutes, TLAPS

\* A worker has a session to apply routes to, a route in hand.
Applying == {"begin"} \cup ApplyStates
InHand == {"unpublish", "clear", "reserve", "listen", "publish", "write"}

\* What the local variables of applyRoutes hold at each of its steps.
GoodJob ==
    {j \in Job :
        /\ j.pc \in Applying <=> j.target # None
        /\ j.pc \in InHand => j.route \in Routes
        /\ j.pc \in {"reserve", "listen"} => j.desired[j.route] # None
        /\ j.pc = "publish" <=> j.created # None
        /\ j.pc \notin {"stale", "unpublish", "clear"} => j.snapshot = NoRoutes /\ j.visit = {}
        /\ \A r \in j.visit : j.snapshot[r] # None
        /\ j.pc = "unpublish" => j.snapshot[j.route] # None}

JobsOK == job \in [Workers -> GoodJob]

\* A handler that is to close the session it displaced has one to close.
ReplacedOK == \A s \in Sessions : job[s].pc = "replace" => replaced[s] # None

\* A listener some variable points to is an object, of that session and route.
ReferencesLive ==
    /\ \A s \in Sessions, r \in Routes : routes[s][r] # None =>
         /\ listener[routes[s][r]] # None
         /\ listener[routes[s][r]].sess = s /\ listener[routes[s][r]].route = r
    /\ \A w \in Workers, r \in Routes : job[w].snapshot[r] # None =>
         listener[job[w].snapshot[r]] # None

\* A listener that is not published yet is open, and its creator alone knows it.
CreatedIsPrivate ==
    \A w \in Workers : job[w].created # None =>
        /\ IsOpen(job[w].created)
        /\ listener[job[w].created].sess = job[w].target
        /\ listener[job[w].created].route = job[w].route
        /\ \A v \in Workers, r \in Routes : job[v].snapshot[r] # job[w].created
        /\ \A s \in Sessions, r \in Routes : routes[s][r] # job[w].created
        /\ \A v \in Workers \ {w} : job[v].created # job[w].created

\* Only a session in "overlapped" has two workers past the beginning of applyRoutes.
Exclusive ==
    \A v, w \in Workers :
        /\ v # w /\ job[v].target = job[w].target /\ job[v].target # None
        /\ job[v].pc # "begin" /\ job[w].pc # "begin"
        => job[v].target \in overlapped

\* While a worker creates the listener of a route nobody else publishes one.
SlotStaysEmpty ==
    \A w \in Workers :
        job[w].pc \in {"reserve", "listen", "publish"} /\ job[w].target \notin overlapped =>
            routes[job[w].target][job[w].route] = None

\* The listener a worker is about to take out of the map is closed.
RemovedIsClosed ==
    \A w \in Workers : job[w].pc = "unpublish" => ~listener[job[w].snapshot[job[w].route]].open

References == ReferencesLive /\ CreatedIsPrivate

\* The inductive invariant.
IInv ==
    /\ TypeOK /\ JobsOK /\ ReplacedOK /\ References
    /\ ClosedSessionExposesNothing /\ AssignedUnique /\ ActiveIsAssigned
    /\ Exclusive /\ SlotStaysEmpty /\ RemovedIsClosed /\ LostOnlyByOverlap

\* Every step of the system is one of these.
LEMMA NextCases ==
    ASSUME Next
    PROVE  \/ SyncList \/ SyncSessions \/ Restart
           \/ \E w \in Workers :
                \/ Begin(w) \/ VisitCurrent(w) \/ Unpublish(w) \/ ClearRoute(w) \/ VisitEnd(w)
                \/ ApplyNext(w) \/ Reserve(w) \/ Listen(w) \/ Publish(w) \/ WriteRuntime(w)
                \/ SendRoutes(w)
           \/ \E s \in Sessions :
                \/ RegisterClient(s) \/ CloseReplaced(s) \/ HandlerList(s)
                \/ UnregisterClient(s) \/ CloseOwn(s) \/ MarkOwn(s)
           \/ \E r \in Routes : DeleteRoute(r)
           \/ \E r \in Routes : \E req \in Requests[r] : SaveRoute(r, req)
BY DEF Next, ApplyRoutes, Handler, Admin

-----------------------------------------------------------------------------
(* The jobs *)

\* The sync loop and the handlers are the workers.
LEMMA WorkerOf == Syncer \in Workers /\ Sessions \subseteq Workers
BY DEF Workers

\* 0 stands for no port.
LEMMA PortRange == 0 \in 0..MaxPort /\ Ports \subseteq 0..MaxPort
BY PortAssumption DEF Ports

\* A worker that is done has no session, no listener and no copy.
LEMMA DoneIsGood ==
    /\ NoJob \in GoodJob
    /\ \A w \in Workers : Done(w) \in GoodJob
    /\ \A w \in Workers : /\ Done(w).pc \in {"idle", "serve"} /\ Done(w).target = None
                         /\ Done(w).created = None /\ Done(w).snapshot = NoRoutes
<1>1. NoRoutes \in [Routes -> Row \cup {None}] /\ NoRoutes \in [Routes -> Listeners \cup {None}]
  BY DEF NoRoutes
<1>2. NoJob \in Job
  BY <1>1, PortRange DEF NoJob, Job, States, HandlerStates, ApplyStates
<1>3. NoJob \in GoodJob
  BY <1>2 DEF GoodJob, NoJob, Applying, InHand, ApplyStates
<1>4. [NoJob EXCEPT !.pc = "serve"] \in GoodJob
  BY <1>2, <1>3 DEF NoJob, GoodJob, Job, Applying, InHand, States, HandlerStates, ApplyStates
<1> QED
  BY <1>3, <1>4 DEF Done, NoJob

\* The step of one worker leaves the jobs of the others alone.
LEMMA SetJobEffect ==
    ASSUME JobsOK, NEW w \in Workers, NEW j, SetJob(w, j)
    PROVE  /\ job'[w] = j
           /\ \A v \in Workers \ {w} : job'[v] = job[v]
           /\ j \in GoodJob => JobsOK'
BY DEF SetJob, JobsOK

\* The rows a worker lists, and the ports it must not take, are of their types.
LEMMA ListedTypes ==
    ASSUME rows \in [Routes -> Row \cup {None}]
    PROVE  DesiredRoutes \in [Routes -> Row \cup {None}] /\ AssignedPorts \subseteq Ports
BY PortAssumption DEF DesiredRoutes, ClearRuntime, AssignedPorts, Row, Ports

\* What net.Listen may return is a port.
LEMMA ListenPortsArePorts ==
    ASSUME JobsOK, NEW w \in Workers, job[w].pc = "listen"
    PROVE  ListenPorts(w) \subseteq Ports
<1> DEFINE want == job[w].desired[job[w].route]
<1>1. want \in Row
  BY DEF JobsOK, GoodJob, Job, InHand
<1>2. want.pub \in 0..MaxPort /\ want.assigned \in 0..MaxPort
  BY <1>1 DEF Row
<1>3. \A p \in 0..MaxPort : p # 0 => p \in Ports
  BY PortAssumption DEF Ports
<1>4. AutoRange \subseteq Ports
  BY PortAssumption DEF Ports
<1> QED
  BY <1>2, <1>3, <1>4 DEF ListenPorts

\* A published listener has a port.
LEMMA PortsOfRoutes ==
    ASSUME TypeOK, ReferencesLive, NEW s \in Sessions, NEW r \in Routes, routes[s][r] # None
    PROVE  listener[routes[s][r]].port \in 0..MaxPort
<1>1. routes[s][r] \in Listeners
  BY DEF TypeOK
<1>2. listener[routes[s][r]] \in Listener
  BY <1>1 DEF TypeOK, ReferencesLive
<1> QED
  BY <1>2, PortRange DEF Listener

-----------------------------------------------------------------------------
\* A worker takes up a route, a copy or a new listener and lets go of it again.
LEMMA JobsStep ==
    ASSUME TypeOK, JobsOK, ReferencesLive, [Next]_vars
    PROVE  JobsOK'
<1> USE DEF sessionVars, hostVars
<1>1. CASE SyncList
  <2>1. job[Syncer] \in GoodJob /\ job[Syncer].pc = "idle"
    BY <1>1, WorkerOf DEF JobsOK, SyncList
  <2>2. [job[Syncer] EXCEPT !.desired = DesiredRoutes, !.pc = "sessions"] \in GoodJob
    BY <2>1, ListedTypes DEF GoodJob, Job, Applying, InHand, States, HandlerStates, ApplyStates, TypeOK
  <2> QED
    BY <1>1, <2>2, WorkerOf, SetJobEffect, DoneIsGood DEF SyncList
<1>2. CASE SyncSessions
  <2>1. job[Syncer] \in GoodJob /\ job[Syncer].pc = "sessions"
    BY <1>2, WorkerOf DEF JobsOK, SyncSessions
  <2>2. ASSUME current \in Sessions
        PROVE  [job[Syncer] EXCEPT !.target = current, !.pc = "begin"] \in GoodJob
    BY <2>1, <2>2, NoneAssumption DEF GoodJob, Job, Applying, InHand, States, HandlerStates, ApplyStates
  <2> QED
    BY <1>2, <2>2, WorkerOf, NoneAssumption, SetJobEffect, DoneIsGood DEF SyncSessions, TypeOK
<1>3. CASE Restart
  BY <1>3, DoneIsGood DEF Restart, JobsOK
<1>4. ASSUME NEW w \in Workers, Begin(w)
      PROVE  JobsOK'
  <2>1. job[w] \in GoodJob /\ job[w].pc = "begin"
    BY <1>4 DEF JobsOK, Begin
  <2>2. routes[job[w].target] \in [Routes -> Listeners \cup {None}]
    BY <2>1 DEF GoodJob, Job, Applying, TypeOK
  <2>3. [job[w] EXCEPT !.snapshot = routes[job[w].target], !.pc = "stale",
                       !.visit = {r \in Routes : routes[job[w].target][r] # None}] \in GoodJob
    BY <2>1, <2>2 DEF GoodJob, Job, Applying, InHand, States, HandlerStates, ApplyStates
  <2> QED
    BY <1>4, <2>2, <2>3, SetJobEffect, DoneIsGood DEF Begin
<1>5. ASSUME NEW w \in Workers, VisitCurrent(w)
      PROVE  JobsOK'
  <2>1. job[w] \in GoodJob /\ job[w].pc = "stale"
    BY <1>5 DEF JobsOK, VisitCurrent
  <2>2. ASSUME NEW r \in job[w].visit
        PROVE  [job[w] EXCEPT !.visit = @ \ {r}, !.route = r, !.pc = "unpublish"] \in GoodJob
    BY <2>1 DEF GoodJob, Job, Applying, InHand, States, HandlerStates, ApplyStates
  <2>3. ASSUME NEW r \in job[w].visit
        PROVE  [job[w] EXCEPT !.visit = @ \ {r}] \in GoodJob
    BY <2>1 DEF GoodJob, Job, Applying, InHand, States, HandlerStates, ApplyStates
  <2> QED
    BY <1>5, <2>2, <2>3, SetJobEffect, DoneIsGood DEF VisitCurrent
<1>6. ASSUME NEW w \in Workers, Unpublish(w)
      PROVE  JobsOK'
  <2>1. job[w] \in GoodJob /\ job[w].pc = "unpublish"
    BY <1>6 DEF JobsOK, Unpublish
  <2>2. [job[w] EXCEPT !.pc = "clear"] \in GoodJob
    BY <2>1 DEF GoodJob, Job, Applying, InHand, States, HandlerStates, ApplyStates
  <2> QED
    BY <1>6, <2>2, SetJobEffect, DoneIsGood DEF Unpublish
<1>7. ASSUME NEW w \in Workers, ClearRoute(w)
      PROVE  JobsOK'
  <2>1. job[w] \in GoodJob /\ job[w].pc = "clear"
    BY <1>7 DEF JobsOK, ClearRoute
  <2>2. [job[w] EXCEPT !.pc = "stale", !.route = None] \in GoodJob
    BY <2>1 DEF GoodJob, Job, Applying, InHand, States, HandlerStates, ApplyStates
  <2> QED
    BY <1>7, <2>2, SetJobEffect, DoneIsGood DEF ClearRoute
<1>8. ASSUME NEW w \in Workers, VisitEnd(w)
      PROVE  JobsOK'
  <2>1. job[w] \in GoodJob /\ job[w].pc = "stale" /\ job[w].visit = {}
    BY <1>8 DEF JobsOK, VisitEnd
  <2>2. NoRoutes \in [Routes -> Listeners \cup {None}]
    BY DEF NoRoutes
  <2>3. [job[w] EXCEPT !.pc = "apply", !.snapshot = NoRoutes,
                       !.todo = {r \in Routes : job[w].desired[r] # None}] \in GoodJob
    BY <2>1, <2>2 DEF GoodJob, Job, Applying, InHand, States, HandlerStates, ApplyStates
  <2> QED
    BY <1>8, <2>2, <2>3, SetJobEffect, DoneIsGood DEF VisitEnd
<1>9. ASSUME NEW w \in Workers, ApplyNext(w)
      PROVE  JobsOK'
  <2>1. job[w] \in GoodJob /\ job[w].pc = "apply"
    BY <1>9 DEF JobsOK, ApplyNext
  <2>2. \A r \in Routes : routes[job[w].target][r] # None =>
          listener[routes[job[w].target][r]].port \in 0..MaxPort
    BY <2>1, PortsOfRoutes DEF GoodJob, Job, Applying, ApplyStates
  <2>3. job[w].todo \subseteq Routes
    BY <2>1 DEF GoodJob, Job
  <2>4. ASSUME NEW r \in Routes, NEW next \in {"write", "reserve", "listen"}, NEW p \in 0..MaxPort,
               next # "write" => job[w].desired[r] # None
        PROVE  [job[w] EXCEPT !.todo = @ \ {r}, !.route = r, !.pc = next, !.port = p] \in GoodJob
    BY <2>1, <2>4, <2>2, <2>3 DEF GoodJob, Job, Applying, InHand, States, HandlerStates, ApplyStates
  <2> QED
    BY <1>9, <2>2, <2>3, <2>4, PortRange, SetJobEffect, DoneIsGood DEF ApplyNext, Exposable
<1>10. ASSUME NEW w \in Workers, Reserve(w)
      PROVE  JobsOK'
  <2>1. job[w] \in GoodJob /\ job[w].pc = "reserve"
    BY <1>10 DEF JobsOK, Reserve
  <2>2. [job[w] EXCEPT !.reserved = AssignedPorts, !.pc = "listen"] \in GoodJob
    BY <2>1, ListedTypes DEF GoodJob, Job, Applying, InHand, States, HandlerStates, ApplyStates, TypeOK
  <2> QED
    BY <1>10, <2>2, SetJobEffect, DoneIsGood DEF Reserve
<1>11. ASSUME NEW w \in Workers, Listen(w)
      PROVE  JobsOK'
  <2>1. job[w] \in GoodJob /\ job[w].pc = "listen"
    BY <1>11 DEF JobsOK, Listen
  <2>2. ListenPorts(w) \subseteq Ports
    BY <2>1, ListenPortsArePorts
  <2>3. Unused # {} => NewListener \in Listeners
    BY DEF NewListener, Unused
  <2>4. [job[w] EXCEPT !.pc = "write", !.reserved = {}] \in GoodJob
    BY <2>1, <2>2, <2>3, PortRange, NoneAssumption DEF GoodJob, Job, Applying, InHand, States, HandlerStates, ApplyStates
  <2>5. ASSUME NEW p \in Ports, NEW l \in Listeners
        PROVE  [job[w] EXCEPT !.pc = "publish", !.created = l, !.port = p, !.reserved = {}] \in GoodJob
    BY <2>1, <2>5, <2>2, <2>3, PortRange, NoneAssumption DEF GoodJob, Job, Applying, InHand, States, HandlerStates, ApplyStates
  <2> QED
    BY <1>11, <2>2, <2>3, <2>4, <2>5, SetJobEffect, DoneIsGood DEF Listen
<1>12. ASSUME NEW w \in Workers, Publish(w)
      PROVE  JobsOK'
  <2>1. job[w] \in GoodJob /\ job[w].pc = "publish"
    BY <1>12 DEF JobsOK, Publish
  <2>2. [job[w] EXCEPT !.created = None, !.pc = "write"] \in GoodJob
    BY <2>1 DEF GoodJob, Job, Applying, InHand, States, HandlerStates, ApplyStates
  <2> QED
    BY <1>12, <2>2, SetJobEffect, DoneIsGood DEF Publish
<1>13. ASSUME NEW w \in Workers, WriteRuntime(w)
      PROVE  JobsOK'
  <2>1. job[w] \in GoodJob /\ job[w].pc = "write"
    BY <1>13 DEF JobsOK, WriteRuntime
  <2>2. [job[w] EXCEPT !.pc = "apply", !.route = None, !.port = 0] \in GoodJob
    BY <2>1, PortRange DEF GoodJob, Job, Applying, InHand, States, HandlerStates, ApplyStates
  <2> QED
    BY <1>13, <2>2, SetJobEffect, DoneIsGood DEF WriteRuntime
<1>14. ASSUME NEW w \in Workers, SendRoutes(w)
      PROVE  JobsOK'
  BY <1>14, SetJobEffect, DoneIsGood DEF SendRoutes
<1>15. ASSUME NEW s \in Sessions, RegisterClient(s)
      PROVE  JobsOK'
  <2>1. job[s] \in GoodJob /\ job[s].pc = "idle"
    BY <1>15, WorkerOf DEF JobsOK, RegisterClient, SessionUnreferenced
  <2>2. [job[s] EXCEPT !.pc = "list"] \in GoodJob
    BY <2>1 DEF GoodJob, Job, Applying, InHand, States, HandlerStates, ApplyStates
  <2>3. [job[s] EXCEPT !.pc = "replace"] \in GoodJob
    BY <2>1 DEF GoodJob, Job, Applying, InHand, States, HandlerStates, ApplyStates
  <2> QED
    BY <1>15, <2>2, <2>3, WorkerOf, SetJobEffect, DoneIsGood DEF RegisterClient
<1>16. ASSUME NEW s \in Sessions, CloseReplaced(s)
      PROVE  JobsOK'
  <2>1. job[s] \in GoodJob /\ job[s].pc = "replace"
    BY <1>16, WorkerOf DEF JobsOK, CloseReplaced
  <2>2. [job[s] EXCEPT !.pc = "list"] \in GoodJob
    BY <2>1 DEF GoodJob, Job, Applying, InHand, States, HandlerStates, ApplyStates
  <2> QED
    BY <1>16, <2>2, WorkerOf, SetJobEffect, DoneIsGood DEF CloseReplaced
<1>17. ASSUME NEW s \in Sessions, HandlerList(s)
      PROVE  JobsOK'
  <2>1. job[s] \in GoodJob /\ job[s].pc = "list"
    BY <1>17, WorkerOf DEF JobsOK, HandlerList
  <2>2. [job[s] EXCEPT !.desired = DesiredRoutes, !.target = s, !.pc = "begin"] \in GoodJob
    BY <2>1, ListedTypes, NoneAssumption DEF GoodJob, Job, Applying, InHand, States, HandlerStates, ApplyStates, TypeOK
  <2> QED
    BY <1>17, <2>2, WorkerOf, SetJobEffect, DoneIsGood DEF HandlerList
<1>18. ASSUME NEW s \in Sessions, UnregisterClient(s)
      PROVE  JobsOK'
  <2>1. job[s] \in GoodJob /\ job[s].pc = "serve"
    BY <1>18, WorkerOf DEF JobsOK, UnregisterClient
  <2>2. [job[s] EXCEPT !.pc = "closeActive"] \in GoodJob
    BY <2>1 DEF GoodJob, Job, Applying, InHand, States, HandlerStates, ApplyStates
  <2>3. [job[s] EXCEPT !.pc = "close"] \in GoodJob
    BY <2>1 DEF GoodJob, Job, Applying, InHand, States, HandlerStates, ApplyStates
  <2> QED
    BY <1>18, <2>2, <2>3, WorkerOf, SetJobEffect, DoneIsGood DEF UnregisterClient
<1>19. ASSUME NEW s \in Sessions, CloseOwn(s)
      PROVE  JobsOK'
  <2>1. job[s] \in GoodJob /\ job[s].pc \in {"close", "closeActive"}
    BY <1>19, WorkerOf DEF JobsOK, CloseOwn
  <2>2. [job[s] EXCEPT !.pc = "mark"] \in GoodJob
    BY <2>1 DEF GoodJob, Job, Applying, InHand, States, HandlerStates, ApplyStates
  <2>3. [job[s] EXCEPT !.pc = "idle"] \in GoodJob
    BY <2>1 DEF GoodJob, Job, Applying, InHand, States, HandlerStates, ApplyStates
  <2> QED
    BY <1>19, <2>2, <2>3, WorkerOf, SetJobEffect, DoneIsGood DEF CloseOwn
<1>20. ASSUME NEW s \in Sessions, MarkOwn(s)
      PROVE  JobsOK'
  <2>1. job[s] \in GoodJob /\ job[s].pc = "mark"
    BY <1>20, WorkerOf DEF JobsOK, MarkOwn
  <2>2. [job[s] EXCEPT !.pc = "idle"] \in GoodJob
    BY <2>1 DEF GoodJob, Job, Applying, InHand, States, HandlerStates, ApplyStates
  <2> QED
    BY <1>20, <2>2, WorkerOf, SetJobEffect, DoneIsGood DEF MarkOwn
<1>21. ASSUME NEW r \in Routes, DeleteRoute(r)
      PROVE  JobsOK'
  BY <1>21 DEF DeleteRoute, JobsOK
<1>22. ASSUME NEW r \in Routes, NEW req \in Requests[r], SaveRoute(r, req)
      PROVE  JobsOK'
  BY <1>22 DEF SaveRoute, JobsOK
<1>23. CASE UNCHANGED vars
  BY <1>23 DEF vars, JobsOK
<1> QED
  BY <1>1, <1>2, <1>3, <1>4, <1>5, <1>6, <1>7, <1>8, <1>9, <1>10, <1>11, <1>12, <1>13, <1>14,
     <1>15, <1>16, <1>17, <1>18, <1>19, <1>20, <1>21, <1>22, <1>23, NextCases

-----------------------------------------------------------------------------
(* What a step does to the variables of applyRoutes that others depend on *)

Others(w) == \A v \in Workers \ {w} : job'[v] = job[v]
Finished(w) ==
    /\ job'[w].pc \in {"idle", "serve"} /\ job'[w].target = None
    /\ job'[w].created = None /\ job'[w].snapshot = NoRoutes
Same(w) ==
    /\ job'[w].target = job[w].target /\ job'[w].created = job[w].created
    /\ job'[w].snapshot = job[w].snapshot

\* The listener object newManagedRouteListener creates.
NewObject(w, p) ==
    [sess |-> job[w].target, route |-> job[w].route, port |-> p,
     pub |-> job[w].desired[job[w].route].pub, open |-> TRUE]
CreateListener(w) ==
    \E p \in ListenPorts(w) : Unused # {} /\ listener' = [listener EXCEPT ![NewListener] = NewObject(w, p)]

\* A worker begins with a copy of the map of its session, or finds the session closed.
LEMMA BeginJob ==
    ASSUME JobsOK, NEW w \in Workers, Begin(w)
    PROVE  Others(w) /\ \/ Finished(w)
                        \/ /\ job'[w].pc = "stale" /\ job'[w].target = job[w].target
                           /\ job'[w].created = job[w].created
                           /\ job'[w].snapshot = routes[job[w].target]
<1>1. job[w] \in GoodJob /\ job[w] \in Job
  BY WorkerOf DEF JobsOK, GoodJob
<1>2. CASE SetJob(w, Done(w))
  BY <1>2, SetJobEffect, DoneIsGood, WorkerOf DEF Others, Finished
<1>3. CASE SetJob(w, [job[w] EXCEPT !.snapshot = routes[job[w].target], !.pc = "stale",
                      !.visit = {r \in Routes : routes[job[w].target][r] # None}])
  <2>1. job'[w] = [job[w] EXCEPT !.snapshot = routes[job[w].target], !.pc = "stale",
                         !.visit = {r \in Routes : routes[job[w].target][r] # None}]
    BY <1>3, SetJobEffect, WorkerOf
  <2>2. Others(w)
    BY <1>3, SetJobEffect, WorkerOf DEF Others
  <2> QED
    BY <1>1, <2>1, <2>2 DEF Same, Job
<1> QED
  BY <1>1, <1>2, <1>3 DEF Begin

\* It goes over its copy, taking a stale entry in hand.
LEMMA VisitCurrentJob ==
    ASSUME JobsOK, NEW w \in Workers, VisitCurrent(w)
    PROVE  Others(w) /\ \/ Finished(w)
                        \/ Same(w) /\ job'[w].pc = "stale"
                        \/ Same(w) /\ job'[w].pc = "unpublish" /\ job'[w].route \in job[w].visit
<1>1. job[w] \in GoodJob /\ job[w] \in Job
  BY WorkerOf DEF JobsOK, GoodJob
<1>2. CASE SetJob(w, Done(w))
  BY <1>2, SetJobEffect, DoneIsGood, WorkerOf DEF Others, Finished
<1>3. ASSUME NEW r \in job[w].visit,
             SetJob(w, [job[w] EXCEPT !.visit = @ \ {r}, !.route = r, !.pc = "unpublish"])
      PROVE  Others(w) /\ \/ Finished(w)
                          \/ Same(w) /\ job'[w].pc = "stale"
                          \/ Same(w) /\ job'[w].pc = "unpublish" /\ job'[w].route \in job[w].visit
  <2>1. job'[w] = [job[w] EXCEPT !.visit = @ \ {r}, !.route = r, !.pc = "unpublish"]
    BY <1>3, SetJobEffect, WorkerOf
  <2>2. Others(w)
    BY <1>3, SetJobEffect, WorkerOf DEF Others
  <2> QED
    BY <1>3, <1>1, <2>1, <2>2 DEF Same, Job
<1>4. ASSUME NEW r \in job[w].visit, job[w].pc = "stale",
             SetJob(w, [job[w] EXCEPT !.visit = @ \ {r}])
      PROVE  Others(w) /\ \/ Finished(w)
                          \/ Same(w) /\ job'[w].pc = "stale"
                          \/ Same(w) /\ job'[w].pc = "unpublish" /\ job'[w].route \in job[w].visit
  <2>1. job'[w] = [job[w] EXCEPT !.visit = @ \ {r}]
    BY <1>4, SetJobEffect, WorkerOf
  <2>2. Others(w)
    BY <1>4, SetJobEffect, WorkerOf DEF Others
  <2>3. Same(w) /\ job'[w].pc = "stale"
    BY <1>1, <1>4, <2>1 DEF Same, Job
  <2> QED
    BY <2>2, <2>3
<1> QED
  BY <1>1, <1>2, <1>3, <1>4 DEF VisitCurrent

\* The entry in hand stays in hand until its row is cleared.
LEMMA UnpublishJob ==
    ASSUME JobsOK, NEW w \in Workers, Unpublish(w)
    PROVE  Others(w) /\ Same(w) /\ job'[w].pc = "clear" /\ job'[w].route = job[w].route
BY SetJobEffect, DoneIsGood, WorkerOf DEF Unpublish, Others, Finished, Same, SetJob, JobsOK, GoodJob, Job

\* Then it goes over the rest of its copy.
LEMMA ClearRouteJob ==
    ASSUME JobsOK, NEW w \in Workers, ClearRoute(w)
    PROVE  Others(w) /\ Same(w) /\ job'[w].pc = "stale"
BY SetJobEffect, DoneIsGood, WorkerOf DEF ClearRoute, Others, Finished, Same, SetJob, JobsOK, GoodJob, Job

\* It drops its copy before it applies the rows.
LEMMA VisitEndJob ==
    ASSUME JobsOK, NEW w \in Workers, VisitEnd(w)
    PROVE  /\ Others(w) /\ job'[w].pc = "apply" /\ job'[w].target = job[w].target
           /\ job'[w].created = job[w].created /\ job'[w].snapshot = NoRoutes
<1>1. job[w] \in GoodJob /\ job[w] \in Job
  BY WorkerOf DEF JobsOK, GoodJob
<1>2. CASE SetJob(w, [job[w] EXCEPT !.pc = "apply", !.snapshot = NoRoutes,
                      !.todo = {r \in Routes : job[w].desired[r] # None}])
  <2>1. job'[w] = [job[w] EXCEPT !.pc = "apply", !.snapshot = NoRoutes,
                         !.todo = {r \in Routes : job[w].desired[r] # None}]
    BY <1>2, SetJobEffect, WorkerOf
  <2>2. Others(w)
    BY <1>2, SetJobEffect, WorkerOf DEF Others
  <2> QED
    BY <1>1, <2>1, <2>2 DEF Same, Job
<1> QED
  BY <1>1, <1>2 DEF VisitEnd

\* It goes on to a listener of its own only for a route the map has none for.
LEMMA ApplyNextJob ==
    ASSUME JobsOK, NEW w \in Workers, ApplyNext(w)
    PROVE  Others(w) /\ \/ Finished(w)
                        \/ Same(w) /\ job'[w].pc = "write"
                        \/ /\ Same(w) /\ job'[w].pc \in {"reserve", "listen"}
                           /\ routes[job[w].target][job'[w].route] = None
<1>1. job[w] \in GoodJob /\ job[w] \in Job
  BY WorkerOf DEF JobsOK, GoodJob
<1>2. CASE SetJob(w, Done(w))
  BY <1>2, SetJobEffect, DoneIsGood, WorkerOf DEF Others, Finished
<1>3. ASSUME NEW r \in Routes, NEW next \in {"write", "reserve", "listen"}, NEW p,
             next # "write" => routes[job[w].target][r] = None,
             SetJob(w, [job[w] EXCEPT !.todo = @ \ {r}, !.route = r, !.pc = next, !.port = p])
      PROVE  Others(w) /\ \/ Finished(w)
                          \/ Same(w) /\ job'[w].pc = "write"
                          \/ /\ Same(w) /\ job'[w].pc \in {"reserve", "listen"}
                             /\ routes[job[w].target][job'[w].route] = None
  <2>1. job'[w] = [job[w] EXCEPT !.todo = @ \ {r}, !.route = r, !.pc = next, !.port = p]
    BY <1>3, SetJobEffect, WorkerOf
  <2>2. Others(w)
    BY <1>3, SetJobEffect, WorkerOf DEF Others
  <2> QED
    BY <1>3, <1>1, <2>1, <2>2 DEF Same, Job
<1> QED
  BY <1>1, <1>2, <1>3 DEF ApplyNext, GoodJob, Job

\* It reads the reserved ports for the route in hand.
LEMMA ReserveJob ==
    ASSUME JobsOK, NEW w \in Workers, Reserve(w)
    PROVE  Others(w) /\ Same(w) /\ job'[w].pc = "listen" /\ job'[w].route = job[w].route
BY SetJobEffect, DoneIsGood, WorkerOf DEF Reserve, Others, Finished, Same, SetJob, JobsOK, GoodJob, Job

\* It gives up, or holds the new listener.
LEMMA ListenJob ==
    ASSUME JobsOK, NEW w \in Workers, Listen(w)
    PROVE  Others(w) /\ \/ Same(w) /\ job'[w].pc = "write" /\ UNCHANGED listener
                        \/ /\ job'[w].pc = "publish" /\ job'[w].target = job[w].target
                           /\ job'[w].route = job[w].route /\ job'[w].created = NewListener
                           /\ job'[w].snapshot = job[w].snapshot /\ CreateListener(w)
<1>1. job[w] \in GoodJob /\ job[w] \in Job
  BY WorkerOf DEF JobsOK, GoodJob
<1>2. ASSUME UNCHANGED listener,
             SetJob(w, [job[w] EXCEPT !.pc = "write", !.reserved = {}])
      PROVE  Others(w) /\ \/ Same(w) /\ job'[w].pc = "write" /\ UNCHANGED listener
                          \/ /\ job'[w].pc = "publish" /\ job'[w].target = job[w].target
                             /\ job'[w].route = job[w].route /\ job'[w].created = NewListener
                             /\ job'[w].snapshot = job[w].snapshot /\ CreateListener(w)
  <2>1. job'[w] = [job[w] EXCEPT !.pc = "write", !.reserved = {}]
    BY <1>2, SetJobEffect, WorkerOf
  <2>2. Others(w)
    BY <1>2, SetJobEffect, WorkerOf DEF Others
  <2> QED
    BY <1>2, <1>1, <2>1, <2>2 DEF Same, Job
<1>3. ASSUME CreateListener(w), NEW p,
             SetJob(w, [job[w] EXCEPT !.pc = "publish", !.created = NewListener, !.port = p, !.reserved = {}])
      PROVE  Others(w) /\ \/ Same(w) /\ job'[w].pc = "write" /\ UNCHANGED listener
                          \/ /\ job'[w].pc = "publish" /\ job'[w].target = job[w].target
                             /\ job'[w].route = job[w].route /\ job'[w].created = NewListener
                             /\ job'[w].snapshot = job[w].snapshot /\ CreateListener(w)
  <2>1. job'[w] = [job[w] EXCEPT !.pc = "publish", !.created = NewListener, !.port = p, !.reserved = {}]
    BY <1>3, SetJobEffect, WorkerOf
  <2>2. Others(w)
    BY <1>3, SetJobEffect, WorkerOf DEF Others
  <2> QED
    BY <1>3, <1>1, <2>1, <2>2 DEF Same, Job
<1> QED
  BY <1>1, <1>2, <1>3 DEF Listen, CreateListener, NewObject

\* It hands the new listener to the map, or is done with a closed session.
LEMMA PublishJob ==
    ASSUME JobsOK, NEW w \in Workers, Publish(w)
    PROVE  Others(w) /\ \/ Finished(w) /\ sessClosed[job[w].target]
                        \/ /\ job'[w].pc = "write" /\ job'[w].target = job[w].target
                           /\ job'[w].created = None /\ job'[w].snapshot = job[w].snapshot
                           /\ ~sessClosed[job[w].target]
<1>1. job[w] \in GoodJob /\ job[w] \in Job
  BY WorkerOf DEF JobsOK, GoodJob
<1>2. CASE SetJob(w, Done(w)) /\ sessClosed[job[w].target]
  BY <1>2, SetJobEffect, DoneIsGood, WorkerOf DEF Others, Finished, Publish
<1>3. ASSUME ~sessClosed[job[w].target],
             SetJob(w, [job[w] EXCEPT !.created = None, !.pc = "write"])
      PROVE  Others(w) /\ \/ Finished(w) /\ sessClosed[job[w].target]
                          \/ /\ job'[w].pc = "write" /\ job'[w].target = job[w].target
                             /\ job'[w].created = None /\ job'[w].snapshot = job[w].snapshot
                             /\ ~sessClosed[job[w].target]
  <2>1. job'[w] = [job[w] EXCEPT !.created = None, !.pc = "write"]
    BY <1>3, SetJobEffect, WorkerOf
  <2>2. Others(w)
    BY <1>3, SetJobEffect, WorkerOf DEF Others
  <2> QED
    BY <1>3, <1>1, <2>1, <2>2 DEF Same, Job
<1> QED
  BY <1>1, <1>2, <1>3 DEF Publish

\* It goes on with the next row.
LEMMA WriteRuntimeJob ==
    ASSUME JobsOK, NEW w \in Workers, WriteRuntime(w)
    PROVE  Others(w) /\ Same(w) /\ job'[w].pc = "apply"
BY SetJobEffect, DoneIsGood, WorkerOf DEF WriteRuntime, Others, Finished, Same, SetJob, JobsOK, GoodJob, Job

\* It is done once it sent the routes.
LEMMA SendRoutesJob ==
    ASSUME JobsOK, NEW w \in Workers, SendRoutes(w)
    PROVE  Others(w) /\ Finished(w)
BY SetJobEffect, DoneIsGood, WorkerOf DEF SendRoutes, Others, Finished, Same, SetJob, JobsOK, GoodJob, Job

\* The sync loop lists the rows,
LEMMA SyncListJob ==
    ASSUME JobsOK, SyncList
    PROVE  Others(Syncer) /\ Same(Syncer) /\ job'[Syncer].pc = "sessions"
BY SetJobEffect, DoneIsGood, WorkerOf DEF SyncList, Others, Finished, Same, SetJob, JobsOK, GoodJob, Job

\* and then begins with the session of the client, if there is one.
LEMMA SyncSessionsJob ==
    ASSUME JobsOK, SyncSessions
    PROVE  /\ Others(Syncer) /\ job'[Syncer].pc \in {"idle", "begin"}
           /\ job'[Syncer].created = None /\ job'[Syncer].snapshot = NoRoutes
<1>1. job[Syncer] \in GoodJob /\ job[Syncer] \in Job
  BY WorkerOf DEF JobsOK, GoodJob
<1>2. CASE SetJob(Syncer, NoJob)
  BY <1>2, SetJobEffect, DoneIsGood, WorkerOf DEF Others, NoJob
<1>3. ASSUME job[Syncer].pc = "sessions",
             SetJob(Syncer, [job[Syncer] EXCEPT !.target = current, !.pc = "begin"])
      PROVE  /\ Others(Syncer) /\ job'[Syncer].pc \in {"idle", "begin"}
             /\ job'[Syncer].created = None /\ job'[Syncer].snapshot = NoRoutes
  <2>1. job'[Syncer] = [job[Syncer] EXCEPT !.target = current, !.pc = "begin"]
    BY <1>3, SetJobEffect, WorkerOf
  <2>2. Others(Syncer)
    BY <1>3, SetJobEffect, WorkerOf DEF Others
  <2> QED
    BY <1>3, <1>1, <2>1, <2>2 DEF Same, Job, GoodJob
<1> QED
  BY <1>1, <1>2, <1>3 DEF SyncSessions

\* A handler that displaced a session closes it first.
LEMMA RegisterClientJob ==
    ASSUME JobsOK, NEW s \in Sessions, RegisterClient(s)
    PROVE  Others(s) /\ Same(s) /\ job'[s].pc = IF current = None THEN "list" ELSE "replace"
BY SetJobEffect, DoneIsGood, WorkerOf DEF RegisterClient, Others, Finished, Same, SetJob, JobsOK, GoodJob, Job

\* Then it lists the rows,
LEMMA CloseReplacedJob ==
    ASSUME JobsOK, NEW s \in Sessions, CloseReplaced(s)
    PROVE  Others(s) /\ Same(s) /\ job'[s].pc = "list"
BY SetJobEffect, DoneIsGood, WorkerOf DEF CloseReplaced, Others, Finished, Same, SetJob, JobsOK, GoodJob, Job

\* and applies them to its own session.
LEMMA HandlerListJob ==
    ASSUME JobsOK, NEW s \in Sessions, HandlerList(s)
    PROVE  /\ Others(s) /\ job'[s].pc = "begin" /\ job'[s].target = s
           /\ job'[s].created = None /\ job'[s].snapshot = NoRoutes
<1>1. job[s] \in GoodJob /\ job[s] \in Job
  BY WorkerOf DEF JobsOK, GoodJob
<1>2. ASSUME job[s].pc = "list",
             SetJob(s, [job[s] EXCEPT !.desired = DesiredRoutes, !.target = s, !.pc = "begin"])
      PROVE  /\ Others(s) /\ job'[s].pc = "begin" /\ job'[s].target = s
             /\ job'[s].created = None /\ job'[s].snapshot = NoRoutes
  <2>1. job'[s] = [job[s] EXCEPT !.desired = DesiredRoutes, !.target = s, !.pc = "begin"]
    BY <1>2, SetJobEffect, WorkerOf
  <2>2. Others(s)
    BY <1>2, SetJobEffect, WorkerOf DEF Others
  <2> QED
    BY <1>2, <1>1, <2>1, <2>2 DEF Same, Job, GoodJob
<1> QED
  BY <1>1, <1>2 DEF HandlerList

\* A handler that leaves closes its session,
LEMMA UnregisterClientJob ==
    ASSUME JobsOK, NEW s \in Sessions, UnregisterClient(s)
    PROVE  Others(s) /\ Same(s) /\ job'[s].pc \in {"close", "closeActive"}
BY SetJobEffect, DoneIsGood, WorkerOf DEF UnregisterClient, Others, Finished, Same, SetJob, JobsOK, GoodJob, Job

\* marks the client disconnected if it left the registry,
LEMMA CloseOwnJob ==
    ASSUME JobsOK, NEW s \in Sessions, CloseOwn(s)
    PROVE  Others(s) /\ Same(s) /\ job'[s].pc \in {"mark", "idle"}
BY SetJobEffect, DoneIsGood, WorkerOf DEF CloseOwn, Others, Finished, Same, SetJob, JobsOK, GoodJob, Job

\* and is done.
LEMMA MarkOwnJob ==
    ASSUME JobsOK, NEW s \in Sessions, MarkOwn(s)
    PROVE  Others(s) /\ Same(s) /\ job'[s].pc = "idle"
BY SetJobEffect, DoneIsGood, WorkerOf DEF MarkOwn, Others, Finished, Same, SetJob, JobsOK, GoodJob, Job

-----------------------------------------------------------------------------
(* The rows *)

\* What a step may do to the rows.
LEMMA RowChanges ==
    ASSUME JobsOK, [Next]_vars
    PROVE  \/ UNCHANGED rows
           \/ rows' = ClearRuntime(rows)
           \/ \E r \in Routes, p \in 0..MaxPort : UpdateRouteRuntime(r, p)
           \/ \E r \in Routes : DeleteRoute(r)
           \/ \E r \in Routes : \E req \in Requests[r] : SaveRoute(r, req)
<1>1. ASSUME NEW w \in Workers, ClearRoute(w)
      PROVE  \E r \in Routes, p \in 0..MaxPort : UpdateRouteRuntime(r, p)
  <2>1. job[w].route \in Routes
    BY <1>1 DEF ClearRoute, JobsOK, GoodJob, InHand
  <2> QED
    BY <1>1, <2>1, PortRange DEF ClearRoute
<1>2. ASSUME NEW w \in Workers, WriteRuntime(w)
      PROVE  \E r \in Routes, p \in 0..MaxPort : UpdateRouteRuntime(r, p)
  <2>1. job[w].route \in Routes /\ job[w].port \in 0..MaxPort
    BY <1>2 DEF WriteRuntime, JobsOK, GoodJob, Job, InHand
  <2> QED
    BY <1>2, <2>1 DEF WriteRuntime
<1>3. ASSUME NEW w \in Workers,
             \/ Begin(w) \/ VisitCurrent(w) \/ Unpublish(w) \/ VisitEnd(w) \/ ApplyNext(w)
             \/ Reserve(w) \/ Listen(w) \/ Publish(w) \/ SendRoutes(w)
      PROVE  UNCHANGED rows
  BY <1>3 DEF Begin, VisitCurrent, Unpublish, VisitEnd, ApplyNext, Reserve, Listen, Publish, SendRoutes
<1>4. ASSUME NEW s \in Sessions,
             \/ RegisterClient(s) \/ CloseReplaced(s) \/ HandlerList(s)
             \/ UnregisterClient(s) \/ CloseOwn(s)
      PROVE  UNCHANGED rows
  BY <1>4 DEF RegisterClient, CloseReplaced, HandlerList, UnregisterClient, CloseOwn
<1>5. CASE Restart \/ \E s \in Sessions : MarkOwn(s)
  BY <1>5 DEF Restart, MarkOwn
<1>6. CASE SyncList \/ SyncSessions \/ UNCHANGED vars
  BY <1>6 DEF SyncList, SyncSessions, vars
<1> QED
  BY <1>1, <1>2, <1>3, <1>4, <1>5, <1>6, NextCases

\* A row that is changed is a row, and that of another route is what it was.
LEMMA RowsTypeStep ==
    ASSUME TypeOK, JobsOK, [Next]_vars
    PROVE  rows' \in [Routes -> Row \cup {None}]
<1> USE PortRange DEF TypeOK
<1>1. CASE rows' = ClearRuntime(rows)
  BY <1>1 DEF ClearRuntime, Row
<1>2. ASSUME NEW r \in Routes, NEW p \in 0..MaxPort, UpdateRouteRuntime(r, p)
      PROVE  rows' \in [Routes -> Row \cup {None}]
  <2>1. ASSUME rows[r] # None
        PROVE  [rows[r] EXCEPT !.active = p,
                       !.assigned = IF rows[r].assigned = 0 THEN p ELSE rows[r].assigned] \in Row
    <3>1. rows[r] \in Row
      BY <2>1
    <3>2. CASE rows[r].assigned = 0
      BY <3>1, <3>2 DEF Row
    <3>3. CASE rows[r].assigned # 0
      BY <3>1, <3>3 DEF Row
    <3> QED
      BY <3>2, <3>3
  <2> QED
    BY <1>2, <2>1 DEF UpdateRouteRuntime
<1>3. ASSUME NEW r \in Routes, DeleteRoute(r)
      PROVE  rows' \in [Routes -> Row \cup {None}]
  BY <1>3 DEF DeleteRoute
<1>4. ASSUME NEW r \in Routes, NEW req \in Requests[r], SaveRoute(r, req)
      PROVE  rows' \in [Routes -> Row \cup {None}]
  <2>1. req \in [enabled : BOOLEAN, pub : 0..MaxPort, udp : BOOLEAN]
    BY RequestAssumption
  <2>2. [enabled |-> req.enabled, pub |-> req.pub, udp |-> req.udp,
         assigned |-> IF rows[r] = None THEN 0 ELSE rows[r].assigned, active |-> 0] \in Row
    BY <2>1 DEF Row
  <2> QED
    BY <1>4, <2>2 DEF SaveRoute
<1> QED
  BY <1>1, <1>2, <1>3, <1>4, RowChanges

\* What UpdateRouteRuntime leaves in its row, and that it touches no other.
LEMMA UpdateEffect ==
    ASSUME TypeOK, NEW r \in Routes, NEW p \in 0..MaxPort, UpdateRouteRuntime(r, p)
    PROVE  \/ UNCHANGED rows
           \/ /\ rows[r] # None /\ ~UpdateRefused(r, p) /\ rows'[r].active = p
              /\ rows'[r].assigned = IF rows[r].assigned = 0 THEN p ELSE rows[r].assigned
              /\ rows'[r].udp = rows[r].udp
              /\ \A q \in Routes \ {r} : rows'[q] = rows[q]
<1>1. CASE rows[r] # None /\ ~UpdateRefused(r, p)
  <2>1. rows[r] \in Row
    BY <1>1 DEF TypeOK
  <2>2. rows'[r] = [rows[r] EXCEPT !.active = p,
                       !.assigned = IF rows[r].assigned = 0 THEN p ELSE rows[r].assigned]
    BY <1>1 DEF UpdateRouteRuntime, TypeOK
  <2>3. \A q \in Routes \ {r} : rows'[q] = rows[q]
    BY <1>1 DEF UpdateRouteRuntime, TypeOK
  <2> QED
    BY <1>1, <2>1, <2>2, <2>3 DEF Row
<1> QED
  BY <1>1 DEF UpdateRouteRuntime

\* Clearing the runtime columns leaves everything else in place.
LEMMA ClearEffect ==
    ASSUME TypeOK, rows' = ClearRuntime(rows), NEW r \in Routes
    PROVE  /\ rows'[r] = None <=> rows[r] = None
           /\ rows[r] # None => /\ rows'[r].active = 0 /\ rows'[r].assigned = rows[r].assigned
                                /\ rows'[r].udp = rows[r].udp
<1>1. CASE rows[r] = None
  BY <1>1 DEF ClearRuntime
<1>2. CASE rows[r] # None
  <2>1. rows[r] \in Row
    BY <1>2 DEF TypeOK
  <2>2. rows'[r] = [rows[r] EXCEPT !.active = 0]
    BY <1>2 DEF ClearRuntime
  <2>3. rows'[r] \in Row
    BY <2>1, <2>2, PortRange DEF Row
  <2> QED
    BY <1>2, <2>1, <2>2, <2>3, ObjectAssumption DEF Row
<1> QED
  BY <1>1, <1>2

\* Saving a route gives it no port and takes none away.
LEMMA SaveEffect ==
    ASSUME TypeOK, NEW r \in Routes, NEW req \in Requests[r], SaveRoute(r, req)
    PROVE  /\ rows'[r].active = 0
           /\ rows'[r].assigned = IF rows[r] = None THEN 0 ELSE rows[r].assigned
           /\ rows[r] # None /\ rows[r].assigned > 0 => rows'[r].udp = rows[r].udp
           /\ \A q \in Routes \ {r} : rows'[q] = rows[q]
BY DEF SaveRoute, SaveRefused, TypeOK

\* A port is recorded only if no other row has it, and only once.
LEMMA AssignedUniqueStep ==
    ASSUME TypeOK, JobsOK, AssignedUnique, [Next]_vars
    PROVE  AssignedUnique'
<1>1. CASE rows' = ClearRuntime(rows)
  BY <1>1, ClearEffect DEF AssignedUnique
<1>2. ASSUME NEW r \in Routes, NEW p \in 0..MaxPort, UpdateRouteRuntime(r, p)
      PROVE  AssignedUnique'
  <2>1. CASE UNCHANGED rows
    BY <2>1 DEF AssignedUnique
  <2>2. CASE ~UNCHANGED rows
    <3>1. rows[r].assigned = 0 /\ p > 0 => ~PortTaken(r, p)
      BY <1>2, <2>2, UpdateEffect DEF UpdateRefused
    <3>2. p > 0 \/ p = 0
      OBVIOUS
    <3> QED
      BY <1>2, <2>2, <3>1, <3>2, UpdateEffect DEF AssignedUnique, PortTaken
  <2> QED
    BY <2>1, <2>2
<1>3. ASSUME NEW r \in Routes, DeleteRoute(r)
      PROVE  AssignedUnique'
  BY <1>3 DEF DeleteRoute, AssignedUnique, TypeOK
<1>4. ASSUME NEW r \in Routes, NEW req \in Requests[r], SaveRoute(r, req)
      PROVE  AssignedUnique'
  <2>1. rows[r] # None => rows[r].assigned \in 0..MaxPort
    BY DEF TypeOK, Row
  <2> QED
    BY <1>4, <2>1, SaveEffect DEF AssignedUnique
<1> QED
  BY <1>1, <1>2, <1>3, <1>4, RowChanges DEF AssignedUnique

\* The active port is written together with the port it must equal, or cleared.
LEMMA ActiveStep ==
    ASSUME TypeOK, JobsOK, ActiveIsAssigned, [Next]_vars
    PROVE  ActiveIsAssigned'
<1>1. CASE rows' = ClearRuntime(rows)
  BY <1>1, ClearEffect DEF ActiveIsAssigned
<1>2. ASSUME NEW r \in Routes, NEW p \in 0..MaxPort, UpdateRouteRuntime(r, p)
      PROVE  ActiveIsAssigned'
  <2>1. ~UNCHANGED rows => p = 0 \/ rows[r].assigned \in {0, p}
    BY <1>2, UpdateEffect DEF UpdateRefused
  <2> QED
    BY <1>2, <2>1, UpdateEffect DEF ActiveIsAssigned
<1>3. ASSUME NEW r \in Routes, DeleteRoute(r)
      PROVE  ActiveIsAssigned'
  BY <1>3 DEF DeleteRoute, ActiveIsAssigned, TypeOK
<1>4. ASSUME NEW r \in Routes, NEW req \in Requests[r], SaveRoute(r, req)
      PROVE  ActiveIsAssigned'
  BY <1>4, SaveEffect DEF ActiveIsAssigned
<1> QED
  BY <1>1, <1>2, <1>3, <1>4, RowChanges DEF ActiveIsAssigned

\* The port a row has is the port it keeps.
LEMMA StableStep ==
    ASSUME TypeOK, JobsOK, [Next]_vars
    PROVE  \A r \in Routes : rows[r] # None /\ rows[r].assigned # 0 /\ rows'[r] # None =>
               rows'[r].assigned = rows[r].assigned
<1>1. CASE rows' = ClearRuntime(rows)
  BY <1>1, ClearEffect
<1>2. ASSUME NEW r \in Routes, NEW p \in 0..MaxPort, UpdateRouteRuntime(r, p)
      PROVE  \A q \in Routes : rows[q] # None /\ rows[q].assigned # 0 /\ rows'[q] # None =>
                 rows'[q].assigned = rows[q].assigned
  BY <1>2, UpdateEffect
<1>3. ASSUME NEW r \in Routes, DeleteRoute(r)
      PROVE  \A q \in Routes : rows'[q] # None => rows'[q] = rows[q]
  BY <1>3 DEF DeleteRoute, TypeOK
<1>4. ASSUME NEW r \in Routes, NEW req \in Requests[r], SaveRoute(r, req)
      PROVE  \A q \in Routes : rows[q] # None => rows'[q].assigned = rows[q].assigned
  BY <1>4, SaveEffect
<1> QED
  BY <1>1, <1>2, <1>3, <1>4, RowChanges

-----------------------------------------------------------------------------
(* The listeners *)



\* Closing listeners changes nothing but their being open.
LEMMA ClosedEffect ==
    ASSUME TypeOK, NEW L \in SUBSET Listeners, \A l \in L : listener[l] # None
    PROVE  /\ Closed(L) \in [Listeners -> Listener \cup {None}]
           /\ \A l \in Listeners \ L : Closed(L)[l] = listener[l]
           /\ \A l \in L : /\ Closed(L)[l] # None /\ ~Closed(L)[l].open
                           /\ Closed(L)[l].sess = listener[l].sess
                           /\ Closed(L)[l].route = listener[l].route
<1>1. ASSUME NEW l \in L
      PROVE  /\ [listener[l] EXCEPT !.open = FALSE] \in Listener
             /\ ~[listener[l] EXCEPT !.open = FALSE].open
             /\ [listener[l] EXCEPT !.open = FALSE].sess = listener[l].sess
             /\ [listener[l] EXCEPT !.open = FALSE].route = listener[l].route
  <2>1. listener[l] \in Listener
    BY DEF TypeOK
  <2> QED
    BY <2>1 DEF Listener
<1>2. \A l \in Listeners : Closed(L)[l] = IF l \in L THEN [listener[l] EXCEPT !.open = FALSE]
                                          ELSE listener[l]
  BY DEF Closed
<1>3. Closed(L) \in [Listeners -> Listener \cup {None}]
  BY <1>1 DEF Closed, TypeOK
<1> QED
  BY <1>1, <1>2, <1>3, ObjectAssumption

\* Only a closed listener nobody points to is collected.
LEMMA LiveEffect ==
    ASSUME NEW objects \in [Listeners -> Listener \cup {None}], NEW rts, NEW jb
    PROVE  /\ Live(objects, rts, jb) \in [Listeners -> Listener \cup {None}]
           /\ \A l \in Listeners : Live(objects, rts, jb)[l] \in {None, objects[l]}
           /\ \A l \in Listeners : objects[l] # None /\ objects[l].open =>
                Live(objects, rts, jb)[l] = objects[l]
           /\ \A s \in Sessions, r \in Routes : rts[s][r] \in Listeners =>
                Live(objects, rts, jb)[rts[s][r]] = objects[rts[s][r]]
           /\ \A w \in Workers, r \in Routes : jb[w].snapshot[r] \in Listeners =>
                Live(objects, rts, jb)[jb[w].snapshot[r]] = objects[jb[w].snapshot[r]]
BY DEF Live

\* The listeners of a session are objects.
LEMMA ListenersOf ==
    ASSUME TypeOK, ReferencesLive, NEW s \in Sessions
    PROVE  /\ {routes[s][r] : r \in Routes} \ {None} \in SUBSET Listeners
           /\ \A l \in {routes[s][r] : r \in Routes} \ {None} : listener[l] # None
BY DEF TypeOK, ReferencesLive

\* What a worker has copied and not looked at is an object.
LEMMA VisitedListener ==
    ASSUME JobsOK, ReferencesLive, NEW w \in Workers, NEW r \in job[w].visit
    PROVE  /\ {job[w].snapshot[r]} \in SUBSET Listeners
           /\ \A l \in {job[w].snapshot[r]} : listener[l] # None
BY DEF JobsOK, GoodJob, Job, ReferencesLive

\* A new listener object was not in use.
LEMMA NewListenerEffect ==
    ASSUME Unused # {}
    PROVE  NewListener \in Listeners /\ listener[NewListener] = None
BY DEF NewListener, Unused

\* What a worker has created is an object.
LEMMA CreatedListener ==
    ASSUME JobsOK, CreatedIsPrivate, NEW w \in Workers, job[w].created # None
    PROVE  /\ {job[w].created} \in SUBSET Listeners
           /\ \A l \in {job[w].created} : listener[l] # None
BY DEF JobsOK, GoodJob, Job, CreatedIsPrivate, IsOpen

\* A listener whose setRoute was called is one still.
LEMMA RefreshedListener ==
    ASSUME JobsOK, NEW w \in Workers, NEW r \in job[w].todo, Exposable(job[w].desired[r]),
           NEW k \in Listener
    PROVE  [k EXCEPT !.pub = job[w].desired[r].pub] \in Listener
<1>1. job[w].desired[r] \in Row
  BY DEF JobsOK, GoodJob, Job, Exposable
<1>2. job[w].desired[r].pub \in 0..MaxPort
  BY <1>1 DEF Row
<1> QED
  BY <1>2 DEF Listener

\* So is one that was created.
LEMMA NewObjectType ==
    ASSUME JobsOK, NEW w \in Workers, job[w].pc = "listen", NEW p \in ListenPorts(w)
    PROVE  NewObject(w, p) \in Listener
<1>1. job[w].target \in Sessions /\ job[w].route \in Routes
  BY DEF JobsOK, GoodJob, Job, Applying, ApplyStates, InHand
<1>2. job[w].desired[job[w].route] \in Row
  BY DEF JobsOK, GoodJob, Job, InHand
<1>3. job[w].desired[job[w].route].pub \in 0..MaxPort /\ p \in Ports
  BY <1>2, ListenPortsArePorts DEF Row
<1> QED
  BY <1>1, <1>3 DEF NewObject, Listener

-----------------------------------------------------------------------------
\* A listener that is created, changed or closed is a listener.
LEMMA ListenerTypeStep ==
    ASSUME TypeOK, JobsOK, ReplacedOK, References, [Next]_vars
    PROVE  listener' \in [Listeners -> Listener \cup {None}]
<1> USE DEF References
<1>1. CASE SyncList
  BY <1>1 DEF SyncList, hostVars, TypeOK
<1>2. CASE SyncSessions
  BY <1>2 DEF SyncSessions, hostVars, TypeOK
<1>3. CASE Restart
  BY <1>3 DEF Restart
<1>4. ASSUME NEW w \in Workers, Begin(w)
      PROVE  listener' \in [Listeners -> Listener \cup {None}]
  BY <1>4 DEF Begin, hostVars, TypeOK
<1>5. ASSUME NEW w \in Workers, VisitCurrent(w)
      PROVE  listener' \in [Listeners -> Listener \cup {None}]
  <2>1. PICK r \in job[w].visit :
          \/ listener' = Live(listener, routes, job')
          \/ listener' = Closed({job[w].snapshot[r]})
          \/ UNCHANGED listener
    BY <1>5 DEF VisitCurrent
  <2>2. Closed({job[w].snapshot[r]}) \in [Listeners -> Listener \cup {None}]
    BY VisitedListener, ClosedEffect
  <2>3. Live(listener, routes, job') \in [Listeners -> Listener \cup {None}]
    BY LiveEffect DEF TypeOK
  <2> QED
    BY <2>1, <2>2, <2>3 DEF TypeOK
<1>6. ASSUME NEW w \in Workers, Unpublish(w)
      PROVE  listener' \in [Listeners -> Listener \cup {None}]
  BY <1>6 DEF Unpublish, hostVars, TypeOK
<1>7. ASSUME NEW w \in Workers, ClearRoute(w)
      PROVE  listener' \in [Listeners -> Listener \cup {None}]
  BY <1>7 DEF ClearRoute, hostVars, TypeOK
<1>8. ASSUME NEW w \in Workers, VisitEnd(w)
      PROVE  listener' \in [Listeners -> Listener \cup {None}]
  BY <1>8, LiveEffect DEF VisitEnd, TypeOK
<1>9. ASSUME NEW w \in Workers, ApplyNext(w)
      PROVE  listener' \in [Listeners -> Listener \cup {None}]
  <2>1. PICK r \in job[w].todo :
          \/ UNCHANGED listener
          \/ /\ routes[job[w].target][r] # None /\ Exposable(job[w].desired[r])
             /\ listener' = [listener EXCEPT ![routes[job[w].target][r]].pub = job[w].desired[r].pub]
    BY <1>9 DEF ApplyNext
  <2>2. r \in Routes /\ job[w].target \in Sessions
    BY <1>9 DEF ApplyNext, JobsOK, GoodJob, Job, Applying, ApplyStates
  <2>3. CASE /\ routes[job[w].target][r] # None /\ Exposable(job[w].desired[r])
             /\ listener' = [listener EXCEPT ![routes[job[w].target][r]].pub = job[w].desired[r].pub]
    <3>1. routes[job[w].target][r] \in Listeners
      BY <2>2, <2>3 DEF TypeOK
    <3>2. listener[routes[job[w].target][r]] \in Listener
      BY <2>2, <2>3, <3>1 DEF TypeOK, References, ReferencesLive
    <3>3. [listener[routes[job[w].target][r]] EXCEPT !.pub = job[w].desired[r].pub] \in Listener
      BY <2>3, <3>2, RefreshedListener
    <3> QED
      BY <2>3, <3>3 DEF TypeOK
  <2> QED
    BY <2>1, <2>3 DEF TypeOK
<1>10. ASSUME NEW w \in Workers, Reserve(w)
      PROVE  listener' \in [Listeners -> Listener \cup {None}]
  BY <1>10 DEF Reserve, hostVars, TypeOK
<1>11. ASSUME NEW w \in Workers, Listen(w)
      PROVE  listener' \in [Listeners -> Listener \cup {None}]
  <2>1. CASE UNCHANGED listener
    BY <2>1 DEF TypeOK
  <2>2. CASE CreateListener(w)
    <3>1. \A p \in ListenPorts(w) : NewObject(w, p) \in Listener
      BY <1>11, NewObjectType DEF Listen
    <3> QED
      BY <2>2, <3>1 DEF CreateListener, TypeOK
  <2> QED
    BY <1>11, <2>1, <2>2, ListenJob
<1>12. ASSUME NEW w \in Workers, Publish(w)
      PROVE  listener' \in [Listeners -> Listener \cup {None}]
  <2>1. job[w].created # None
    BY <1>12 DEF Publish, JobsOK, GoodJob
  <2>2. Closed({job[w].created}) \in [Listeners -> Listener \cup {None}]
    BY <2>1, ClosedEffect, CreatedListener
  <2>3. CASE listener' = Live(Closed({job[w].created}), routes, job')
    BY <2>2, <2>3, LiveEffect
  <2> QED
    BY <1>12, <2>3 DEF Publish, TypeOK
<1>13. ASSUME NEW w \in Workers, WriteRuntime(w)
      PROVE  listener' \in [Listeners -> Listener \cup {None}]
  BY <1>13 DEF WriteRuntime, hostVars, TypeOK
<1>14. ASSUME NEW w \in Workers, SendRoutes(w)
      PROVE  listener' \in [Listeners -> Listener \cup {None}]
  BY <1>14 DEF SendRoutes, hostVars, TypeOK
<1>15. ASSUME NEW s \in Sessions, RegisterClient(s)
      PROVE  listener' \in [Listeners -> Listener \cup {None}]
  BY <1>15 DEF RegisterClient, hostVars, TypeOK
<1>16. ASSUME NEW s \in Sessions, CloseReplaced(s)
      PROVE  listener' \in [Listeners -> Listener \cup {None}]
  <2>1. listener' = Live(Closed({routes[replaced[s]][r] : r \in Routes} \ {None}), routes', job)
    BY <1>16 DEF CloseReplaced, CloseSession
  <2>2. replaced[s] \in Sessions
    BY <1>16 DEF CloseReplaced, ReplacedOK, TypeOK
  <2> QED
    BY <2>1, <2>2, ListenersOf, ClosedEffect, LiveEffect
<1>17. ASSUME NEW s \in Sessions, HandlerList(s)
      PROVE  listener' \in [Listeners -> Listener \cup {None}]
  BY <1>17 DEF HandlerList, hostVars, TypeOK
<1>18. ASSUME NEW s \in Sessions, UnregisterClient(s)
      PROVE  listener' \in [Listeners -> Listener \cup {None}]
  BY <1>18 DEF UnregisterClient, hostVars, TypeOK
<1>19. ASSUME NEW s \in Sessions, CloseOwn(s)
      PROVE  listener' \in [Listeners -> Listener \cup {None}]
  <2>1. CASE sessClosed[s]
    BY <1>19, <2>1 DEF CloseOwn, hostVars, TypeOK
  <2>2. CASE ~sessClosed[s]
    <3>1. listener' = Live(Closed({routes[s][r] : r \in Routes} \ {None}), routes', job)
      BY <1>19, <2>2 DEF CloseOwn, CloseSession
    <3> QED
      BY <3>1, ListenersOf, ClosedEffect, LiveEffect
  <2> QED
    BY <2>1, <2>2
<1>20. ASSUME NEW s \in Sessions, MarkOwn(s)
      PROVE  listener' \in [Listeners -> Listener \cup {None}]
  BY <1>20 DEF MarkOwn, hostVars, TypeOK
<1>21. ASSUME NEW r \in Routes, DeleteRoute(r)
      PROVE  listener' \in [Listeners -> Listener \cup {None}]
  BY <1>21 DEF DeleteRoute, hostVars, TypeOK
<1>22. ASSUME NEW r \in Routes, NEW req \in Requests[r], SaveRoute(r, req)
      PROVE  listener' \in [Listeners -> Listener \cup {None}]
  BY <1>22 DEF SaveRoute, hostVars, TypeOK
<1>23. CASE UNCHANGED vars
  BY <1>23 DEF vars, hostVars, TypeOK
<1> QED
  BY <1>1, <1>2, <1>3, <1>4, <1>5, <1>6, <1>7, <1>8, <1>9, <1>10, <1>11, <1>12, <1>13, <1>14,
     <1>15, <1>16, <1>17, <1>18, <1>19, <1>20, <1>21, <1>22, <1>23, NextCases

-----------------------------------------------------------------------------
\* The registry, and what the sessions were sent, keep their types.
LEMMA SessionTypeStep ==
    ASSUME TypeOK, JobsOK, ReplacedOK, [Next]_vars
    PROVE  /\ current' \in Sessions \cup {None}
           /\ replaced' \in [Sessions -> Sessions \cup {None}]
           /\ sessClosed' \in [Sessions -> BOOLEAN]
           /\ sent' \in [Sessions -> SUBSET Routes]
<1> USE DEF TypeOK, sessionVars, hostVars
<1>1. CASE SyncList
  BY <1>1 DEF SyncList
<1>2. CASE SyncSessions
  BY <1>2 DEF SyncSessions
<1>3. CASE Restart
  BY <1>3 DEF Restart
<1>4. ASSUME NEW w \in Workers, Begin(w)
      PROVE  /\ current' \in Sessions \cup {None}
           /\ replaced' \in [Sessions -> Sessions \cup {None}]
           /\ sessClosed' \in [Sessions -> BOOLEAN]
           /\ sent' \in [Sessions -> SUBSET Routes]
  BY <1>4 DEF Begin
<1>5. ASSUME NEW w \in Workers, VisitCurrent(w)
      PROVE  /\ current' \in Sessions \cup {None}
           /\ replaced' \in [Sessions -> Sessions \cup {None}]
           /\ sessClosed' \in [Sessions -> BOOLEAN]
           /\ sent' \in [Sessions -> SUBSET Routes]
  BY <1>5 DEF VisitCurrent
<1>6. ASSUME NEW w \in Workers, Unpublish(w)
      PROVE  /\ current' \in Sessions \cup {None}
           /\ replaced' \in [Sessions -> Sessions \cup {None}]
           /\ sessClosed' \in [Sessions -> BOOLEAN]
           /\ sent' \in [Sessions -> SUBSET Routes]
  BY <1>6 DEF Unpublish
<1>7. ASSUME NEW w \in Workers, ClearRoute(w)
      PROVE  /\ current' \in Sessions \cup {None}
           /\ replaced' \in [Sessions -> Sessions \cup {None}]
           /\ sessClosed' \in [Sessions -> BOOLEAN]
           /\ sent' \in [Sessions -> SUBSET Routes]
  BY <1>7 DEF ClearRoute
<1>8. ASSUME NEW w \in Workers, VisitEnd(w)
      PROVE  /\ current' \in Sessions \cup {None}
           /\ replaced' \in [Sessions -> Sessions \cup {None}]
           /\ sessClosed' \in [Sessions -> BOOLEAN]
           /\ sent' \in [Sessions -> SUBSET Routes]
  BY <1>8 DEF VisitEnd
<1>9. ASSUME NEW w \in Workers, ApplyNext(w)
      PROVE  /\ current' \in Sessions \cup {None}
           /\ replaced' \in [Sessions -> Sessions \cup {None}]
           /\ sessClosed' \in [Sessions -> BOOLEAN]
           /\ sent' \in [Sessions -> SUBSET Routes]
  BY <1>9 DEF ApplyNext
<1>10. ASSUME NEW w \in Workers, Reserve(w)
      PROVE  /\ current' \in Sessions \cup {None}
           /\ replaced' \in [Sessions -> Sessions \cup {None}]
           /\ sessClosed' \in [Sessions -> BOOLEAN]
           /\ sent' \in [Sessions -> SUBSET Routes]
  BY <1>10 DEF Reserve
<1>11. ASSUME NEW w \in Workers, Listen(w)
      PROVE  /\ current' \in Sessions \cup {None}
           /\ replaced' \in [Sessions -> Sessions \cup {None}]
           /\ sessClosed' \in [Sessions -> BOOLEAN]
           /\ sent' \in [Sessions -> SUBSET Routes]
  BY <1>11 DEF Listen
<1>12. ASSUME NEW w \in Workers, Publish(w)
      PROVE  /\ current' \in Sessions \cup {None}
           /\ replaced' \in [Sessions -> Sessions \cup {None}]
           /\ sessClosed' \in [Sessions -> BOOLEAN]
           /\ sent' \in [Sessions -> SUBSET Routes]
  BY <1>12 DEF Publish
<1>13. ASSUME NEW w \in Workers, WriteRuntime(w)
      PROVE  /\ current' \in Sessions \cup {None}
           /\ replaced' \in [Sessions -> Sessions \cup {None}]
           /\ sessClosed' \in [Sessions -> BOOLEAN]
           /\ sent' \in [Sessions -> SUBSET Routes]
  BY <1>13 DEF WriteRuntime
<1>14. ASSUME NEW w \in Workers, SendRoutes(w)
      PROVE  /\ current' \in Sessions \cup {None}
           /\ replaced' \in [Sessions -> Sessions \cup {None}]
           /\ sessClosed' \in [Sessions -> BOOLEAN]
           /\ sent' \in [Sessions -> SUBSET Routes]
  BY <1>14 DEF SendRoutes
<1>15. ASSUME NEW s \in Sessions, RegisterClient(s)
      PROVE  /\ current' \in Sessions \cup {None}
           /\ replaced' \in [Sessions -> Sessions \cup {None}]
           /\ sessClosed' \in [Sessions -> BOOLEAN]
           /\ sent' \in [Sessions -> SUBSET Routes]
  BY <1>15 DEF RegisterClient
<1>16. ASSUME NEW s \in Sessions, CloseReplaced(s)
      PROVE  /\ current' \in Sessions \cup {None}
           /\ replaced' \in [Sessions -> Sessions \cup {None}]
           /\ sessClosed' \in [Sessions -> BOOLEAN]
           /\ sent' \in [Sessions -> SUBSET Routes]
  BY <1>16 DEF CloseReplaced, CloseSession, ReplacedOK
<1>17. ASSUME NEW s \in Sessions, HandlerList(s)
      PROVE  /\ current' \in Sessions \cup {None}
           /\ replaced' \in [Sessions -> Sessions \cup {None}]
           /\ sessClosed' \in [Sessions -> BOOLEAN]
           /\ sent' \in [Sessions -> SUBSET Routes]
  BY <1>17 DEF HandlerList
<1>18. ASSUME NEW s \in Sessions, UnregisterClient(s)
      PROVE  /\ current' \in Sessions \cup {None}
           /\ replaced' \in [Sessions -> Sessions \cup {None}]
           /\ sessClosed' \in [Sessions -> BOOLEAN]
           /\ sent' \in [Sessions -> SUBSET Routes]
  BY <1>18 DEF UnregisterClient
<1>19. ASSUME NEW s \in Sessions, CloseOwn(s)
      PROVE  /\ current' \in Sessions \cup {None}
           /\ replaced' \in [Sessions -> Sessions \cup {None}]
           /\ sessClosed' \in [Sessions -> BOOLEAN]
           /\ sent' \in [Sessions -> SUBSET Routes]
  BY <1>19 DEF CloseOwn, CloseSession
<1>20. ASSUME NEW s \in Sessions, MarkOwn(s)
      PROVE  /\ current' \in Sessions \cup {None}
           /\ replaced' \in [Sessions -> Sessions \cup {None}]
           /\ sessClosed' \in [Sessions -> BOOLEAN]
           /\ sent' \in [Sessions -> SUBSET Routes]
  BY <1>20 DEF MarkOwn
<1>21. ASSUME NEW r \in Routes, DeleteRoute(r)
      PROVE  /\ current' \in Sessions \cup {None}
           /\ replaced' \in [Sessions -> Sessions \cup {None}]
           /\ sessClosed' \in [Sessions -> BOOLEAN]
           /\ sent' \in [Sessions -> SUBSET Routes]
  BY <1>21 DEF DeleteRoute
<1>22. ASSUME NEW r \in Routes, NEW req \in Requests[r], SaveRoute(r, req)
      PROVE  /\ current' \in Sessions \cup {None}
           /\ replaced' \in [Sessions -> Sessions \cup {None}]
           /\ sessClosed' \in [Sessions -> BOOLEAN]
           /\ sent' \in [Sessions -> SUBSET Routes]
  BY <1>22 DEF SaveRoute
<1>23. CASE UNCHANGED vars
  BY <1>23 DEF vars
<1> QED
  BY <1>1, <1>2, <1>3, <1>4, <1>5, <1>6, <1>7, <1>8, <1>9, <1>10, <1>11, <1>12, <1>13, <1>14,
     <1>15, <1>16, <1>17, <1>18, <1>19, <1>20, <1>21, <1>22, <1>23, NextCases

-----------------------------------------------------------------------------
\* So do the maps of listeners.
LEMMA RoutesTypeStep ==
    ASSUME TypeOK, JobsOK, ReplacedOK, [Next]_vars
    PROVE  /\ routes' \in [Sessions -> [Routes -> Listeners \cup {None}]]
           /\ overlapped' \in SUBSET Sessions
<1> USE DEF TypeOK, sessionVars, hostVars
<1>1. CASE SyncList
  BY <1>1 DEF SyncList
<1>2. CASE SyncSessions
  BY <1>2 DEF SyncSessions
<1>3. CASE Restart
  BY <1>3 DEF Restart, NoRoutes
<1>4. ASSUME NEW w \in Workers, Begin(w)
      PROVE  /\ routes' \in [Sessions -> [Routes -> Listeners \cup {None}]]
           /\ overlapped' \in SUBSET Sessions
  <2>1. job[w].target \in Sessions
    BY <1>4 DEF Begin, JobsOK, GoodJob, Job, Applying
  <2> QED
    BY <1>4, <2>1 DEF Begin
<1>5. ASSUME NEW w \in Workers, VisitCurrent(w)
      PROVE  /\ routes' \in [Sessions -> [Routes -> Listeners \cup {None}]]
           /\ overlapped' \in SUBSET Sessions
  BY <1>5 DEF VisitCurrent
<1>6. ASSUME NEW w \in Workers, Unpublish(w)
      PROVE  /\ routes' \in [Sessions -> [Routes -> Listeners \cup {None}]]
           /\ overlapped' \in SUBSET Sessions
  BY <1>6 DEF Unpublish
<1>7. ASSUME NEW w \in Workers, ClearRoute(w)
      PROVE  /\ routes' \in [Sessions -> [Routes -> Listeners \cup {None}]]
           /\ overlapped' \in SUBSET Sessions
  BY <1>7 DEF ClearRoute
<1>8. ASSUME NEW w \in Workers, VisitEnd(w)
      PROVE  /\ routes' \in [Sessions -> [Routes -> Listeners \cup {None}]]
           /\ overlapped' \in SUBSET Sessions
  BY <1>8 DEF VisitEnd
<1>9. ASSUME NEW w \in Workers, ApplyNext(w)
      PROVE  /\ routes' \in [Sessions -> [Routes -> Listeners \cup {None}]]
           /\ overlapped' \in SUBSET Sessions
  BY <1>9 DEF ApplyNext
<1>10. ASSUME NEW w \in Workers, Reserve(w)
      PROVE  /\ routes' \in [Sessions -> [Routes -> Listeners \cup {None}]]
           /\ overlapped' \in SUBSET Sessions
  BY <1>10 DEF Reserve
<1>11. ASSUME NEW w \in Workers, Listen(w)
      PROVE  /\ routes' \in [Sessions -> [Routes -> Listeners \cup {None}]]
           /\ overlapped' \in SUBSET Sessions
  BY <1>11 DEF Listen
<1>12. ASSUME NEW w \in Workers, Publish(w)
      PROVE  /\ routes' \in [Sessions -> [Routes -> Listeners \cup {None}]]
           /\ overlapped' \in SUBSET Sessions
  <2>1. job[w].created \in Listeners /\ job[w].target \in Sessions /\ job[w].route \in Routes
    BY <1>12 DEF Publish, JobsOK, GoodJob, Job, Applying, ApplyStates, InHand
  <2>2. [routes[job[w].target] EXCEPT ![job[w].route] = job[w].created] \in [Routes -> Listeners \cup {None}]
    BY <2>1
  <2>3. [routes EXCEPT ![job[w].target][job[w].route] = job[w].created]
          \in [Sessions -> [Routes -> Listeners \cup {None}]]
    BY <2>2
  <2> QED
    BY <1>12, <2>3 DEF Publish
<1>13. ASSUME NEW w \in Workers, WriteRuntime(w)
      PROVE  /\ routes' \in [Sessions -> [Routes -> Listeners \cup {None}]]
           /\ overlapped' \in SUBSET Sessions
  BY <1>13 DEF WriteRuntime
<1>14. ASSUME NEW w \in Workers, SendRoutes(w)
      PROVE  /\ routes' \in [Sessions -> [Routes -> Listeners \cup {None}]]
           /\ overlapped' \in SUBSET Sessions
  BY <1>14 DEF SendRoutes
<1>15. ASSUME NEW s \in Sessions, RegisterClient(s)
      PROVE  /\ routes' \in [Sessions -> [Routes -> Listeners \cup {None}]]
           /\ overlapped' \in SUBSET Sessions
  BY <1>15 DEF RegisterClient
<1>16. ASSUME NEW s \in Sessions, CloseReplaced(s)
      PROVE  /\ routes' \in [Sessions -> [Routes -> Listeners \cup {None}]]
           /\ overlapped' \in SUBSET Sessions
  BY <1>16 DEF CloseReplaced, CloseSession, ReplacedOK, NoRoutes
<1>17. ASSUME NEW s \in Sessions, HandlerList(s)
      PROVE  /\ routes' \in [Sessions -> [Routes -> Listeners \cup {None}]]
           /\ overlapped' \in SUBSET Sessions
  BY <1>17 DEF HandlerList
<1>18. ASSUME NEW s \in Sessions, UnregisterClient(s)
      PROVE  /\ routes' \in [Sessions -> [Routes -> Listeners \cup {None}]]
           /\ overlapped' \in SUBSET Sessions
  BY <1>18 DEF UnregisterClient
<1>19. ASSUME NEW s \in Sessions, CloseOwn(s)
      PROVE  /\ routes' \in [Sessions -> [Routes -> Listeners \cup {None}]]
           /\ overlapped' \in SUBSET Sessions
  BY <1>19 DEF CloseOwn, CloseSession, NoRoutes
<1>20. ASSUME NEW s \in Sessions, MarkOwn(s)
      PROVE  /\ routes' \in [Sessions -> [Routes -> Listeners \cup {None}]]
           /\ overlapped' \in SUBSET Sessions
  BY <1>20 DEF MarkOwn
<1>21. ASSUME NEW r \in Routes, DeleteRoute(r)
      PROVE  /\ routes' \in [Sessions -> [Routes -> Listeners \cup {None}]]
           /\ overlapped' \in SUBSET Sessions
  BY <1>21 DEF DeleteRoute
<1>22. ASSUME NEW r \in Routes, NEW req \in Requests[r], SaveRoute(r, req)
      PROVE  /\ routes' \in [Sessions -> [Routes -> Listeners \cup {None}]]
           /\ overlapped' \in SUBSET Sessions
  BY <1>22 DEF SaveRoute
<1>23. CASE UNCHANGED vars
  BY <1>23 DEF vars
<1> QED
  BY <1>1, <1>2, <1>3, <1>4, <1>5, <1>6, <1>7, <1>8, <1>9, <1>10, <1>11, <1>12, <1>13, <1>14,
     <1>15, <1>16, <1>17, <1>18, <1>19, <1>20, <1>21, <1>22, <1>23, NextCases

\* Every step of the system keeps the types.
LEMMA TypeOKStep ==
    ASSUME TypeOK, JobsOK, ReplacedOK, References, [Next]_vars
    PROVE  TypeOK'
<1>1. JobsOK'
  BY JobsStep DEF References
<1>2. job' \in [Workers -> Job]
  BY <1>1 DEF JobsOK, GoodJob
<1> QED
  BY <1>2, RowsTypeStep, ListenerTypeStep, SessionTypeStep, RoutesTypeStep DEF TypeOK

-----------------------------------------------------------------------------
(* Who points to a listener *)

\* A step that creates, publishes and closes none keeps what is known of them.
LEMMA QuietReferences ==
    ASSUME References, UNCHANGED <<routes, listener>>, NEW w \in Workers, Others(w),
           job'[w].created = None, job'[w].snapshot \in {job[w].snapshot, NoRoutes}
    PROVE  References'
<1>1. ReferencesLive'
  BY DEF References, ReferencesLive, Others, NoRoutes
<1>2. CreatedIsPrivate'
  BY DEF References, CreatedIsPrivate, Others, NoRoutes, IsOpen
<1> QED
  BY <1>1, <1>2 DEF References

\* Closing listeners and collecting the closed ones keeps it too, for those that
\* are still published, copied or created afterwards.
LEMMA ClosedReferences ==
    ASSUME TypeOK, JobsOK, References, NEW L \in SUBSET Listeners, \A l \in L : listener[l] # None,
           NEW w \in Workers, Others(w), job'[w].created = None,
           job'[w].snapshot \in {job[w].snapshot, NoRoutes},
           \A v \in Workers \ {w} : job[v].created \notin L,
           routes' \in [Sessions -> [Routes -> Listeners \cup {None}]],
           \A s \in Sessions, r \in Routes : routes'[s][r] \in {routes[s][r], None},
           \/ listener' = Closed(L)
           \/ listener' = Live(Closed(L), routes', job)
           \/ listener' = Live(Closed(L), routes', job')
    PROVE  References'
<1>1. Closed(L) \in [Listeners -> Listener \cup {None}]
  BY ClosedEffect
<1>2. \A v \in Workers, r \in Routes : job'[v].snapshot[r] \in {job[v].snapshot[r], None}
  BY DEF Others, NoRoutes
<1>3. ASSUME NEW l \in Listeners, listener[l] # None,
             \/ \E s \in Sessions, r \in Routes : routes'[s][r] = l
             \/ \E v \in Workers, r \in Routes : job'[v].snapshot[r] = l
             \/ \E v \in Workers : job'[v].created = l
      PROVE  /\ listener'[l] # None /\ listener'[l].sess = listener[l].sess
             /\ listener'[l].route = listener[l].route
             /\ l \notin L => listener'[l] = listener[l]
  <2>1. /\ Closed(L)[l] # None /\ Closed(L)[l].sess = listener[l].sess
        /\ Closed(L)[l].route = listener[l].route
        /\ l \notin L => Closed(L)[l] = listener[l]
    BY <1>3, ClosedEffect
  <2>2. CASE \E v \in Workers : job'[v].created = l
    <3>1. PICK v \in Workers \ {w} : job[v].created = l
      BY <2>2, NoneAssumption DEF Others
    <3>2. Closed(L)[l].open
      BY <2>1, <3>1, NoneAssumption DEF References, CreatedIsPrivate, IsOpen
    <3> QED
      BY <1>1, <2>1, <3>2, LiveEffect
  <2>3. CASE \E s \in Sessions, r \in Routes : routes'[s][r] = l
    BY <1>1, <2>1, <2>3, LiveEffect
  <2>4. CASE \E v \in Workers, r \in Routes : job'[v].snapshot[r] = l
    <3>1. PICK v \in Workers, r \in Routes : job'[v].snapshot[r] = l
      BY <2>4
    <3>2. job[v].snapshot[r] = l
      BY <1>2, <3>1, NoneAssumption
    <3> QED
      BY <1>1, <2>1, <3>1, <3>2, LiveEffect
  <2> QED
    BY <1>3, <2>2, <2>3, <2>4
<1>4. \A v \in Workers, r \in Routes : job'[v].snapshot[r] # None =>
        /\ job'[v].snapshot[r] \in Listeners /\ job'[v].snapshot[r] = job[v].snapshot[r]
        /\ listener[job'[v].snapshot[r]] # None
  BY <1>2 DEF JobsOK, GoodJob, Job, References, ReferencesLive
<1>5. \A s \in Sessions, r \in Routes : routes'[s][r] # None =>
        /\ routes'[s][r] \in Listeners /\ routes'[s][r] = routes[s][r]
        /\ listener[routes'[s][r]] # None
  BY DEF References, ReferencesLive
<1>6. \A v \in Workers : job'[v].created # None =>
        /\ v # w /\ job'[v] = job[v] /\ job[v].created \in Listeners \ L
        /\ listener[job[v].created] # None
  BY DEF Others, JobsOK, GoodJob, Job, References, CreatedIsPrivate, IsOpen
<1>7. ReferencesLive'
  BY <1>3, <1>4, <1>5 DEF References, ReferencesLive
<1>8. ASSUME NEW v \in Workers, job'[v].created # None
      PROVE  /\ listener'[job'[v].created] # None /\ listener'[job'[v].created].open
             /\ listener'[job'[v].created].sess = job'[v].target
             /\ listener'[job'[v].created].route = job'[v].route
             /\ \A u \in Workers, r \in Routes : job'[u].snapshot[r] # job'[v].created
             /\ \A s \in Sessions, r \in Routes : routes'[s][r] # job'[v].created
             /\ \A u \in Workers \ {v} : job'[u].created # job'[v].created
  <2>1. /\ v # w /\ job'[v] = job[v] /\ job[v].created \in Listeners \ L
        /\ listener[job[v].created] # None
    BY <1>6, <1>8
  <2>2. listener'[job[v].created] = listener[job[v].created]
    BY <1>3, <2>1
  <2>3. /\ listener'[job'[v].created] # None /\ listener'[job'[v].created].open
        /\ listener'[job'[v].created].sess = job'[v].target
        /\ listener'[job'[v].created].route = job'[v].route
    BY <1>8, <2>1, <2>2 DEF References, CreatedIsPrivate, IsOpen
  <2>4. \A u \in Workers, r \in Routes : job'[u].snapshot[r] # job'[v].created
    BY <1>2, <1>8, <2>1 DEF References, CreatedIsPrivate
  <2>5. \A s \in Sessions, r \in Routes : routes'[s][r] # job'[v].created
    BY <1>8, <2>1 DEF References, CreatedIsPrivate
  <2>6. \A u \in Workers \ {v} : job'[u].created # job'[v].created
    BY <1>6, <1>8, <2>1 DEF References, CreatedIsPrivate
  <2> QED
    BY <2>3, <2>4, <2>5, <2>6
<1>9. CreatedIsPrivate'
  BY <1>8 DEF CreatedIsPrivate, IsOpen
<1> QED
  BY <1>7, <1>9 DEF References

\* Closing nothing changes nothing.
LEMMA NothingClosed == TypeOK => Closed({}) = listener
BY DEF Closed, TypeOK

\* Closing a session closes what it has published, never what is being created.
LEMMA CloseSessionReferences ==
    ASSUME TypeOK, JobsOK, References, NEW t \in Sessions, CloseSession(t),
           routes' \in [Sessions -> [Routes -> Listeners \cup {None}]],
           NEW w \in Workers, Others(w), job'[w].created = None,
           job'[w].snapshot \in {job[w].snapshot, NoRoutes}
    PROVE  References'
<1> DEFINE L == {routes[t][r] : r \in Routes} \ {None}
<1>1. L \in SUBSET Listeners /\ \A l \in L : listener[l] # None
  BY ListenersOf DEF References
<1>2. \A v \in Workers : job[v].created \notin L
  BY DEF References, CreatedIsPrivate
<1>3. \A s \in Sessions, r \in Routes : routes'[s][r] \in {routes[s][r], None}
  BY DEF CloseSession, NoRoutes, TypeOK
<1>4. listener' = Live(Closed(L), routes', job)
  BY DEF CloseSession
<1> HIDE DEF L
<1> QED
  BY <1>1, <1>2, <1>3, <1>4, ClosedReferences

\* A new listener is open, of the session and the route in hand.
LEMMA NewObjectFields ==
    ASSUME NEW w, NEW p
    PROVE  NewObject(w, p).open /\ NewObject(w, p).sess = job[w].target /\ NewObject(w, p).route = job[w].route
BY DEF NewObject

\* Nobody's pointer suffers from a step that only adds or relabels objects.
LEMMA PointersKept ==
    ASSUME JobsOK, References, TypeOK, UNCHANGED routes, NEW w \in Workers, Others(w),
           job'[w].snapshot \in {job[w].snapshot, NoRoutes},
           \A l \in Listeners : listener[l] # None =>
               /\ listener'[l] # None /\ listener'[l].sess = listener[l].sess
               /\ listener'[l].route = listener[l].route
    PROVE  ReferencesLive'
<1>1. \A v \in Workers, r \in Routes : job'[v].snapshot[r] # None =>
        /\ job'[v].snapshot[r] \in Listeners /\ listener[job'[v].snapshot[r]] # None
  BY DEF Others, NoRoutes, JobsOK, GoodJob, Job, References, ReferencesLive
<1>2. \A s \in Sessions, r \in Routes : routes[s][r] # None => routes[s][r] \in Listeners
  BY DEF TypeOK
<1> QED
  BY <1>1, <1>2 DEF References, ReferencesLive

-----------------------------------------------------------------------------
\* Whoever points to a listener points to the object it was created as.
LEMMA ReferencesStep ==
    ASSUME TypeOK, JobsOK, ReplacedOK, References, [Next]_vars
    PROVE  References'
<1>1. CASE SyncList
  <2>1. job[Syncer].created = None
    BY <1>1, WorkerOf DEF SyncList, JobsOK, GoodJob
  <2> QED
    BY <1>1, <2>1, SyncListJob, QuietReferences, WorkerOf DEF SyncList, hostVars, Same, Finished
<1>2. CASE SyncSessions
  <2>1. job[Syncer].created = None
    BY <1>2, WorkerOf DEF SyncSessions, JobsOK, GoodJob
  <2> QED
    BY <1>2, <2>1, SyncSessionsJob, QuietReferences, WorkerOf DEF SyncSessions, hostVars, Same, Finished
<1>3. CASE Restart
  BY <1>3 DEF Restart, References, ReferencesLive, CreatedIsPrivate, NoRoutes, NoJob
<1>4. ASSUME NEW w \in Workers, Begin(w)
      PROVE  References'
  <2>1. job[w].created = None /\ (job[w].target \in Sessions)
    BY <1>4 DEF Begin, JobsOK, GoodJob, Job, Applying
  <2>2. UNCHANGED <<routes, listener>> /\ Others(w) /\ job'[w].created = None
    BY <1>4, <2>1, BeginJob DEF Begin, hostVars, Finished
  <2>3. job'[w].snapshot \in {NoRoutes, routes[job[w].target]}
    BY <1>4, BeginJob DEF Finished
  <2>4. ReferencesLive'
    BY <2>1, <2>2, <2>3 DEF References, ReferencesLive, Others, NoRoutes
  <2>5. CreatedIsPrivate'
    BY <2>1, <2>2, <2>3 DEF References, CreatedIsPrivate, Others, NoRoutes, IsOpen
  <2> QED
    BY <2>4, <2>5 DEF References
<1>5. ASSUME NEW w \in Workers, VisitCurrent(w)
      PROVE  References'
  <2>1. job[w].created = None
    BY <1>5 DEF VisitCurrent, JobsOK, GoodJob
  <2>2. /\ Others(w) /\ job'[w].created = None /\ UNCHANGED routes
        /\ job'[w].snapshot \in {job[w].snapshot, NoRoutes}
    BY <1>5, <2>1, VisitCurrentJob DEF VisitCurrent, Same, Finished
  <2>3. PICK r \in job[w].visit :
          \/ listener' = Live(listener, routes, job')
          \/ listener' = Closed({job[w].snapshot[r]})
          \/ UNCHANGED listener
    BY <1>5 DEF VisitCurrent
  <2>4. CASE listener' = Closed({job[w].snapshot[r]})
    <3> DEFINE L == {job[w].snapshot[r]}
    <3>1. L \in SUBSET Listeners /\ \A l \in L : listener[l] # None
      BY VisitedListener DEF References
    <3>2. r \in Routes
      BY DEF JobsOK, GoodJob, Job
    <3>3. \A v \in Workers : job[v].created \notin L
      BY <3>1, <3>2, NoneAssumption DEF References, CreatedIsPrivate
    <3>4. routes' \in [Sessions -> [Routes -> Listeners \cup {None}]]
      BY RoutesTypeStep
    <3>5. \A s \in Sessions, q \in Routes : routes'[s][q] \in {routes[s][q], None}
      BY <2>2
    <3>6. listener' = Closed(L)
      BY <2>4
    <3> HIDE DEF L
    <3> QED
      BY <2>2, <3>1, <3>3, <3>4, <3>5, <3>6, ClosedReferences
  <2>5. CASE listener' = Live(listener, routes, job')
    <3>1. listener' = Live(Closed({}), routes', job')
      BY <2>2, <2>5, NothingClosed
    <3> QED
      BY <2>2, <3>1, RoutesTypeStep, ClosedReferences
  <2>6. CASE UNCHANGED listener
    BY <2>2, <2>6, QuietReferences
  <2> QED
    BY <2>3, <2>4, <2>5, <2>6
<1>6. ASSUME NEW w \in Workers, Unpublish(w)
      PROVE  References'
  <2>1. job[w].created = None
    BY <1>6 DEF Unpublish, JobsOK, GoodJob
  <2>2. /\ Others(w) /\ job'[w].created = None /\ job'[w].snapshot = job[w].snapshot
        /\ listener' = Closed({})
    BY <1>6, <2>1, UnpublishJob, NothingClosed DEF Unpublish, Same
  <2>3. \A s \in Sessions, r \in Routes : routes'[s][r] \in {routes[s][r], None}
    BY <1>6 DEF Unpublish, TypeOK
  <2> QED
    BY <2>2, <2>3, RoutesTypeStep, ClosedReferences
<1>7. ASSUME NEW w \in Workers, ClearRoute(w)
      PROVE  References'
  <2>1. job[w].created = None
    BY <1>7, WorkerOf DEF ClearRoute, JobsOK, GoodJob
  <2> QED
    BY <1>7, <2>1, ClearRouteJob, QuietReferences, WorkerOf DEF ClearRoute, hostVars, Same, Finished
<1>8. ASSUME NEW w \in Workers, VisitEnd(w)
      PROVE  References'
  <2>1. job[w].created = None
    BY <1>8 DEF VisitEnd, JobsOK, GoodJob
  <2>2. /\ Others(w) /\ job'[w].created = None /\ job'[w].snapshot = NoRoutes /\ UNCHANGED routes
        /\ listener' = Live(Closed({}), routes', job')
    BY <1>8, <2>1, VisitEndJob, NothingClosed DEF VisitEnd
  <2> QED
    BY <2>2, RoutesTypeStep, ClosedReferences
<1>9. ASSUME NEW w \in Workers, ApplyNext(w)
      PROVE  References'
  <2>1. job[w].created = None /\ job[w].target \in Sessions
    BY <1>9 DEF ApplyNext, JobsOK, GoodJob, Job, Applying, ApplyStates
  <2>2. /\ Others(w) /\ job'[w].created = None /\ UNCHANGED routes
        /\ job'[w].snapshot \in {job[w].snapshot, NoRoutes}
    BY <1>9, <2>1, ApplyNextJob DEF ApplyNext, Same, Finished
  <2>3. PICK r \in job[w].todo :
          \/ UNCHANGED listener
          \/ /\ routes[job[w].target][r] # None /\ Exposable(job[w].desired[r])
             /\ listener' = [listener EXCEPT ![routes[job[w].target][r]].pub = job[w].desired[r].pub]
    BY <1>9 DEF ApplyNext
  <2>4. CASE UNCHANGED listener
    BY <2>2, <2>4, QuietReferences
  <2>5. CASE /\ routes[job[w].target][r] # None /\ Exposable(job[w].desired[r])
             /\ listener' = [listener EXCEPT ![routes[job[w].target][r]].pub = job[w].desired[r].pub]
    <3> DEFINE k == routes[job[w].target][r]
    <3>1. r \in Routes
      BY DEF JobsOK, GoodJob, Job
    <3>2. k \in Listeners /\ listener[k] \in Listener
      BY <2>1, <2>5, <3>1 DEF TypeOK, References, ReferencesLive
    <3>3. [listener[k] EXCEPT !.pub = job[w].desired[r].pub] \in Listener
      BY <2>5, <3>2, RefreshedListener
    <3>4. \A l \in Listeners \ {k} : listener'[l] = listener[l]
      BY <2>5 DEF TypeOK
    <3>5. listener'[k] = [listener[k] EXCEPT !.pub = job[w].desired[r].pub]
      BY <2>5, <3>2 DEF TypeOK
    <3>6. /\ listener'[k] # None /\ listener'[k].sess = listener[k].sess
          /\ listener'[k].route = listener[k].route /\ listener'[k].open = listener[k].open
      BY <3>2, <3>3, <3>5, ObjectAssumption DEF Listener
    <3>7. \A l \in Listeners : listener[l] # None =>
            /\ listener'[l] # None /\ listener'[l].sess = listener[l].sess
            /\ listener'[l].route = listener[l].route /\ listener'[l].open = listener[l].open
      BY <3>4, <3>6
    <3>8. ReferencesLive'
      BY <2>2, <3>7, PointersKept
    <3>9. \A v \in Workers : job[v].created # None => job[v].created \in Listeners
      BY DEF JobsOK, GoodJob, Job
    <3>10. CreatedIsPrivate'
      BY <2>2, <3>7, <3>9 DEF References, CreatedIsPrivate, Others, NoRoutes, IsOpen
    <3> QED
      BY <3>8, <3>10 DEF References
  <2> QED
    BY <2>3, <2>4, <2>5
<1>10. ASSUME NEW w \in Workers, Reserve(w)
      PROVE  References'
  <2>1. job[w].created = None
    BY <1>10, WorkerOf DEF Reserve, JobsOK, GoodJob
  <2> QED
    BY <1>10, <2>1, ReserveJob, QuietReferences, WorkerOf DEF Reserve, hostVars, Same, Finished
<1>11. ASSUME NEW w \in Workers, Listen(w)
      PROVE  References'
  <2>1. job[w].created = None
    BY <1>11 DEF Listen, JobsOK, GoodJob
  <2>2. CASE job'[w].pc = "write"
    BY <1>11, <2>1, <2>2, ListenJob, QuietReferences DEF Listen, Same
  <2>3. CASE job'[w].pc = "publish"
    <3> DEFINE k == NewListener
    <3>1. /\ Others(w) /\ job'[w].target = job[w].target /\ job'[w].route = job[w].route
          /\ job'[w].created = k /\ job'[w].snapshot = job[w].snapshot /\ CreateListener(w)
      BY <1>11, <2>3, ListenJob
    <3>2. PICK p \in ListenPorts(w) : Unused # {} /\ listener' = [listener EXCEPT ![k] = NewObject(w, p)]
      BY <3>1 DEF CreateListener
    <3>3. k \in Listeners /\ listener[k] = None
      BY <3>2, NewListenerEffect
    <3>4. listener'[k] = NewObject(w, p) /\ \A l \in Listeners \ {k} : listener'[l] = listener[l]
      BY <3>2, <3>3 DEF TypeOK
    <3>5. /\ listener'[k] # None /\ listener'[k].open
          /\ listener'[k].sess = job[w].target /\ listener'[k].route = job[w].route
      <4>1. NewObject(w, p) \in Listener
        BY <1>11, NewObjectType DEF Listen
      <4> QED
        BY <3>4, <4>1, ObjectAssumption, NewObjectFields
    <3>6. UNCHANGED routes
      BY <1>11 DEF Listen
    <3>7. /\ \A s \in Sessions, r \in Routes : routes[s][r] # k
          /\ \A v \in Workers, r \in Routes : job[v].snapshot[r] # k
          /\ \A v \in Workers : job[v].created # k
      BY <3>3, NoneAssumption DEF References, ReferencesLive, CreatedIsPrivate, IsOpen
    <3>8. ReferencesLive'
      BY <3>1, <3>3, <3>4, <3>6, PointersKept
    <3>9. \A v \in Workers : job[v].created # None => job[v].created \in Listeners
      BY DEF JobsOK, GoodJob, Job
    <3>10. CreatedIsPrivate'
      BY <2>1, <3>1, <3>3, <3>4, <3>5, <3>6, <3>7, <3>9
         DEF References, CreatedIsPrivate, Others, IsOpen
    <3> QED
      BY <3>8, <3>10 DEF References
  <2> QED
    BY <1>11, <2>2, <2>3, ListenJob
<1>12. ASSUME NEW w \in Workers, Publish(w)
      PROVE  References'
  <2>1. job[w].created # None /\ job[w].target \in Sessions /\ job[w].route \in Routes
    BY <1>12 DEF Publish, JobsOK, GoodJob, Job, Applying, ApplyStates, InHand
  <2>2. CASE sessClosed[job[w].target]
    <3>1. /\ Others(w) /\ job'[w].created = None /\ job'[w].snapshot = NoRoutes /\ UNCHANGED routes
          /\ listener' = Live(Closed({job[w].created}), routes', job')
      BY <1>12, <2>2, PublishJob DEF Publish, Finished
    <3>2. \A v \in Workers \ {w} : job[v].created \notin {job[w].created}
      BY <2>1 DEF References, CreatedIsPrivate
    <3> QED
      BY <2>1, <3>1, <3>2, CreatedListener, RoutesTypeStep, ClosedReferences DEF References
  <2>3. CASE ~sessClosed[job[w].target]
    <3>1. /\ Others(w) /\ job'[w].created = None /\ job'[w].snapshot = job[w].snapshot
          /\ UNCHANGED listener
          /\ routes' = [routes EXCEPT ![job[w].target][job[w].route] = job[w].created]
      BY <1>12, <2>3, PublishJob DEF Publish, Finished
    <3>2. \A s \in Sessions, r \in Routes :
            \/ routes'[s][r] = routes[s][r]
            \/ s = job[w].target /\ r = job[w].route /\ routes'[s][r] = job[w].created
      BY <3>1 DEF TypeOK
    <3>3. ReferencesLive'
      BY <2>1, <3>1, <3>2 DEF References, ReferencesLive, CreatedIsPrivate, Others, IsOpen
    <3>4. CreatedIsPrivate'
      BY <2>1, <3>1, <3>2 DEF References, CreatedIsPrivate, Others, IsOpen
    <3> QED
      BY <3>3, <3>4 DEF References
  <2> QED
    BY <2>2, <2>3
<1>13. ASSUME NEW w \in Workers, WriteRuntime(w)
      PROVE  References'
  <2>1. job[w].created = None
    BY <1>13, WorkerOf DEF WriteRuntime, JobsOK, GoodJob
  <2> QED
    BY <1>13, <2>1, WriteRuntimeJob, QuietReferences, WorkerOf DEF WriteRuntime, hostVars, Same, Finished
<1>14. ASSUME NEW w \in Workers, SendRoutes(w)
      PROVE  References'
  <2>1. job[w].created = None
    BY <1>14, WorkerOf DEF SendRoutes, JobsOK, GoodJob
  <2> QED
    BY <1>14, <2>1, SendRoutesJob, QuietReferences, WorkerOf DEF SendRoutes, hostVars, Same, Finished
<1>15. ASSUME NEW s \in Sessions, RegisterClient(s)
      PROVE  References'
  <2>1. job[s].created = None
    BY <1>15, WorkerOf DEF RegisterClient, JobsOK, GoodJob, SessionUnreferenced
  <2> QED
    BY <1>15, <2>1, RegisterClientJob, QuietReferences, WorkerOf DEF RegisterClient, hostVars, Same, Finished
<1>16. ASSUME NEW s \in Sessions, CloseReplaced(s)
      PROVE  References'
  <2>1. job[s].created = None
    BY <1>16, WorkerOf DEF CloseReplaced, JobsOK, GoodJob
  <2>2. Others(s) /\ job'[s].created = None /\ job'[s].snapshot = job[s].snapshot
    BY <1>16, <2>1, CloseReplacedJob DEF Same
  <2>3. replaced[s] \in Sessions /\ CloseSession(replaced[s])
    BY <1>16 DEF CloseReplaced, ReplacedOK, TypeOK
  <2> QED
    BY <2>2, <2>3, WorkerOf, RoutesTypeStep, CloseSessionReferences
<1>17. ASSUME NEW s \in Sessions, HandlerList(s)
      PROVE  References'
  <2>1. job[s].created = None
    BY <1>17, WorkerOf DEF HandlerList, JobsOK, GoodJob
  <2> QED
    BY <1>17, <2>1, HandlerListJob, QuietReferences, WorkerOf DEF HandlerList, hostVars, Same, Finished
<1>18. ASSUME NEW s \in Sessions, UnregisterClient(s)
      PROVE  References'
  <2>1. job[s].created = None
    BY <1>18, WorkerOf DEF UnregisterClient, JobsOK, GoodJob
  <2> QED
    BY <1>18, <2>1, UnregisterClientJob, QuietReferences, WorkerOf DEF UnregisterClient, hostVars, Same, Finished
<1>19. ASSUME NEW s \in Sessions, CloseOwn(s)
      PROVE  References'
  <2>1. job[s].created = None
    BY <1>19, WorkerOf DEF CloseOwn, JobsOK, GoodJob
  <2>2. Others(s) /\ job'[s].created = None /\ job'[s].snapshot = job[s].snapshot
    BY <1>19, <2>1, CloseOwnJob DEF Same
  <2>3. UNCHANGED <<routes, listener>> \/ CloseSession(s)
    BY <1>19 DEF CloseOwn, hostVars
  <2> QED
    BY <2>2, <2>3, WorkerOf, RoutesTypeStep, CloseSessionReferences, QuietReferences
<1>20. ASSUME NEW s \in Sessions, MarkOwn(s)
      PROVE  References'
  <2>1. job[s].created = None
    BY <1>20, WorkerOf DEF MarkOwn, JobsOK, GoodJob
  <2> QED
    BY <1>20, <2>1, MarkOwnJob, QuietReferences, WorkerOf DEF MarkOwn, hostVars, Same, Finished
<1>21. ASSUME NEW r \in Routes, DeleteRoute(r)
      PROVE  References'
  BY <1>21 DEF DeleteRoute, hostVars, References, ReferencesLive, CreatedIsPrivate, IsOpen
<1>22. ASSUME NEW r \in Routes, NEW req \in Requests[r], SaveRoute(r, req)
      PROVE  References'
  BY <1>22 DEF SaveRoute, hostVars, References, ReferencesLive, CreatedIsPrivate, IsOpen
<1>23. CASE UNCHANGED vars
  BY <1>23 DEF vars, sessionVars, hostVars, References, ReferencesLive, CreatedIsPrivate, IsOpen
<1> QED
  BY <1>1, <1>2, <1>3, <1>4, <1>5, <1>6, <1>7, <1>8, <1>9, <1>10, <1>11, <1>12, <1>13, <1>14,
     <1>15, <1>16, <1>17, <1>18, <1>19, <1>20, <1>21, <1>22, <1>23, NextCases

-----------------------------------------------------------------------------
(* Closed sessions *)

-----------------------------------------------------------------------------
\* Publishing looks at the flag that closing sets, and closing clears the map.
LEMMA ClosedSessionStep ==
    ASSUME TypeOK, ClosedSessionExposesNothing, [Next]_vars
    PROVE  ClosedSessionExposesNothing'
<1> USE DEF ClosedSessionExposesNothing
<1>1. CASE SyncList
  BY <1>1 DEF SyncList, hostVars
<1>2. CASE SyncSessions
  BY <1>2 DEF SyncSessions, hostVars
<1>3. CASE Restart
  BY <1>3 DEF Restart, NoRoutes
<1>4. ASSUME NEW w \in Workers, Begin(w)
      PROVE  ClosedSessionExposesNothing'
  BY <1>4 DEF Begin, hostVars
<1>5. ASSUME NEW w \in Workers, VisitCurrent(w)
      PROVE  ClosedSessionExposesNothing'
  BY <1>5 DEF VisitCurrent, hostVars
<1>6. ASSUME NEW w \in Workers, Unpublish(w)
      PROVE  ClosedSessionExposesNothing'
  <2>1. \A s \in Sessions, r \in Routes : routes'[s][r] \in {routes[s][r], None}
    BY <1>6 DEF Unpublish, TypeOK
  <2> QED
    BY <1>6, <2>1 DEF Unpublish
<1>7. ASSUME NEW w \in Workers, ClearRoute(w)
      PROVE  ClosedSessionExposesNothing'
  BY <1>7 DEF ClearRoute, hostVars
<1>8. ASSUME NEW w \in Workers, VisitEnd(w)
      PROVE  ClosedSessionExposesNothing'
  BY <1>8 DEF VisitEnd, hostVars
<1>9. ASSUME NEW w \in Workers, ApplyNext(w)
      PROVE  ClosedSessionExposesNothing'
  BY <1>9 DEF ApplyNext, hostVars
<1>10. ASSUME NEW w \in Workers, Reserve(w)
      PROVE  ClosedSessionExposesNothing'
  BY <1>10 DEF Reserve, hostVars
<1>11. ASSUME NEW w \in Workers, Listen(w)
      PROVE  ClosedSessionExposesNothing'
  BY <1>11 DEF Listen, hostVars
<1>12. ASSUME NEW w \in Workers, Publish(w)
      PROVE  ClosedSessionExposesNothing'
  <2>1. \A s \in Sessions : sessClosed[s] => routes'[s] = routes[s]
    BY <1>12 DEF Publish, TypeOK
  <2> QED
    BY <1>12, <2>1 DEF Publish
<1>13. ASSUME NEW w \in Workers, WriteRuntime(w)
      PROVE  ClosedSessionExposesNothing'
  BY <1>13 DEF WriteRuntime, hostVars
<1>14. ASSUME NEW w \in Workers, SendRoutes(w)
      PROVE  ClosedSessionExposesNothing'
  BY <1>14 DEF SendRoutes, hostVars
<1>15. ASSUME NEW s \in Sessions, RegisterClient(s)
      PROVE  ClosedSessionExposesNothing'
  BY <1>15 DEF RegisterClient, TypeOK
<1>16. ASSUME NEW s \in Sessions, CloseReplaced(s)
      PROVE  ClosedSessionExposesNothing'
  BY <1>16 DEF CloseReplaced, CloseSession, NoRoutes, TypeOK
<1>17. ASSUME NEW s \in Sessions, HandlerList(s)
      PROVE  ClosedSessionExposesNothing'
  BY <1>17 DEF HandlerList, hostVars
<1>18. ASSUME NEW s \in Sessions, UnregisterClient(s)
      PROVE  ClosedSessionExposesNothing'
  BY <1>18 DEF UnregisterClient, hostVars
<1>19. ASSUME NEW s \in Sessions, CloseOwn(s)
      PROVE  ClosedSessionExposesNothing'
  BY <1>19 DEF CloseOwn, CloseSession, NoRoutes, TypeOK, hostVars
<1>20. ASSUME NEW s \in Sessions, MarkOwn(s)
      PROVE  ClosedSessionExposesNothing'
  BY <1>20 DEF MarkOwn, hostVars
<1>21. ASSUME NEW r \in Routes, DeleteRoute(r)
      PROVE  ClosedSessionExposesNothing'
  BY <1>21 DEF DeleteRoute, hostVars
<1>22. ASSUME NEW r \in Routes, NEW req \in Requests[r], SaveRoute(r, req)
      PROVE  ClosedSessionExposesNothing'
  BY <1>22 DEF SaveRoute, hostVars
<1>23. CASE UNCHANGED vars
  BY <1>23 DEF vars, sessionVars, hostVars
<1> QED
  BY <1>1, <1>2, <1>3, <1>4, <1>5, <1>6, <1>7, <1>8, <1>9, <1>10, <1>11, <1>12, <1>13, <1>14,
     <1>15, <1>16, <1>17, <1>18, <1>19, <1>20, <1>21, <1>22, <1>23, NextCases

-----------------------------------------------------------------------------
(* Workers that do not overlap *)

\* A worker gets past the beginning of applyRoutes only in Begin.
LEMMA ExclusiveKept ==
    ASSUME Exclusive, overlapped \subseteq overlapped', NEW w \in Workers, Others(w),
           \/ job'[w].target = None
           \/ job'[w].pc = "begin"
           \/ job'[w].target = job[w].target /\ job[w].pc # "begin"
    PROVE  Exclusive'
BY DEF Exclusive, Others

-----------------------------------------------------------------------------
\* The second worker to begin with a session puts it into "overlapped".
LEMMA ExclusiveStep ==
    ASSUME TypeOK, JobsOK, ReplacedOK, References, Exclusive, [Next]_vars
    PROVE  Exclusive'
<1>1. CASE SyncList
  <2>1. job'[Syncer].target = None \/ job'[Syncer].pc = "begin"
    BY <1>1, SyncListJob, JobsStep, WorkerOf DEF JobsOK, GoodJob, Applying, ApplyStates, References
  <2> QED
    BY <1>1, <2>1, SyncListJob, WorkerOf, ExclusiveKept DEF SyncList
<1>2. CASE SyncSessions
  <2>1. job'[Syncer].target = None \/ job'[Syncer].pc = "begin"
    BY <1>2, SyncSessionsJob, JobsStep, WorkerOf DEF JobsOK, GoodJob, Applying, ApplyStates, References
  <2> QED
    BY <1>2, <2>1, SyncSessionsJob, WorkerOf, ExclusiveKept DEF SyncSessions
<1>3. CASE Restart
  BY <1>3 DEF Restart, Exclusive, NoJob
<1>4. ASSUME NEW w \in Workers, Begin(w)
      PROVE  Exclusive'
  <2>1. job[w].target # None
    BY <1>4 DEF Begin, JobsOK, GoodJob, Applying
  <2>2. Others(w) /\ job'[w].target \in {None, job[w].target}
    BY <1>4, BeginJob DEF Finished
  <2>3. overlapped' = IF \E v \in Workers \ {w} : job[v].target = job[w].target /\ job[v].pc # "begin"
                      THEN overlapped \cup {job[w].target} ELSE overlapped
    BY <1>4 DEF Begin
  <2> QED
    BY <2>1, <2>2, <2>3 DEF Exclusive, Others
<1>5. ASSUME NEW w \in Workers, VisitCurrent(w)
      PROVE  Exclusive'
  BY <1>5, VisitCurrentJob, ExclusiveKept DEF VisitCurrent, Same, Finished
<1>6. ASSUME NEW w \in Workers, Unpublish(w)
      PROVE  Exclusive'
  BY <1>6, UnpublishJob, ExclusiveKept DEF Unpublish, Same, Finished
<1>7. ASSUME NEW w \in Workers, ClearRoute(w)
      PROVE  Exclusive'
  BY <1>7, ClearRouteJob, ExclusiveKept DEF ClearRoute, Same, Finished
<1>8. ASSUME NEW w \in Workers, VisitEnd(w)
      PROVE  Exclusive'
  BY <1>8, VisitEndJob, ExclusiveKept DEF VisitEnd, Same, Finished
<1>9. ASSUME NEW w \in Workers, ApplyNext(w)
      PROVE  Exclusive'
  BY <1>9, ApplyNextJob, ExclusiveKept DEF ApplyNext, Same, Finished
<1>10. ASSUME NEW w \in Workers, Reserve(w)
      PROVE  Exclusive'
  BY <1>10, ReserveJob, ExclusiveKept DEF Reserve, Same, Finished
<1>11. ASSUME NEW w \in Workers, Listen(w)
      PROVE  Exclusive'
  BY <1>11, ListenJob, ExclusiveKept DEF Listen, Same, Finished
<1>12. ASSUME NEW w \in Workers, Publish(w)
      PROVE  Exclusive'
  BY <1>12, PublishJob, ExclusiveKept DEF Publish, Same, Finished
<1>13. ASSUME NEW w \in Workers, WriteRuntime(w)
      PROVE  Exclusive'
  BY <1>13, WriteRuntimeJob, ExclusiveKept DEF WriteRuntime, Same, Finished
<1>14. ASSUME NEW w \in Workers, SendRoutes(w)
      PROVE  Exclusive'
  BY <1>14, SendRoutesJob, ExclusiveKept DEF SendRoutes, Same, Finished
<1>15. ASSUME NEW s \in Sessions, RegisterClient(s)
      PROVE  Exclusive'
  <2>1. job'[s].target = None \/ job'[s].pc = "begin"
    BY <1>15, RegisterClientJob, JobsStep, WorkerOf DEF JobsOK, GoodJob, Applying, ApplyStates, References
  <2> QED
    BY <1>15, <2>1, RegisterClientJob, WorkerOf, ExclusiveKept DEF RegisterClient
<1>16. ASSUME NEW s \in Sessions, CloseReplaced(s)
      PROVE  Exclusive'
  <2>1. job'[s].target = None \/ job'[s].pc = "begin"
    BY <1>16, CloseReplacedJob, JobsStep, WorkerOf DEF JobsOK, GoodJob, Applying, ApplyStates, References
  <2> QED
    BY <1>16, <2>1, CloseReplacedJob, WorkerOf, ExclusiveKept DEF CloseReplaced
<1>17. ASSUME NEW s \in Sessions, HandlerList(s)
      PROVE  Exclusive'
  BY <1>17, HandlerListJob, WorkerOf, ExclusiveKept DEF HandlerList
<1>18. ASSUME NEW s \in Sessions, UnregisterClient(s)
      PROVE  Exclusive'
  <2>1. job'[s].target = None \/ job'[s].pc = "begin"
    BY <1>18, UnregisterClientJob, JobsStep, WorkerOf DEF JobsOK, GoodJob, Applying, ApplyStates, References
  <2> QED
    BY <1>18, <2>1, UnregisterClientJob, WorkerOf, ExclusiveKept DEF UnregisterClient
<1>19. ASSUME NEW s \in Sessions, CloseOwn(s)
      PROVE  Exclusive'
  <2>1. job'[s].target = None \/ job'[s].pc = "begin"
    BY <1>19, CloseOwnJob, JobsStep, WorkerOf DEF JobsOK, GoodJob, Applying, ApplyStates, References
  <2> QED
    BY <1>19, <2>1, CloseOwnJob, WorkerOf, ExclusiveKept DEF CloseOwn
<1>20. ASSUME NEW s \in Sessions, MarkOwn(s)
      PROVE  Exclusive'
  <2>1. job'[s].target = None \/ job'[s].pc = "begin"
    BY <1>20, MarkOwnJob, JobsStep, WorkerOf DEF JobsOK, GoodJob, Applying, ApplyStates, References
  <2> QED
    BY <1>20, <2>1, MarkOwnJob, WorkerOf, ExclusiveKept DEF MarkOwn
<1>21. ASSUME NEW r \in Routes, DeleteRoute(r)
      PROVE  Exclusive'
  BY <1>21 DEF DeleteRoute, Exclusive
<1>22. ASSUME NEW r \in Routes, NEW req \in Requests[r], SaveRoute(r, req)
      PROVE  Exclusive'
  BY <1>22 DEF SaveRoute, Exclusive
<1>23. CASE UNCHANGED vars
  BY <1>23 DEF vars, Exclusive
<1> QED
  BY <1>1, <1>2, <1>3, <1>4, <1>5, <1>6, <1>7, <1>8, <1>9, <1>10, <1>11, <1>12, <1>13, <1>14,
     <1>15, <1>16, <1>17, <1>18, <1>19, <1>20, <1>21, <1>22, <1>23, NextCases

\* An entry found empty stays empty when nothing is published.
LEMMA SlotKept ==
    ASSUME JobsOK, SlotStaysEmpty, overlapped \subseteq overlapped', NEW w \in Workers, Others(w),
           \A s \in Sessions, r \in Routes : routes'[s][r] \in {routes[s][r], None},
           \/ job'[w].pc \notin {"reserve", "listen", "publish"}
           \/ job'[w].target = job[w].target /\ job[w].target \in Sessions /\ job'[w].route \in Routes
              /\ routes[job[w].target][job'[w].route] = None
           \/ /\ job'[w].target = job[w].target /\ job'[w].route = job[w].route
              /\ job[w].pc \in {"reserve", "listen"}
    PROVE  SlotStaysEmpty'
<1>1. ASSUME NEW v \in Workers, job[v].pc \in {"reserve", "listen", "publish"}
      PROVE  job[v].target \in Sessions /\ job[v].route \in Routes
  BY <1>1 DEF JobsOK, GoodJob, Job, Applying, ApplyStates, InHand
<1> QED
  BY <1>1 DEF SlotStaysEmpty, Others

-----------------------------------------------------------------------------
\* So the entry a worker found empty is empty when it publishes, unless workers overlap.
LEMMA SlotStep ==
    ASSUME TypeOK, JobsOK, References, Exclusive, SlotStaysEmpty, [Next]_vars
    PROVE  SlotStaysEmpty'
<1>1. CASE SyncList
  BY <1>1, SyncListJob, SlotKept, WorkerOf DEF SyncList, hostVars, Same, Finished
<1>2. CASE SyncSessions
  BY <1>2, SyncSessionsJob, SlotKept, WorkerOf DEF SyncSessions, hostVars, Same, Finished
<1>3. CASE Restart
  BY <1>3 DEF Restart, SlotStaysEmpty, NoJob
<1>4. ASSUME NEW w \in Workers, Begin(w)
      PROVE  SlotStaysEmpty'
  BY <1>4, BeginJob, SlotKept, WorkerOf DEF Begin, hostVars, Same, Finished
<1>5. ASSUME NEW w \in Workers, VisitCurrent(w)
      PROVE  SlotStaysEmpty'
  BY <1>5, VisitCurrentJob, SlotKept, WorkerOf DEF VisitCurrent, hostVars, Same, Finished
<1>6. ASSUME NEW w \in Workers, Unpublish(w)
      PROVE  SlotStaysEmpty'
  <2>1. \A s \in Sessions, r \in Routes : routes'[s][r] \in {routes[s][r], None}
    BY <1>6 DEF Unpublish, TypeOK
  <2> QED
    BY <1>6, <2>1, UnpublishJob, SlotKept DEF Unpublish
<1>7. ASSUME NEW w \in Workers, ClearRoute(w)
      PROVE  SlotStaysEmpty'
  BY <1>7, ClearRouteJob, SlotKept, WorkerOf DEF ClearRoute, hostVars, Same, Finished
<1>8. ASSUME NEW w \in Workers, VisitEnd(w)
      PROVE  SlotStaysEmpty'
  BY <1>8, VisitEndJob, SlotKept, WorkerOf DEF VisitEnd, hostVars, Same, Finished
<1>9. ASSUME NEW w \in Workers, ApplyNext(w)
      PROVE  SlotStaysEmpty'
  <2>1. job[w].target \in Sessions /\ UNCHANGED <<routes, overlapped>>
    BY <1>9 DEF ApplyNext, JobsOK, GoodJob, Job, Applying, ApplyStates
  <2>2. job'[w].pc \in {"reserve", "listen"} => job'[w].route \in Routes
    BY JobsStep DEF JobsOK, GoodJob, InHand, References
  <2> QED
    BY <1>9, <2>1, <2>2, ApplyNextJob, SlotKept DEF Same, Finished
<1>10. ASSUME NEW w \in Workers, Reserve(w)
      PROVE  SlotStaysEmpty'
  BY <1>10, ReserveJob, SlotKept, WorkerOf DEF Reserve, hostVars, Same, Finished
<1>11. ASSUME NEW w \in Workers, Listen(w)
      PROVE  SlotStaysEmpty'
  BY <1>11, ListenJob, SlotKept, WorkerOf DEF Listen, hostVars, Same, Finished
<1>12. ASSUME NEW w \in Workers, Publish(w)
      PROVE  SlotStaysEmpty'
  <2>1. job'[w].pc \notin {"reserve", "listen", "publish"} /\ Others(w) /\ UNCHANGED overlapped
    BY <1>12, PublishJob DEF Publish, Finished
  <2>2. ASSUME NEW v \in Workers \ {w}, job[v].pc \in {"reserve", "listen", "publish"},
               job[v].target \notin overlapped
        PROVE  routes'[job[v].target][job[v].route] = None
    <3>1. job[v].target \in Sessions /\ job[v].route \in Routes /\ job[w].target \in Sessions
      BY <1>12, <2>2 DEF Publish, JobsOK, GoodJob, Job, Applying, ApplyStates, InHand
    <3>2. job[v].target # job[w].target
      BY <1>12, <2>2, <3>1, NoneAssumption DEF Publish, Exclusive
    <3>3. routes'[job[v].target] = routes[job[v].target]
      BY <1>12, <3>1, <3>2 DEF Publish, TypeOK
    <3> QED
      BY <2>2, <3>3 DEF SlotStaysEmpty
  <2> QED
    BY <2>1, <2>2 DEF SlotStaysEmpty, Others
<1>13. ASSUME NEW w \in Workers, WriteRuntime(w)
      PROVE  SlotStaysEmpty'
  BY <1>13, WriteRuntimeJob, SlotKept, WorkerOf DEF WriteRuntime, hostVars, Same, Finished
<1>14. ASSUME NEW w \in Workers, SendRoutes(w)
      PROVE  SlotStaysEmpty'
  BY <1>14, SendRoutesJob, SlotKept, WorkerOf DEF SendRoutes, hostVars, Same, Finished
<1>15. ASSUME NEW s \in Sessions, RegisterClient(s)
      PROVE  SlotStaysEmpty'
  BY <1>15, RegisterClientJob, SlotKept, WorkerOf DEF RegisterClient, hostVars, Same, Finished
<1>16. ASSUME NEW s \in Sessions, CloseReplaced(s)
      PROVE  SlotStaysEmpty'
  <2>1. \A t \in Sessions, r \in Routes : routes'[t][r] \in {routes[t][r], None}
    BY <1>16 DEF CloseReplaced, CloseSession, NoRoutes, hostVars, TypeOK
  <2> QED
    BY <1>16, <2>1, CloseReplacedJob, WorkerOf, SlotKept DEF CloseReplaced
<1>17. ASSUME NEW s \in Sessions, HandlerList(s)
      PROVE  SlotStaysEmpty'
  BY <1>17, HandlerListJob, SlotKept, WorkerOf DEF HandlerList, hostVars, Same, Finished
<1>18. ASSUME NEW s \in Sessions, UnregisterClient(s)
      PROVE  SlotStaysEmpty'
  BY <1>18, UnregisterClientJob, SlotKept, WorkerOf DEF UnregisterClient, hostVars, Same, Finished
<1>19. ASSUME NEW s \in Sessions, CloseOwn(s)
      PROVE  SlotStaysEmpty'
  <2>1. \A t \in Sessions, r \in Routes : routes'[t][r] \in {routes[t][r], None}
    BY <1>19 DEF CloseOwn, CloseSession, NoRoutes, hostVars, TypeOK
  <2> QED
    BY <1>19, <2>1, CloseOwnJob, WorkerOf, SlotKept DEF CloseOwn
<1>20. ASSUME NEW s \in Sessions, MarkOwn(s)
      PROVE  SlotStaysEmpty'
  BY <1>20, MarkOwnJob, SlotKept, WorkerOf DEF MarkOwn, hostVars, Same, Finished
<1>21. ASSUME NEW r \in Routes, DeleteRoute(r)
      PROVE  SlotStaysEmpty'
  BY <1>21 DEF DeleteRoute, SlotStaysEmpty, hostVars
<1>22. ASSUME NEW r \in Routes, NEW req \in Requests[r], SaveRoute(r, req)
      PROVE  SlotStaysEmpty'
  BY <1>22 DEF SaveRoute, SlotStaysEmpty, hostVars
<1>23. CASE UNCHANGED vars
  BY <1>23 DEF vars, SlotStaysEmpty, hostVars
<1> QED
  BY <1>1, <1>2, <1>3, <1>4, <1>5, <1>6, <1>7, <1>8, <1>9, <1>10, <1>11, <1>12, <1>13, <1>14,
     <1>15, <1>16, <1>17, <1>18, <1>19, <1>20, <1>21, <1>22, <1>23, NextCases

-----------------------------------------------------------------------------
(* Listeners that are open *)

\* Listener l is open after the step.
StaysOpen(l) == listener'[l] # None /\ listener'[l].open

\* No listening socket is opened, and none changes hands.
NoneOpened ==
    \A l \in Listeners : listener'[l] # None /\ listener'[l].open =>
        /\ listener[l] # None /\ listener[l].open
        /\ listener'[l].sess = listener[l].sess /\ listener'[l].route = listener[l].route

Opens(w) == Listen(w) /\ job'[w].pc = "publish"

\* Closing listeners opens none.
LEMMA ClosedOpensNothing ==
    ASSUME TypeOK, NEW L \in SUBSET Listeners, \A l \in L : listener[l] # None,
           \/ listener' = Closed(L)
           \/ listener' = Live(Closed(L), routes', job)
           \/ listener' = Live(Closed(L), routes', job')
    PROVE  NoneOpened /\ \A l \in L : ~StaysOpen(l)
<1>1. /\ Closed(L) \in [Listeners -> Listener \cup {None}]
      /\ \A l \in Listeners \ L : Closed(L)[l] = listener[l]
      /\ \A l \in L : Closed(L)[l] # None /\ ~Closed(L)[l].open
  BY ClosedEffect
<1>2. \A l \in Listeners : listener'[l] \in {None, Closed(L)[l]}
  BY <1>1, LiveEffect
<1> QED
  BY <1>1, <1>2 DEF NoneOpened, StaysOpen

\* So does the end of a session.
LEMMA CloseSessionOpensNothing ==
    ASSUME TypeOK, References, NEW t \in Sessions, CloseSession(t)
    PROVE  NoneOpened /\ \A r \in Routes : routes[t][r] # None => ~StaysOpen(routes[t][r])
<1> DEFINE L == {routes[t][r] : r \in Routes} \ {None}
<1>1. L \in SUBSET Listeners /\ \A l \in L : listener[l] # None
  BY ListenersOf DEF References
<1>2. listener' = Live(Closed(L), routes', job)
  BY DEF CloseSession
<1>3. \A r \in Routes : routes[t][r] # None => routes[t][r] \in L
  OBVIOUS
<1> HIDE DEF L
<1>4. NoneOpened /\ \A l \in L : ~StaysOpen(l)
  BY <1>1, <1>2, ClosedOpensNothing
<1> QED
  BY <1>3, <1>4

-----------------------------------------------------------------------------
\* Only net.Listen opens a listener: one that was closed is never open again.
LEMMA OpenedStep ==
    ASSUME TypeOK, JobsOK, ReplacedOK, References, [Next]_vars
    PROVE  NoneOpened \/ \E v \in Workers : Opens(v)
<1>1. CASE SyncList
  BY <1>1 DEF SyncList, hostVars, NoneOpened
<1>2. CASE SyncSessions
  BY <1>2 DEF SyncSessions, hostVars, NoneOpened
<1>3. CASE Restart
  BY <1>3 DEF Restart, NoneOpened
<1>4. ASSUME NEW w \in Workers, Begin(w)
      PROVE  NoneOpened \/ \E v \in Workers : Opens(v)
  BY <1>4 DEF Begin, hostVars, NoneOpened
<1>5. ASSUME NEW w \in Workers, VisitCurrent(w)
      PROVE  NoneOpened \/ \E v \in Workers : Opens(v)
  <2>1. PICK r \in job[w].visit :
          \/ listener' = Live(listener, routes, job')
          \/ listener' = Closed({job[w].snapshot[r]})
          \/ UNCHANGED listener
    BY <1>5 DEF VisitCurrent
  <2>2. CASE listener' = Live(listener, routes, job')
    <3>1. UNCHANGED routes
      BY <1>5 DEF VisitCurrent
    <3>2. listener' = Live(Closed({}), routes', job')
      BY <2>2, <3>1, NothingClosed
    <3> QED
      BY <3>2, ClosedOpensNothing
  <2>3. CASE listener' = Closed({job[w].snapshot[r]})
    BY <2>3, VisitedListener, ClosedOpensNothing DEF References
  <2>4. CASE UNCHANGED listener
    BY <2>4 DEF NoneOpened
  <2> QED
    BY <2>1, <2>2, <2>3, <2>4
<1>6. ASSUME NEW w \in Workers, Unpublish(w)
      PROVE  NoneOpened \/ \E v \in Workers : Opens(v)
  BY <1>6 DEF Unpublish, hostVars, NoneOpened
<1>7. ASSUME NEW w \in Workers, ClearRoute(w)
      PROVE  NoneOpened \/ \E v \in Workers : Opens(v)
  BY <1>7 DEF ClearRoute, hostVars, NoneOpened
<1>8. ASSUME NEW w \in Workers, VisitEnd(w)
      PROVE  NoneOpened \/ \E v \in Workers : Opens(v)
  <2>1. listener' = Live(Closed({}), routes', job')
    BY <1>8, NothingClosed DEF VisitEnd
  <2> QED
    BY <2>1, ClosedOpensNothing
<1>9. ASSUME NEW w \in Workers, ApplyNext(w)
      PROVE  NoneOpened \/ \E v \in Workers : Opens(v)
  <2>1. job[w].target \in Sessions
    BY <1>9 DEF ApplyNext, JobsOK, GoodJob, Job, Applying, ApplyStates
  <2>2. PICK r \in job[w].todo :
          \/ UNCHANGED listener
          \/ /\ routes[job[w].target][r] # None /\ Exposable(job[w].desired[r])
             /\ listener' = [listener EXCEPT ![routes[job[w].target][r]].pub = job[w].desired[r].pub]
    BY <1>9 DEF ApplyNext
  <2>3. CASE UNCHANGED listener
    BY <2>3 DEF NoneOpened
  <2>4. CASE /\ routes[job[w].target][r] # None /\ Exposable(job[w].desired[r])
             /\ listener' = [listener EXCEPT ![routes[job[w].target][r]].pub = job[w].desired[r].pub]
    <3> DEFINE k == routes[job[w].target][r]
    <3>1. r \in Routes
      BY DEF JobsOK, GoodJob, Job
    <3>2. k \in Listeners /\ listener[k] # None /\ listener[k] \in Listener
      BY <2>1, <2>4, <3>1 DEF TypeOK, References, ReferencesLive
    <3>3. [listener[k] EXCEPT !.pub = job[w].desired[r].pub] \in Listener
      BY <2>4, <3>2, RefreshedListener
    <3>4. \A l \in Listeners \ {k} : listener'[l] = listener[l]
      BY <2>4 DEF TypeOK
    <3>5. listener'[k] = [listener[k] EXCEPT !.pub = job[w].desired[r].pub]
      BY <2>4, <3>2 DEF TypeOK
    <3>6. /\ listener'[k].sess = listener[k].sess
          /\ listener'[k].route = listener[k].route /\ listener'[k].open = listener[k].open
      BY <3>2, <3>3, <3>5 DEF Listener
    <3> QED
      BY <3>2, <3>4, <3>6 DEF NoneOpened
  <2> QED
    BY <2>2, <2>3, <2>4
<1>10. ASSUME NEW w \in Workers, Reserve(w)
      PROVE  NoneOpened \/ \E v \in Workers : Opens(v)
  BY <1>10 DEF Reserve, hostVars, NoneOpened
<1>11. ASSUME NEW w \in Workers, Listen(w)
      PROVE  NoneOpened \/ \E v \in Workers : Opens(v)
  <2>1. CASE job'[w].pc = "write"
    BY <1>11, <2>1, ListenJob DEF NoneOpened
  <2>2. CASE job'[w].pc = "publish"
    BY <1>11, <2>2 DEF Opens
  <2> QED
    BY <1>11, <2>1, <2>2, ListenJob
<1>12. ASSUME NEW w \in Workers, Publish(w)
      PROVE  NoneOpened \/ \E v \in Workers : Opens(v)
  <2>1. job[w].created # None
    BY <1>12 DEF Publish, JobsOK, GoodJob
  <2>2. CASE sessClosed[job[w].target]
    <3>1. listener' = Live(Closed({job[w].created}), routes', job')
      BY <1>12, <2>2 DEF Publish
    <3> QED
      BY <2>1, <3>1, CreatedListener, ClosedOpensNothing DEF References
  <2>3. CASE ~sessClosed[job[w].target]
    BY <1>12, <2>3 DEF Publish, NoneOpened
  <2> QED
    BY <2>2, <2>3
<1>13. ASSUME NEW w \in Workers, WriteRuntime(w)
      PROVE  NoneOpened \/ \E v \in Workers : Opens(v)
  BY <1>13 DEF WriteRuntime, hostVars, NoneOpened
<1>14. ASSUME NEW w \in Workers, SendRoutes(w)
      PROVE  NoneOpened \/ \E v \in Workers : Opens(v)
  BY <1>14 DEF SendRoutes, hostVars, NoneOpened
<1>15. ASSUME NEW s \in Sessions, RegisterClient(s)
      PROVE  NoneOpened \/ \E v \in Workers : Opens(v)
  BY <1>15 DEF RegisterClient, hostVars, NoneOpened
<1>16. ASSUME NEW s \in Sessions, CloseReplaced(s)
      PROVE  NoneOpened \/ \E v \in Workers : Opens(v)
  <2>1. replaced[s] \in Sessions /\ CloseSession(replaced[s])
    BY <1>16 DEF CloseReplaced, ReplacedOK, TypeOK
  <2> QED
    BY <2>1, CloseSessionOpensNothing
<1>17. ASSUME NEW s \in Sessions, HandlerList(s)
      PROVE  NoneOpened \/ \E v \in Workers : Opens(v)
  BY <1>17 DEF HandlerList, hostVars, NoneOpened
<1>18. ASSUME NEW s \in Sessions, UnregisterClient(s)
      PROVE  NoneOpened \/ \E v \in Workers : Opens(v)
  BY <1>18 DEF UnregisterClient, hostVars, NoneOpened
<1>19. ASSUME NEW s \in Sessions, CloseOwn(s)
      PROVE  NoneOpened \/ \E v \in Workers : Opens(v)
  <2>1. CASE UNCHANGED listener
    BY <2>1 DEF NoneOpened
  <2>2. CASE CloseSession(s)
    BY <2>2, CloseSessionOpensNothing
  <2> QED
    BY <1>19, <2>1, <2>2 DEF CloseOwn, hostVars
<1>20. ASSUME NEW s \in Sessions, MarkOwn(s)
      PROVE  NoneOpened \/ \E v \in Workers : Opens(v)
  BY <1>20 DEF MarkOwn, hostVars, NoneOpened
<1>21. ASSUME NEW r \in Routes, DeleteRoute(r)
      PROVE  NoneOpened \/ \E v \in Workers : Opens(v)
  BY <1>21 DEF DeleteRoute, hostVars, NoneOpened
<1>22. ASSUME NEW r \in Routes, NEW req \in Requests[r], SaveRoute(r, req)
      PROVE  NoneOpened \/ \E v \in Workers : Opens(v)
  BY <1>22 DEF SaveRoute, hostVars, NoneOpened
<1>23. CASE UNCHANGED vars
  BY <1>23 DEF vars, hostVars, NoneOpened
<1> QED
  BY <1>1, <1>2, <1>3, <1>4, <1>5, <1>6, <1>7, <1>8, <1>9, <1>10, <1>11, <1>12, <1>13, <1>14,
     <1>15, <1>16, <1>17, <1>18, <1>19, <1>20, <1>21, <1>22, <1>23, NextCases

\* What Listen does when it opens a listener.
LEMMA OpensEffect ==
    ASSUME TypeOK, JobsOK, References, NEW w \in Workers, Opens(w)
    PROVE  /\ Others(w) /\ UNCHANGED <<routes, overlapped>> /\ job[w].created = None
           /\ job'[w].created = NewListener
           /\ NewListener \in Listeners /\ listener[NewListener] = None
           /\ \A l \in Listeners \ {NewListener} : listener'[l] = listener[l]
<1>1. Others(w) /\ job'[w].created = NewListener /\ CreateListener(w)
  BY ListenJob DEF Opens
<1>2. PICK p \in ListenPorts(w) : Unused # {} /\ listener' = [listener EXCEPT ![NewListener] = NewObject(w, p)]
  BY <1>1 DEF CreateListener
<1>3. NewListener \in Listeners /\ listener[NewListener] = None
  BY <1>2, NewListenerEffect
<1>4. \A l \in Listeners \ {NewListener} : listener'[l] = listener[l]
  BY <1>2, <1>3 DEF TypeOK
<1>5. UNCHANGED <<routes, overlapped>> /\ job[w].created = None
  BY DEF Opens, Listen, JobsOK, GoodJob
<1> QED
  BY <1>1, <1>3, <1>4, <1>5

\* A closed listener that a worker still points to remains closed.
LEMMA RemovedKept ==
    ASSUME JobsOK, References, References', RemovedIsClosed, NEW w \in Workers, Others(w),
           job'[w].pc # "unpublish", NoneOpened
    PROVE  RemovedIsClosed'
<1>1. ASSUME NEW v \in Workers, job'[v].pc = "unpublish"
      PROVE  ~listener'[job'[v].snapshot[job'[v].route]].open
  <2>1. job'[v] = job[v]
    BY <1>1 DEF Others
  <2>2. job[v].route \in Routes /\ job[v].snapshot[job[v].route] \in Listeners
    BY <1>1, <2>1 DEF JobsOK, GoodJob, Job, InHand
  <2>3. listener'[job[v].snapshot[job[v].route]] # None
    BY <1>1, <2>1, <2>2, NoneAssumption DEF References, ReferencesLive
  <2>4. ~listener[job[v].snapshot[job[v].route]].open
    BY <1>1, <2>1 DEF RemovedIsClosed
  <2> QED
    BY <2>1, <2>2, <2>3, <2>4 DEF NoneOpened
<1> QED
  BY <1>1 DEF RemovedIsClosed

\* So it is when no worker moves.
LEMMA RemovedSame ==
    ASSUME JobsOK, References, References', RemovedIsClosed, UNCHANGED job, NoneOpened
    PROVE  RemovedIsClosed'
<1>1. ASSUME NEW v \in Workers, job[v].pc = "unpublish"
      PROVE  ~listener'[job[v].snapshot[job[v].route]].open
  <2>1. job[v].route \in Routes /\ job[v].snapshot[job[v].route] \in Listeners
    BY <1>1 DEF JobsOK, GoodJob, Job, InHand
  <2>2. listener'[job[v].snapshot[job[v].route]] # None
    BY <1>1, <2>1, NoneAssumption DEF References, ReferencesLive
  <2> QED
    BY <1>1, <2>1, <2>2 DEF NoneOpened, RemovedIsClosed
<1> QED
  BY <1>1 DEF RemovedIsClosed

-----------------------------------------------------------------------------
\* The first loop closes a listener before it takes it out of the map.
LEMMA RemovedQuietStep ==
    ASSUME TypeOK, JobsOK, ReplacedOK, References, RemovedIsClosed, NoneOpened, [Next]_vars
    PROVE  RemovedIsClosed'
<1>1. CASE SyncList
  <2>1. Others(Syncer) /\ job'[Syncer].pc # "unpublish"
    BY <1>1, SyncListJob, WorkerOf DEF Finished
  <2> QED
    BY <2>1, ReferencesStep, WorkerOf, RemovedKept
<1>2. CASE SyncSessions
  <2>1. Others(Syncer) /\ job'[Syncer].pc # "unpublish"
    BY <1>2, SyncSessionsJob, WorkerOf DEF Finished
  <2> QED
    BY <2>1, ReferencesStep, WorkerOf, RemovedKept
<1>3. CASE Restart
  BY <1>3 DEF Restart, NoJob, RemovedIsClosed
<1>4. ASSUME NEW w \in Workers, Begin(w)
      PROVE  RemovedIsClosed'
  <2>1. Others(w) /\ job'[w].pc # "unpublish"
    BY <1>4, BeginJob, WorkerOf DEF Finished
  <2> QED
    BY <2>1, ReferencesStep, WorkerOf, RemovedKept
<1>5. ASSUME NEW w \in Workers, VisitCurrent(w)
      PROVE  RemovedIsClosed'
  <2>1. CASE job'[w].pc # "unpublish"
    BY <1>5, <2>1, VisitCurrentJob, ReferencesStep, RemovedKept
  <2>2. CASE job'[w].pc = "unpublish"
    <3> job[w] \in Job
      BY DEF JobsOK, GoodJob
    <3>1. PICK r \in job[w].visit :
            /\ listener' = Closed({job[w].snapshot[r]})
            /\ SetJob(w, [job[w] EXCEPT !.visit = @ \ {r}, !.route = r, !.pc = "unpublish"])
      <4>1. ~SetJob(w, Done(w))
        BY <2>2, SetJobEffect, DoneIsGood
      <4>2. \A r : ~SetJob(w, [job[w] EXCEPT !.visit = @ \ {r}])
        <5>1. \A r : [job[w] EXCEPT !.visit = @ \ {r}].pc = job[w].pc
          BY DEF Job
        <5>2. job[w].pc # "unpublish"
          BY <1>5 DEF VisitCurrent
        <5> SUFFICES ASSUME NEW r, SetJob(w, [job[w] EXCEPT !.visit = @ \ {r}])
                     PROVE  FALSE
          OBVIOUS
        <5>3. job'[w] = [job[w] EXCEPT !.visit = @ \ {r}]
          BY SetJobEffect
        <5> QED
          BY <2>2, <5>1, <5>2, <5>3
      <4> QED
        BY <1>5, <4>1, <4>2 DEF VisitCurrent
    <3>2. Others(w) /\ job'[w].route = r /\ job'[w].snapshot = job[w].snapshot
      <4>1. job'[w] = [job[w] EXCEPT !.visit = @ \ {r}, !.route = r, !.pc = "unpublish"]
        BY <3>1, SetJobEffect
      <4>2. job[w] \in Job
        BY DEF JobsOK, GoodJob
      <4>3. Others(w)
        BY <3>1, SetJobEffect DEF Others
      <4> QED
        BY <4>1, <4>2, <4>3 DEF Job
    <3>3. ~StaysOpen(job[w].snapshot[r]) /\ r \in Routes
      <4>1. r \in Routes
        BY DEF Job
      <4>2. /\ {job[w].snapshot[r]} \in SUBSET Listeners
            /\ \A l \in {job[w].snapshot[r]} : listener[l] # None
        BY VisitedListener DEF References
      <4>3. \A l \in {job[w].snapshot[r]} : ~StaysOpen(l)
        BY <3>1, <4>2, ClosedOpensNothing
      <4> QED
        BY <4>1, <4>3
    <3>4. ASSUME NEW v \in Workers, job'[v].pc = "unpublish"
          PROVE  ~listener'[job'[v].snapshot[job'[v].route]].open
      <4>1. References' /\ JobsOK'
        BY ReferencesStep, JobsStep DEF References
      <4>2. job'[v].route \in Routes /\ job'[v].snapshot[job'[v].route] # None
        BY <3>4, <4>1 DEF JobsOK, GoodJob, InHand
      <4>3. listener'[job'[v].snapshot[job'[v].route]] # None
        BY <4>1, <4>2 DEF References, ReferencesLive
      <4>4. CASE v = w
        BY <3>2, <3>3, <4>3, <4>4 DEF StaysOpen
      <4>5. CASE v # w
        <5>1. job'[v] = job[v]
          BY <3>2, <4>5 DEF Others
        <5>2. job[v].snapshot[job[v].route] \in Listeners
          BY <4>2, <5>1 DEF JobsOK, GoodJob, Job
        <5> QED
          BY <3>4, <4>3, <5>1, <5>2 DEF RemovedIsClosed, NoneOpened
      <4> QED
        BY <4>4, <4>5
    <3> QED
      BY <3>4 DEF RemovedIsClosed
  <2> QED
    BY <2>1, <2>2
<1>6. ASSUME NEW w \in Workers, Unpublish(w)
      PROVE  RemovedIsClosed'
  <2>1. Others(w) /\ job'[w].pc # "unpublish"
    BY <1>6, UnpublishJob, WorkerOf DEF Finished
  <2> QED
    BY <2>1, ReferencesStep, WorkerOf, RemovedKept
<1>7. ASSUME NEW w \in Workers, ClearRoute(w)
      PROVE  RemovedIsClosed'
  <2>1. Others(w) /\ job'[w].pc # "unpublish"
    BY <1>7, ClearRouteJob, WorkerOf DEF Finished
  <2> QED
    BY <2>1, ReferencesStep, WorkerOf, RemovedKept
<1>8. ASSUME NEW w \in Workers, VisitEnd(w)
      PROVE  RemovedIsClosed'
  <2>1. Others(w) /\ job'[w].pc # "unpublish"
    BY <1>8, VisitEndJob, WorkerOf DEF Finished
  <2> QED
    BY <2>1, ReferencesStep, WorkerOf, RemovedKept
<1>9. ASSUME NEW w \in Workers, ApplyNext(w)
      PROVE  RemovedIsClosed'
  <2>1. Others(w) /\ job'[w].pc # "unpublish"
    BY <1>9, ApplyNextJob, WorkerOf DEF Finished
  <2> QED
    BY <2>1, ReferencesStep, WorkerOf, RemovedKept
<1>10. ASSUME NEW w \in Workers, Reserve(w)
      PROVE  RemovedIsClosed'
  <2>1. Others(w) /\ job'[w].pc # "unpublish"
    BY <1>10, ReserveJob, WorkerOf DEF Finished
  <2> QED
    BY <2>1, ReferencesStep, WorkerOf, RemovedKept
<1>11. ASSUME NEW w \in Workers, Listen(w)
      PROVE  RemovedIsClosed'
  <2>1. Others(w) /\ job'[w].pc # "unpublish"
    BY <1>11, ListenJob, WorkerOf DEF Finished
  <2> QED
    BY <2>1, ReferencesStep, WorkerOf, RemovedKept
<1>12. ASSUME NEW w \in Workers, Publish(w)
      PROVE  RemovedIsClosed'
  <2>1. Others(w) /\ job'[w].pc # "unpublish"
    BY <1>12, PublishJob, WorkerOf DEF Finished
  <2> QED
    BY <2>1, ReferencesStep, WorkerOf, RemovedKept
<1>13. ASSUME NEW w \in Workers, WriteRuntime(w)
      PROVE  RemovedIsClosed'
  <2>1. Others(w) /\ job'[w].pc # "unpublish"
    BY <1>13, WriteRuntimeJob, WorkerOf DEF Finished
  <2> QED
    BY <2>1, ReferencesStep, WorkerOf, RemovedKept
<1>14. ASSUME NEW w \in Workers, SendRoutes(w)
      PROVE  RemovedIsClosed'
  <2>1. Others(w) /\ job'[w].pc # "unpublish"
    BY <1>14, SendRoutesJob, WorkerOf DEF Finished
  <2> QED
    BY <2>1, ReferencesStep, WorkerOf, RemovedKept
<1>15. ASSUME NEW s \in Sessions, RegisterClient(s)
      PROVE  RemovedIsClosed'
  <2>1. Others(s) /\ job'[s].pc # "unpublish"
    BY <1>15, RegisterClientJob, WorkerOf DEF Finished
  <2> QED
    BY <2>1, ReferencesStep, WorkerOf, RemovedKept
<1>16. ASSUME NEW s \in Sessions, CloseReplaced(s)
      PROVE  RemovedIsClosed'
  <2>1. Others(s) /\ job'[s].pc # "unpublish"
    BY <1>16, CloseReplacedJob, WorkerOf DEF Finished
  <2> QED
    BY <2>1, ReferencesStep, WorkerOf, RemovedKept
<1>17. ASSUME NEW s \in Sessions, HandlerList(s)
      PROVE  RemovedIsClosed'
  <2>1. Others(s) /\ job'[s].pc # "unpublish"
    BY <1>17, HandlerListJob, WorkerOf DEF Finished
  <2> QED
    BY <2>1, ReferencesStep, WorkerOf, RemovedKept
<1>18. ASSUME NEW s \in Sessions, UnregisterClient(s)
      PROVE  RemovedIsClosed'
  <2>1. Others(s) /\ job'[s].pc # "unpublish"
    BY <1>18, UnregisterClientJob, WorkerOf DEF Finished
  <2> QED
    BY <2>1, ReferencesStep, WorkerOf, RemovedKept
<1>19. ASSUME NEW s \in Sessions, CloseOwn(s)
      PROVE  RemovedIsClosed'
  <2>1. Others(s) /\ job'[s].pc # "unpublish"
    BY <1>19, CloseOwnJob, WorkerOf DEF Finished
  <2> QED
    BY <2>1, ReferencesStep, WorkerOf, RemovedKept
<1>20. ASSUME NEW s \in Sessions, MarkOwn(s)
      PROVE  RemovedIsClosed'
  <2>1. Others(s) /\ job'[s].pc # "unpublish"
    BY <1>20, MarkOwnJob, WorkerOf DEF Finished
  <2> QED
    BY <2>1, ReferencesStep, WorkerOf, RemovedKept
<1>21. ASSUME NEW r \in Routes, DeleteRoute(r)
      PROVE  RemovedIsClosed'
  <2>1. UNCHANGED job
    BY <1>21 DEF DeleteRoute
  <2> QED
    BY <2>1, ReferencesStep, RemovedSame
<1>22. ASSUME NEW r \in Routes, NEW req \in Requests[r], SaveRoute(r, req)
      PROVE  RemovedIsClosed'
  <2>1. UNCHANGED job
    BY <1>22 DEF SaveRoute
  <2> QED
    BY <2>1, ReferencesStep, RemovedSame
<1>23. CASE UNCHANGED vars
  BY <1>23 DEF vars, RemovedIsClosed, sessionVars, hostVars
<1> QED
  BY <1>1, <1>2, <1>3, <1>4, <1>5, <1>6, <1>7, <1>8, <1>9, <1>10, <1>11, <1>12, <1>13, <1>14,
     <1>15, <1>16, <1>17, <1>18, <1>19, <1>20, <1>21, <1>22, <1>23, NextCases

\* So it is after every step.
LEMMA RemovedStep ==
    ASSUME TypeOK, JobsOK, ReplacedOK, References, RemovedIsClosed, [Next]_vars
    PROVE  RemovedIsClosed'
<1>1. CASE NoneOpened
  BY <1>1, RemovedQuietStep
<1>2. ASSUME NEW w \in Workers, Opens(w)
      PROVE  RemovedIsClosed'
  <2>1. /\ Others(w) /\ NewListener \in Listeners /\ listener[NewListener] = None
        /\ \A l \in Listeners \ {NewListener} : listener'[l] = listener[l]
    BY <1>2, OpensEffect
  <2>2. ASSUME NEW v \in Workers, job'[v].pc = "unpublish"
        PROVE  ~listener'[job'[v].snapshot[job'[v].route]].open
    <3>1. job'[v] = job[v]
      BY <1>2, <2>1, <2>2 DEF Others, Opens
    <3>2. job[v].route \in Routes /\ job[v].snapshot[job[v].route] \in Listeners
      BY <2>2, <3>1 DEF JobsOK, GoodJob, Job, InHand
    <3>3. job[v].snapshot[job[v].route] # NewListener
      BY <2>1, <3>2, NoneAssumption DEF References, ReferencesLive
    <3> QED
      BY <2>1, <2>2, <3>1, <3>2, <3>3 DEF RemovedIsClosed
  <2> QED
    BY <2>2 DEF RemovedIsClosed
<1> QED
  BY <1>1, <1>2, OpenedStep

-----------------------------------------------------------------------------
(* Listeners that are lost *)

\* What is open afterwards has an owner if it had one.
LEMMA LostKept ==
    ASSUME LostOnlyByOverlap, NoneOpened, overlapped \subseteq overlapped',
           \A l \in Listeners : IsOpen(l) /\ IsOpen(l)' /\ Owned(l) =>
               Owned(l)' \/ listener[l].sess \in overlapped'
    PROVE  LostOnlyByOverlap'
<1>1. \A l \in Listeners : IsOpen(l)' =>
        IsOpen(l) /\ listener'[l].sess = listener[l].sess
  BY DEF NoneOpened, IsOpen
<1> QED
  BY <1>1 DEF LostOnlyByOverlap

\* So it has when nothing is published, withdrawn or created.
LEMMA OwnersKept ==
    ASSUME LostOnlyByOverlap, NoneOpened, overlapped \subseteq overlapped', UNCHANGED routes,
           NEW w \in Workers, Others(w), job'[w].created = job[w].created
    PROVE  LostOnlyByOverlap'
<1>1. \A v \in Workers : job'[v].created = job[v].created
  BY DEF Others
<1>2. \A l \in Listeners : IsOpen(l) /\ IsOpen(l)' /\ Owned(l) => Owned(l)'
  BY <1>1 DEF Owned, IsOpen, NoneOpened
<1> QED
  BY <1>2, LostKept

\* Closing a session loses none of its listeners.
LEMMA CloseSessionOwners ==
    ASSUME TypeOK, References, LostOnlyByOverlap, NEW t \in Sessions, CloseSession(t), UNCHANGED overlapped,
           NEW w \in Workers, Others(w), job'[w].created = job[w].created
    PROVE  LostOnlyByOverlap'
<1>1. NoneOpened /\ \A r \in Routes : routes[t][r] # None => ~StaysOpen(routes[t][r])
  BY CloseSessionOpensNothing
<1>2. \A v \in Workers : job'[v].created = job[v].created
  BY DEF Others
<1>3. \A s \in Sessions \ {t} : routes'[s] = routes[s]
  BY DEF CloseSession, TypeOK
<1>4. ASSUME NEW l \in Listeners, IsOpen(l), IsOpen(l)', Owned(l)
      PROVE  Owned(l)'
  <2>1. /\ listener'[l].sess = listener[l].sess /\ listener'[l].route = listener[l].route
        /\ listener[l].sess \in Sessions /\ listener[l].route \in Routes
    BY <1>1, <1>4 DEF NoneOpened, IsOpen, TypeOK, Listener
  <2>2. CASE routes[listener[l].sess][listener[l].route] = l
    <3>1. listener[l].sess # t
      BY <1>1, <1>4, <2>1, <2>2, NoneAssumption DEF IsOpen, StaysOpen
    <3> QED
      BY <1>3, <2>1, <2>2, <3>1 DEF Owned
  <2>3. CASE \E v \in Workers : job[v].created = l
    BY <1>2, <2>3 DEF Owned
  <2> QED
    BY <1>4, <2>2, <2>3 DEF Owned
<1> QED
  BY <1>1, <1>4, LostKept

-----------------------------------------------------------------------------
\* Whatever leaves the map of its session is closed, unless a second worker replaced it.
LEMMA LostQuietStep ==
    ASSUME TypeOK, JobsOK, ReplacedOK, References, SlotStaysEmpty, RemovedIsClosed, LostOnlyByOverlap, NoneOpened, [Next]_vars
    PROVE  LostOnlyByOverlap'
<1>1. CASE SyncList
  <2>1. job[Syncer].created = None
    BY <1>1, WorkerOf DEF SyncList, JobsOK, GoodJob
  <2> QED
    BY <1>1, <2>1, WorkerOf, SyncListJob, OwnersKept DEF SyncList, hostVars, Same, Finished
<1>2. CASE SyncSessions
  <2>1. job[Syncer].created = None
    BY <1>2, WorkerOf DEF SyncSessions, JobsOK, GoodJob
  <2> QED
    BY <1>2, <2>1, WorkerOf, SyncSessionsJob, OwnersKept DEF SyncSessions, hostVars, Same, Finished
<1>3. CASE Restart
  BY <1>3 DEF Restart, LostOnlyByOverlap, IsOpen
<1>4. ASSUME NEW w \in Workers, Begin(w)
      PROVE  LostOnlyByOverlap'
  <2>1. job[w].created = None
    BY <1>4 DEF Begin, JobsOK, GoodJob
  <2>2. Others(w) /\ job'[w].created = None
    BY <1>4, <2>1, BeginJob DEF Finished
  <2>3. UNCHANGED routes /\ overlapped \subseteq overlapped'
    BY <1>4 DEF Begin, hostVars
  <2> QED
    BY <2>1, <2>2, <2>3, OwnersKept
<1>5. ASSUME NEW w \in Workers, VisitCurrent(w)
      PROVE  LostOnlyByOverlap'
  <2>1. job[w].created = None
    BY <1>5, WorkerOf DEF VisitCurrent, JobsOK, GoodJob
  <2> QED
    BY <1>5, <2>1, WorkerOf, VisitCurrentJob, OwnersKept DEF VisitCurrent, hostVars, Same, Finished
<1>6. ASSUME NEW w \in Workers, Unpublish(w)
      PROVE  LostOnlyByOverlap'
  <2>1. /\ Others(w) /\ job'[w].created = job[w].created /\ UNCHANGED <<listener, overlapped>>
    BY <1>6, UnpublishJob DEF Unpublish, Same
  <2>2. \A v \in Workers : job'[v].created = job[v].created
    BY <2>1 DEF Others
  <2>3. \A s \in Sessions, r \in Routes :
          \/ routes'[s][r] = routes[s][r]
          \/ s = job[w].target /\ r = job[w].route /\ routes[s][r] = job[w].snapshot[job[w].route]
    BY <1>6 DEF Unpublish, TypeOK
  <2>4. ~listener[job[w].snapshot[job[w].route]].open
    BY <1>6 DEF Unpublish, RemovedIsClosed
  <2>5. ASSUME NEW l \in Listeners, IsOpen(l), Owned(l)
        PROVE  Owned(l)'
    <3>1. listener[l].sess \in Sessions /\ listener[l].route \in Routes
      BY <2>5 DEF IsOpen, TypeOK, Listener
    <3> QED
      BY <2>1, <2>2, <2>3, <2>4, <2>5, <3>1 DEF Owned, IsOpen
  <2> QED
    BY <2>1, <2>5, LostKept
<1>7. ASSUME NEW w \in Workers, ClearRoute(w)
      PROVE  LostOnlyByOverlap'
  <2>1. job[w].created = None
    BY <1>7, WorkerOf DEF ClearRoute, JobsOK, GoodJob
  <2> QED
    BY <1>7, <2>1, WorkerOf, ClearRouteJob, OwnersKept DEF ClearRoute, hostVars, Same, Finished
<1>8. ASSUME NEW w \in Workers, VisitEnd(w)
      PROVE  LostOnlyByOverlap'
  <2>1. job[w].created = None
    BY <1>8, WorkerOf DEF VisitEnd, JobsOK, GoodJob
  <2> QED
    BY <1>8, <2>1, WorkerOf, VisitEndJob, OwnersKept DEF VisitEnd, hostVars, Same, Finished
<1>9. ASSUME NEW w \in Workers, ApplyNext(w)
      PROVE  LostOnlyByOverlap'
  <2>1. job[w].created = None
    BY <1>9, WorkerOf DEF ApplyNext, JobsOK, GoodJob
  <2> QED
    BY <1>9, <2>1, WorkerOf, ApplyNextJob, OwnersKept DEF ApplyNext, hostVars, Same, Finished
<1>10. ASSUME NEW w \in Workers, Reserve(w)
      PROVE  LostOnlyByOverlap'
  <2>1. job[w].created = None
    BY <1>10, WorkerOf DEF Reserve, JobsOK, GoodJob
  <2> QED
    BY <1>10, <2>1, WorkerOf, ReserveJob, OwnersKept DEF Reserve, hostVars, Same, Finished
<1>11. ASSUME NEW w \in Workers, Listen(w)
      PROVE  LostOnlyByOverlap'
  <2>1. job[w].created = None
    BY <1>11 DEF Listen, JobsOK, GoodJob
  <2>2. Others(w) /\ UNCHANGED <<routes, overlapped>>
    BY <1>11, ListenJob DEF Listen
  <2>3. \A v \in Workers, l \in Listeners : job[v].created = l => job'[v].created = l
    BY <2>1, <2>2, NoneAssumption DEF Others
  <2>4. \A l \in Listeners : IsOpen(l) /\ IsOpen(l)' /\ Owned(l) => Owned(l)'
    BY <2>2, <2>3 DEF Owned, IsOpen, NoneOpened
  <2> QED
    BY <2>2, <2>4, LostKept
<1>12. ASSUME NEW w \in Workers, Publish(w)
      PROVE  LostOnlyByOverlap'
  <2>1. job[w].created # None /\ job[w].target \in Sessions /\ job[w].route \in Routes
    BY <1>12 DEF Publish, JobsOK, GoodJob, Job, Applying, ApplyStates, InHand
  <2>2. Others(w) /\ UNCHANGED overlapped
    BY <1>12, PublishJob DEF Publish
  <2>3. CASE sessClosed[job[w].target]
    <3>1. UNCHANGED routes /\ listener' = Live(Closed({job[w].created}), routes', job')
      BY <1>12, <2>3 DEF Publish
    <3>2. ~StaysOpen(job[w].created)
      BY <2>1, <3>1, CreatedListener, ClosedOpensNothing DEF References
    <3>3. \A l \in Listeners : IsOpen(l) /\ IsOpen(l)' /\ Owned(l) => Owned(l)'
      <4>1. \A v \in Workers, l \in Listeners : job[v].created = l /\ IsOpen(l)' => job'[v].created = l
        BY <2>2, <3>2 DEF Others, IsOpen, StaysOpen
      <4> QED
        BY <3>1, <4>1 DEF Owned, IsOpen, NoneOpened
    <3> QED
      BY <2>2, <3>3, LostKept
  <2>4. CASE ~sessClosed[job[w].target]
    <3>1. UNCHANGED listener /\ routes' = [routes EXCEPT ![job[w].target][job[w].route] = job[w].created]
      BY <1>12, <2>4 DEF Publish
    <3>2. routes'[job[w].target][job[w].route] = job[w].created
      BY <2>1, <3>1 DEF TypeOK
    <3>3. \A s \in Sessions, r \in Routes :
            s # job[w].target \/ r # job[w].route => routes'[s][r] = routes[s][r]
      BY <3>1 DEF TypeOK
    <3>4. ASSUME NEW l \in Listeners, IsOpen(l), Owned(l)
          PROVE  Owned(l)' \/ listener[l].sess \in overlapped'
      <4>1. listener[l].sess \in Sessions /\ listener[l].route \in Routes
        BY <3>4 DEF IsOpen, TypeOK, Listener
      <4>2. CASE l = job[w].created
        BY <2>1, <3>1, <3>2, <4>2 DEF Owned, References, CreatedIsPrivate
      <4>3. ASSUME NEW v \in Workers, job[v].created = l, v # w
            PROVE  Owned(l)'
        BY <2>2, <4>3 DEF Owned, Others
      <4>4. CASE routes[listener[l].sess][listener[l].route] = l
        <5>1. CASE listener[l].sess = job[w].target /\ listener[l].route = job[w].route
          BY <1>12, <2>2, <4>4, <5>1, NoneAssumption DEF SlotStaysEmpty, Publish
        <5>2. CASE listener[l].sess # job[w].target \/ listener[l].route # job[w].route
          BY <3>1, <3>3, <4>1, <4>4, <5>2 DEF Owned
        <5> QED
          BY <5>1, <5>2
      <4> QED
        BY <3>4, <4>2, <4>3, <4>4 DEF Owned
    <3> QED
      BY <2>2, <3>4, LostKept
  <2> QED
    BY <2>3, <2>4
<1>13. ASSUME NEW w \in Workers, WriteRuntime(w)
      PROVE  LostOnlyByOverlap'
  <2>1. job[w].created = None
    BY <1>13, WorkerOf DEF WriteRuntime, JobsOK, GoodJob
  <2> QED
    BY <1>13, <2>1, WorkerOf, WriteRuntimeJob, OwnersKept DEF WriteRuntime, hostVars, Same, Finished
<1>14. ASSUME NEW w \in Workers, SendRoutes(w)
      PROVE  LostOnlyByOverlap'
  <2>1. job[w].created = None
    BY <1>14, WorkerOf DEF SendRoutes, JobsOK, GoodJob
  <2> QED
    BY <1>14, <2>1, WorkerOf, SendRoutesJob, OwnersKept DEF SendRoutes, hostVars, Same, Finished
<1>15. ASSUME NEW s \in Sessions, RegisterClient(s)
      PROVE  LostOnlyByOverlap'
  <2>1. Others(s) /\ job'[s].created = job[s].created
    BY <1>15, RegisterClientJob DEF Same
  <2>2. UNCHANGED <<routes, overlapped>>
    BY <1>15 DEF RegisterClient
  <2> QED
    BY <2>1, <2>2, WorkerOf, OwnersKept
<1>16. ASSUME NEW s \in Sessions, CloseReplaced(s)
      PROVE  LostOnlyByOverlap'
  <2>1. replaced[s] \in Sessions /\ CloseSession(replaced[s]) /\ UNCHANGED overlapped
    BY <1>16 DEF CloseReplaced, ReplacedOK, TypeOK
  <2> QED
    BY <1>16, <2>1, WorkerOf, CloseReplacedJob, CloseSessionOwners DEF Same
<1>17. ASSUME NEW s \in Sessions, HandlerList(s)
      PROVE  LostOnlyByOverlap'
  <2>1. job[s].created = None
    BY <1>17, WorkerOf DEF HandlerList, JobsOK, GoodJob
  <2> QED
    BY <1>17, <2>1, WorkerOf, HandlerListJob, OwnersKept DEF HandlerList, hostVars, Same, Finished
<1>18. ASSUME NEW s \in Sessions, UnregisterClient(s)
      PROVE  LostOnlyByOverlap'
  <2>1. job[s].created = None
    BY <1>18, WorkerOf DEF UnregisterClient, JobsOK, GoodJob
  <2> QED
    BY <1>18, <2>1, WorkerOf, UnregisterClientJob, OwnersKept DEF UnregisterClient, hostVars, Same, Finished
<1>19. ASSUME NEW s \in Sessions, CloseOwn(s)
      PROVE  LostOnlyByOverlap'
  <2>1. Others(s) /\ job'[s].created = job[s].created /\ UNCHANGED overlapped
    BY <1>19, CloseOwnJob DEF CloseOwn, Same
  <2>2. CASE UNCHANGED routes
    BY <2>1, <2>2, WorkerOf, OwnersKept
  <2>3. CASE CloseSession(s)
    BY <2>1, <2>3, WorkerOf, CloseSessionOwners
  <2> QED
    BY <1>19, <2>2, <2>3 DEF CloseOwn, hostVars
<1>20. ASSUME NEW s \in Sessions, MarkOwn(s)
      PROVE  LostOnlyByOverlap'
  <2>1. job[s].created = None
    BY <1>20, WorkerOf DEF MarkOwn, JobsOK, GoodJob
  <2> QED
    BY <1>20, <2>1, WorkerOf, MarkOwnJob, OwnersKept DEF MarkOwn, hostVars, Same, Finished
<1>21. ASSUME NEW r \in Routes, DeleteRoute(r)
      PROVE  LostOnlyByOverlap'
  <2>1. UNCHANGED <<listener, routes, job, overlapped>>
    BY <1>21 DEF DeleteRoute, hostVars
  <2> QED
    BY <2>1 DEF LostOnlyByOverlap, IsOpen, Owned
<1>22. ASSUME NEW r \in Routes, NEW req \in Requests[r], SaveRoute(r, req)
      PROVE  LostOnlyByOverlap'
  <2>1. UNCHANGED <<listener, routes, job, overlapped>>
    BY <1>22 DEF SaveRoute, hostVars
  <2> QED
    BY <2>1 DEF LostOnlyByOverlap, IsOpen, Owned
<1>23. CASE UNCHANGED vars
  BY <1>23 DEF vars, LostOnlyByOverlap, IsOpen, Owned, sessionVars, hostVars
<1> QED
  BY <1>1, <1>2, <1>3, <1>4, <1>5, <1>6, <1>7, <1>8, <1>9, <1>10, <1>11, <1>12, <1>13, <1>14,
     <1>15, <1>16, <1>17, <1>18, <1>19, <1>20, <1>21, <1>22, <1>23, NextCases

\* So it is after every step: a new listener belongs to its creator.
LEMMA LostStep ==
    ASSUME TypeOK, JobsOK, ReplacedOK, References, SlotStaysEmpty, RemovedIsClosed,
           LostOnlyByOverlap, [Next]_vars
    PROVE  LostOnlyByOverlap'
<1>1. CASE NoneOpened
  BY <1>1, LostQuietStep
<1>2. ASSUME NEW w \in Workers, Opens(w)
      PROVE  LostOnlyByOverlap'
  <2>1. /\ Others(w) /\ UNCHANGED <<routes, overlapped>> /\ job[w].created = None
        /\ job'[w].created = NewListener
        /\ NewListener \in Listeners /\ listener[NewListener] = None
        /\ \A l \in Listeners \ {NewListener} : listener'[l] = listener[l]
    BY <1>2, OpensEffect
  <2>2. \A v \in Workers, l \in Listeners : job[v].created = l => job'[v].created = l
    BY <2>1, NoneAssumption DEF Others
  <2>3. \A l \in Listeners \ {NewListener} : IsOpen(l)' /\ ~Owned(l)' => IsOpen(l) /\ ~Owned(l)
    BY <2>1, <2>2 DEF IsOpen, Owned
  <2>4. ASSUME NEW l \in Listeners, l = NewListener
        PROVE  Owned(l)'
    BY <2>1, <2>4 DEF Owned
  <2> QED
    BY <2>1, <2>3, <2>4 DEF LostOnlyByOverlap
<1> QED
  BY <1>1, <1>2, OpenedStep

\* Another worker's step leaves the displaced sessions in place.
LEMMA ReplacedKept ==
    ASSUME ReplacedOK, NEW w \in Workers, Others(w), job'[w].pc # "replace",
           \A t \in Sessions : t # w => replaced'[t] = replaced[t]
    PROVE  ReplacedOK'
BY WorkerOf DEF ReplacedOK, Others

-----------------------------------------------------------------------------
\* The session a handler displaced is there until the handler has closed it.
LEMMA ReplacedStep ==
    ASSUME TypeOK, JobsOK, ReplacedOK, [Next]_vars
    PROVE  ReplacedOK'
<1>1. CASE SyncList
  <2>1. Others(Syncer) /\ job'[Syncer].pc # "replace" /\ UNCHANGED replaced
    BY <1>1, SyncListJob, WorkerOf DEF SyncList, sessionVars, Finished
  <2> QED
    BY <2>1, WorkerOf, ReplacedKept
<1>2. CASE SyncSessions
  <2>1. Others(Syncer) /\ job'[Syncer].pc # "replace" /\ UNCHANGED replaced
    BY <1>2, SyncSessionsJob, WorkerOf DEF SyncSessions, sessionVars, Finished
  <2> QED
    BY <2>1, WorkerOf, ReplacedKept
<1>3. CASE Restart
  BY <1>3, WorkerOf DEF Restart, NoJob, ReplacedOK
<1>4. ASSUME NEW w \in Workers, Begin(w)
      PROVE  ReplacedOK'
  <2>1. Others(w) /\ job'[w].pc # "replace" /\ UNCHANGED replaced
    BY <1>4, BeginJob, WorkerOf DEF Begin, sessionVars, Finished
  <2> QED
    BY <2>1, WorkerOf, ReplacedKept
<1>5. ASSUME NEW w \in Workers, VisitCurrent(w)
      PROVE  ReplacedOK'
  <2>1. Others(w) /\ job'[w].pc # "replace" /\ UNCHANGED replaced
    BY <1>5, VisitCurrentJob, WorkerOf DEF VisitCurrent, sessionVars, Finished
  <2> QED
    BY <2>1, WorkerOf, ReplacedKept
<1>6. ASSUME NEW w \in Workers, Unpublish(w)
      PROVE  ReplacedOK'
  <2>1. Others(w) /\ job'[w].pc # "replace" /\ UNCHANGED replaced
    BY <1>6, UnpublishJob, WorkerOf DEF Unpublish, sessionVars, Finished
  <2> QED
    BY <2>1, WorkerOf, ReplacedKept
<1>7. ASSUME NEW w \in Workers, ClearRoute(w)
      PROVE  ReplacedOK'
  <2>1. Others(w) /\ job'[w].pc # "replace" /\ UNCHANGED replaced
    BY <1>7, ClearRouteJob, WorkerOf DEF ClearRoute, sessionVars, Finished
  <2> QED
    BY <2>1, WorkerOf, ReplacedKept
<1>8. ASSUME NEW w \in Workers, VisitEnd(w)
      PROVE  ReplacedOK'
  <2>1. Others(w) /\ job'[w].pc # "replace" /\ UNCHANGED replaced
    BY <1>8, VisitEndJob, WorkerOf DEF VisitEnd, sessionVars, Finished
  <2> QED
    BY <2>1, WorkerOf, ReplacedKept
<1>9. ASSUME NEW w \in Workers, ApplyNext(w)
      PROVE  ReplacedOK'
  <2>1. Others(w) /\ job'[w].pc # "replace" /\ UNCHANGED replaced
    BY <1>9, ApplyNextJob, WorkerOf DEF ApplyNext, sessionVars, Finished
  <2> QED
    BY <2>1, WorkerOf, ReplacedKept
<1>10. ASSUME NEW w \in Workers, Reserve(w)
      PROVE  ReplacedOK'
  <2>1. Others(w) /\ job'[w].pc # "replace" /\ UNCHANGED replaced
    BY <1>10, ReserveJob, WorkerOf DEF Reserve, sessionVars, Finished
  <2> QED
    BY <2>1, WorkerOf, ReplacedKept
<1>11. ASSUME NEW w \in Workers, Listen(w)
      PROVE  ReplacedOK'
  <2>1. Others(w) /\ job'[w].pc # "replace" /\ UNCHANGED replaced
    BY <1>11, ListenJob, WorkerOf DEF Listen, sessionVars, Finished
  <2> QED
    BY <2>1, WorkerOf, ReplacedKept
<1>12. ASSUME NEW w \in Workers, Publish(w)
      PROVE  ReplacedOK'
  <2>1. Others(w) /\ job'[w].pc # "replace" /\ UNCHANGED replaced
    BY <1>12, PublishJob, WorkerOf DEF Publish, sessionVars, Finished
  <2> QED
    BY <2>1, WorkerOf, ReplacedKept
<1>13. ASSUME NEW w \in Workers, WriteRuntime(w)
      PROVE  ReplacedOK'
  <2>1. Others(w) /\ job'[w].pc # "replace" /\ UNCHANGED replaced
    BY <1>13, WriteRuntimeJob, WorkerOf DEF WriteRuntime, sessionVars, Finished
  <2> QED
    BY <2>1, WorkerOf, ReplacedKept
<1>14. ASSUME NEW w \in Workers, SendRoutes(w)
      PROVE  ReplacedOK'
  <2>1. Others(w) /\ job'[w].pc # "replace" /\ UNCHANGED replaced
    BY <1>14, SendRoutesJob, WorkerOf DEF SendRoutes, sessionVars, Finished
  <2> QED
    BY <2>1, WorkerOf, ReplacedKept
<1>15. ASSUME NEW s \in Sessions, RegisterClient(s)
      PROVE  ReplacedOK'
  <2>1. Others(s) /\ job'[s].pc = (IF current = None THEN "list" ELSE "replace")
    BY <1>15, RegisterClientJob
  <2>2. replaced'[s] = current /\ \A t \in Sessions : t # s => replaced'[t] = replaced[t]
    BY <1>15 DEF RegisterClient, TypeOK
  <2> QED
    BY <2>1, <2>2, WorkerOf DEF ReplacedOK, Others
<1>16. ASSUME NEW s \in Sessions, CloseReplaced(s)
      PROVE  ReplacedOK'
  <2>1. Others(s) /\ job'[s].pc # "replace"
    BY <1>16, CloseReplacedJob
  <2>2. \A t \in Sessions : t # s => replaced'[t] = replaced[t]
    BY <1>16 DEF CloseReplaced, TypeOK
  <2> QED
    BY <2>1, <2>2, WorkerOf, ReplacedKept
<1>17. ASSUME NEW s \in Sessions, HandlerList(s)
      PROVE  ReplacedOK'
  <2>1. Others(s) /\ job'[s].pc # "replace" /\ UNCHANGED replaced
    BY <1>17, HandlerListJob, WorkerOf DEF HandlerList, sessionVars, Finished
  <2> QED
    BY <2>1, WorkerOf, ReplacedKept
<1>18. ASSUME NEW s \in Sessions, UnregisterClient(s)
      PROVE  ReplacedOK'
  <2>1. Others(s) /\ job'[s].pc # "replace" /\ UNCHANGED replaced
    BY <1>18, UnregisterClientJob, WorkerOf DEF UnregisterClient, sessionVars, Finished
  <2> QED
    BY <2>1, WorkerOf, ReplacedKept
<1>19. ASSUME NEW s \in Sessions, CloseOwn(s)
      PROVE  ReplacedOK'
  <2>1. Others(s) /\ job'[s].pc # "replace" /\ UNCHANGED replaced
    BY <1>19, CloseOwnJob, WorkerOf DEF CloseOwn, sessionVars, Finished
  <2> QED
    BY <2>1, WorkerOf, ReplacedKept
<1>20. ASSUME NEW s \in Sessions, MarkOwn(s)
      PROVE  ReplacedOK'
  <2>1. Others(s) /\ job'[s].pc # "replace" /\ UNCHANGED replaced
    BY <1>20, MarkOwnJob, WorkerOf DEF MarkOwn, sessionVars, Finished
  <2> QED
    BY <2>1, WorkerOf, ReplacedKept
<1>21. ASSUME NEW r \in Routes, DeleteRoute(r)
      PROVE  ReplacedOK'
  BY <1>21 DEF DeleteRoute, sessionVars, ReplacedOK
<1>22. ASSUME NEW r \in Routes, NEW req \in Requests[r], SaveRoute(r, req)
      PROVE  ReplacedOK'
  BY <1>22 DEF SaveRoute, sessionVars, ReplacedOK
<1>23. CASE UNCHANGED vars
  BY <1>23 DEF vars, sessionVars, ReplacedOK
<1> QED
  BY <1>1, <1>2, <1>3, <1>4, <1>5, <1>6, <1>7, <1>8, <1>9, <1>10, <1>11, <1>12, <1>13, <1>14,
     <1>15, <1>16, <1>17, <1>18, <1>19, <1>20, <1>21, <1>22, <1>23, NextCases

-----------------------------------------------------------------------------
(* The theorems *)

\* The invariant holds at the start,
LEMMA InitIInv == Init => IInv
<1> SUFFICES ASSUME Init PROVE IInv
  OBVIOUS
<1> USE DEF Init
<1>1. NoRoutes \in [Routes -> Row \cup {None}] /\ NoRoutes \in [Routes -> Listeners \cup {None}]
  BY DEF NoRoutes
<1>2. \A w \in Workers : job[w] = NoJob
  OBVIOUS
<1>3. JobsOK
  BY DoneIsGood DEF JobsOK
<1>4. TypeOK
  BY <1>1, <1>3 DEF TypeOK, JobsOK, GoodJob
<1>5. ReplacedOK /\ References
  BY <1>2, WorkerOf DEF ReplacedOK, References, ReferencesLive, CreatedIsPrivate, NoJob, NoRoutes
<1>6. ClosedSessionExposesNothing /\ AssignedUnique /\ ActiveIsAssigned
  BY DEF ClosedSessionExposesNothing, AssignedUnique, ActiveIsAssigned, NoRoutes
<1>7. Exclusive /\ SlotStaysEmpty /\ RemovedIsClosed
  BY <1>2 DEF Exclusive, SlotStaysEmpty, RemovedIsClosed, NoJob
<1>8. LostOnlyByOverlap
  BY DEF LostOnlyByOverlap, IsOpen
<1> QED
  BY <1>3, <1>4, <1>5, <1>6, <1>7, <1>8 DEF IInv

\* is kept by every step,
LEMMA NextIInv == IInv /\ [Next]_vars => IInv'
<1> SUFFICES ASSUME IInv, [Next]_vars PROVE IInv'
  OBVIOUS
<1>1. /\ TypeOK /\ JobsOK /\ ReplacedOK /\ References
      /\ ClosedSessionExposesNothing /\ AssignedUnique /\ ActiveIsAssigned
      /\ Exclusive /\ SlotStaysEmpty /\ RemovedIsClosed /\ LostOnlyByOverlap
  BY DEF IInv
<1>2. ReferencesLive
  BY <1>1 DEF References
<1>3. TypeOK' /\ JobsOK'
  BY <1>1, <1>2, TypeOKStep, JobsStep
<1>4. ReplacedOK' /\ References'
  BY <1>1, ReplacedStep, ReferencesStep
<1>5. ClosedSessionExposesNothing'
  BY <1>1, ClosedSessionStep
<1>6. AssignedUnique' /\ ActiveIsAssigned'
  BY <1>1, AssignedUniqueStep, ActiveStep
<1>7. Exclusive' /\ SlotStaysEmpty'
  BY <1>1, ExclusiveStep, SlotStep
<1>8. RemovedIsClosed' /\ LostOnlyByOverlap'
  BY <1>1, RemovedStep, LostStep
<1> QED
  BY <1>3, <1>4, <1>5, <1>6, <1>7, <1>8 DEF IInv

\* and so holds always.
LEMMA InductiveInvariant == Spec => []IInv
BY InitIInv, NextIInv, PTL DEF Spec

\* However the sync loop and the handlers that apply the routes of a client overlap, and
\* whenever its session is closed: a closed session has no listener in its map
\* (applyRoutes looks at "closed" again before it publishes), no two routes of a
\* protocol have one port for good, and the database shows no route active on a port
\* that is not its own (UpdateRouteRuntime and its unique index).
THEOREM RoutesAreSafe == Spec => []RoutesSafe
<1>1. IInv => RoutesSafe
  BY DEF IInv, RoutesSafe
<1> QED
  BY <1>1, InductiveInvariant, PTL

\* A listening socket of applyRoutes always has somebody who will close it (the map of
\* its session, or the worker that has just created it), unless two workers applied
\* routes to that session at the same time.
THEOREM ListenersAreKept == Spec => []LostOnlyByOverlap
<1>1. IInv => LostOnlyByOverlap
  BY DEF IInv
<1> QED
  BY <1>1, InductiveInvariant, PTL

\* The first port UpdateRouteRuntime records for a route is its port until it is deleted:
\* no save, clearing, disconnection or restart changes it.
THEOREM AssignedPortsStay == Spec => AssignedStable
<1>1. IInv /\ [Next]_vars =>
        [\A r \in Routes :
            rows[r] # None /\ rows[r].assigned # 0 /\ rows'[r] # None =>
                rows'[r].assigned = rows[r].assigned]_vars
  BY StableStep DEF IInv
<1> QED
  BY <1>1, InductiveInvariant, PTL DEF Spec, AssignedStable
=============================================================================
