------------------------ MODULE QuicControl_proofs ------------------------
(***************************************************************************)
(* The QUIC tunnel server loses no session and no listener, for any        *)
(* number of sessions, routes and bindings, except in the two ways the     *)
(* properties name: a presence write that fails, and two workers that      *)
(* apply routes to one session at a time.                                  *)
(*                                                                         *)
(* The argument has two halves.  Sessions: one that is open has the name,  *)
(* or somebody is committed to close it, the handler that displaced it,    *)
(* its own handler or the closer; or it is so new that nothing points to   *)
(* it (OwnedOK).  Bindings: whatever the maps and the copies of the        *)
(* workers point to is an object of that session and route (ReferencesLive)*)
(* and a binding that is not published yet is known to its creator alone   *)
(* (CreatedIsPrivate), so that a worker which publishes one overwrites     *)
(* another only when a second worker of the session filled the slot        *)
(* meanwhile (Exclusive, SlotStaysEmpty), and what leaves a map was closed *)
(* before (RemovedIsClosed).  The steps of a worker and of session.close() *)
(* are reduced to what they do to the objects (ObjectsKept).               *)
(***************************************************************************)
EXTENDS QuicControl, TLAPS

\* A worker past the beginning of applyRoutes has a session, and a binding it created
\* until it is published.
GoodJob ==
    {j \in Job :
        /\ j.pc \notin {"idle", "sessions"} <=> j.target # None
        /\ j.pc \in {"unpublish", "publish"} => j.route \in Routes
        /\ j.pc = "publish" <=> j.created # None
        /\ j.pc \notin {"retire", "unpublish"} => j.snapshot = NoRoutes
        /\ j.pc = "unpublish" => j.snapshot[j.route] # None
        /\ j.pc \notin {"expose", "publish"} => j.todo = {}
        /\ \A r \in j.todo : j.desired[r] # None}

JobsOK == job \in [Workers -> GoodJob]

\* A handler applies routes in its own goroutine.
HandlerJobs == \A s \in Sessions : job[s].pc # "idle" => handler[s] = "apply"

\* A binding some variable points to is an object, of that session and route.
ReferencesLive ==
    /\ \A s \in Sessions, r \in Routes : bound[s][r] # None =>
         /\ binding[bound[s][r]] # None
         /\ binding[bound[s][r]].sess = s /\ binding[bound[s][r]].route = r
    /\ \A w \in Workers, r \in Routes : job[w].snapshot[r] # None =>
         binding[job[w].snapshot[r]] # None

\* A binding that is not published yet is open, and its creator alone knows it.
CreatedIsPrivate ==
    \A w \in Workers : job[w].created # None =>
        /\ IsOpen(job[w].created)
        /\ binding[job[w].created].sess = job[w].target
        /\ binding[job[w].created].route = job[w].route
        /\ \A v \in Workers, r \in Routes : job[v].snapshot[r] # job[w].created
        /\ \A s \in Sessions, r \in Routes : bound[s][r] # job[w].created
        /\ \A v \in Workers \ {w} : job[v].created # job[w].created

References == ReferencesLive /\ CreatedIsPrivate

\* Only a session in "overlapped" has two workers past the beginning of applyRoutes.
Exclusive ==
    \A v, w \in Workers :
        /\ v # w /\ job[v].target = job[w].target /\ job[v].target # None
        /\ job[v].pc # "begin" /\ job[w].pc # "begin"
        => job[v].target \in overlapped

\* While a worker has a new binding of a route nobody else publishes one.
SlotStaysEmpty ==
    \A w \in Workers :
        job[w].pc = "publish" /\ job[w].target \notin overlapped =>
            bound[job[w].target][job[w].route] = None

\* The binding a worker is about to take out of the map is closed.
RemovedIsClosed ==
    \A w \in Workers : job[w].pc = "unpublish" => ~binding[job[w].snapshot[job[w].route]].open

\* Only close() has sessions to close, and only a running server has a current one.
ServerOK ==
    /\ queue # {} \/ marking => phase = "closing" /\ closed
    /\ phase = "down" => current = None /\ \A s \in Sessions : handler[s] = "idle"
    /\ phase = "closed" => closed
    /\ closed => current = None

\* A session has the name from registerClient to unregisterClient at most.
HandlerOK ==
    \A s \in Sessions :
        /\ handler[s] \in {"hello", "close", "mark"} => current # s
        /\ handler[s] = "mark" => sessClosed[s]
        /\ handler[s] = "replace" <=> displaced[s] # None

\* Nothing points to the session.
Fresh(s) ==
    /\ current # s
    /\ \A w \in Workers : job[w].target # s
    /\ \A b \in Bindings : binding[b] # None => binding[b].sess # s

\* A session that is not closed has somebody who will close it, or is not registered.
Owned(s) ==
    /\ handler[s] = "hello" => Fresh(s)
    /\ ~sessClosed[s] =>
         \/ current = s \/ handler[s] = "close" \/ s \in queue
         \/ \E t \in Sessions : displaced[t] = s
         \/ Fresh(s) /\ (handler[s] = "hello" \/ (handler[s] = "idle" /\ linkDown[s]))

OwnedOK == \A s \in Sessions : Owned(s)

\* The inductive invariant.
IInv ==
    /\ TypeOK /\ JobsOK /\ HandlerJobs /\ References
    /\ Exclusive /\ SlotStaysEmpty /\ RemovedIsClosed /\ LostOnlyByOverlap
    /\ ServerOK /\ HandlerOK /\ OwnedOK /\ PresenceOwned

\* The sync loop and the handlers are the workers.
LEMMA WorkerOf ==
    /\ Syncer \in Workers /\ Sessions \subseteq Workers
    /\ \A s \in Sessions : s # Syncer
BY SyncerAssumption DEF Workers

\* What the types say of the jobs.
LEMMA JobRanges ==
    ASSUME JobsOK, NEW w \in Workers
    PROVE  /\ job[w] \in GoodJob /\ job[w].pc \in ApplyStates
           /\ job[w].target \in Sessions \cup {None} /\ job[w].created \in Bindings \cup {None}
           /\ job[w].snapshot \in [Routes -> Bindings \cup {None}]
           /\ job[w].route \in Routes \cup {None} /\ job[w].todo \subseteq Routes
           /\ job[w].desired \in [Routes -> Requests \cup {None}]
           /\ job[w].pc \notin {"idle", "sessions"} <=> job[w].target # None
           /\ job[w].pc \in {"unpublish", "publish"} => job[w].route \in Routes
           /\ job[w].pc = "publish" <=> job[w].created # None
           /\ job[w].pc \notin {"retire", "unpublish"} => job[w].snapshot = NoRoutes
           /\ job[w].pc = "unpublish" => job[w].snapshot[job[w].route] # None
           /\ job[w].pc \notin {"expose", "publish"} => job[w].todo = {}
           /\ \A r \in job[w].todo : job[w].desired[r] # None
<1>1. job[w] \in GoodJob
  BY DEF JobsOK
<1> QED
  BY <1>1 DEF GoodJob, Job

\* No binding is in the map of no routes.
LEMMA NoRoutesType ==
    /\ NoRoutes \in [Routes -> Bindings \cup {None}]
    /\ NoRoutes \in [Routes -> Requests \cup {None}]
    /\ \A r \in Routes : NoRoutes[r] = None
BY DEF NoRoutes

\* A worker that is done has no session, no binding and no copy.
LEMMA NoJobIsGood ==
    /\ NoJob \in GoodJob
    /\ NoJob.pc = "idle" /\ NoJob.target = None /\ NoJob.created = None /\ NoJob.snapshot = NoRoutes
BY NoRoutesType DEF NoJob, GoodJob, Job, ApplyStates

\* A handler begins to apply the rows it read to its session.
LEMMA JobBegins ==
    ASSUME TypeOK, NEW s \in Sessions
    PROVE  /\ [NoJob EXCEPT !.pc = "begin", !.target = s, !.desired = rows] \in GoodJob
           /\ [NoJob EXCEPT !.pc = "begin", !.target = s, !.desired = rows].pc = "begin"
           /\ [NoJob EXCEPT !.pc = "begin", !.target = s, !.desired = rows].target = s
           /\ [NoJob EXCEPT !.pc = "begin", !.target = s, !.desired = rows].created = None
           /\ [NoJob EXCEPT !.pc = "begin", !.target = s, !.desired = rows].snapshot = NoRoutes
BY NoRoutesType, NoneAssumption DEF NoJob, GoodJob, Job, ApplyStates, TypeOK

\* The step of one worker leaves the jobs of the others alone.
LEMMA JobSet ==
    ASSUME JobsOK, NEW w \in Workers, NEW j \in GoodJob, job' = [job EXCEPT ![w] = j]
    PROVE  JobsOK' /\ job'[w] = j /\ \A v \in Workers : v # w => job'[v] = job[v]
BY DEF JobsOK

\* What the types say of the handlers and the registry.
LEMMA Ranges ==
    TypeOK =>
      /\ current \in Sessions \cup {None} /\ queue \in SUBSET Sessions
      /\ connected \in BOOLEAN /\ storeFailed \in BOOLEAN /\ marking \in BOOLEAN
      /\ \A s \in Sessions : /\ handler[s] \in HandlerStates
                             /\ displaced[s] \in Sessions \cup {None}
                             /\ sessClosed[s] \in BOOLEAN /\ linkDown[s] \in BOOLEAN
BY DEF TypeOK

\* A session no binding points to has none in its map.
LEMMA FreshHasNoRoutes ==
    ASSUME TypeOK, ReferencesLive, NEW s \in Sessions, Fresh(s)
    PROVE  bound[s] = NoRoutes
<1>1. \A r \in Routes : bound[s][r] = None
  BY DEF TypeOK, ReferencesLive, Fresh
<1> QED
  BY <1>1 DEF TypeOK, NoRoutes

-----------------------------------------------------------------------------
(* The binding objects *)

\* The objects in bs are closed, the others stay as they are, and what some variable
\* points to is not taken away.
ObjectsKept(bs) ==
    /\ binding' \in [Bindings -> Binding \cup {None}]
    /\ \A b \in Bindings : binding'[b] # None =>
         /\ binding[b] # None
         /\ binding'[b].sess = binding[b].sess /\ binding'[b].route = binding[b].route
         /\ binding'[b].open = (binding[b].open /\ b \notin bs)
    /\ \A b \in Bindings : binding[b] # None /\ b \notin bs /\ binding[b].open => binding'[b] # None
    /\ \A s \in Sessions, r \in Routes, b \in Bindings :
         bound'[s][r] = b /\ binding[b] # None => binding'[b] # None
    /\ \A w \in Workers, r \in Routes, b \in Bindings :
         job'[w].snapshot[r] = b /\ binding[b] # None => binding'[b] # None

\* Nothing is closed when the objects do not change.
LEMMA UnchangedKeeps ==
    ASSUME TypeOK, binding' = binding
    PROVE  ObjectsKept({})
<1>1. \A b \in Bindings : binding[b] # None => binding[b].open \in BOOLEAN
  BY DEF TypeOK, Binding
<1> QED
  BY <1>1 DEF ObjectsKept, TypeOK

\* Closing objects.
LEMMA ClosedObjects ==
    ASSUME TypeOK, NEW bs \in SUBSET Bindings, \A b \in bs : binding[b] # None
    PROVE  /\ Closed(bs) \in [Bindings -> Binding \cup {None}]
           /\ \A b \in Bindings :
                IF binding[b] = None THEN Closed(bs)[b] = None
                ELSE /\ Closed(bs)[b] # None
                     /\ Closed(bs)[b].sess = binding[b].sess
                     /\ Closed(bs)[b].route = binding[b].route
                     /\ Closed(bs)[b].open = (binding[b].open /\ b \notin bs)
<1>0. None \notin Binding
  BY BindingAssumption
<1>1. ASSUME NEW b \in Bindings, binding[b] # None
      PROVE  /\ binding[b] \in Binding
             /\ [binding[b] EXCEPT !.open = FALSE] \in Binding
             /\ [binding[b] EXCEPT !.open = FALSE].sess = binding[b].sess
             /\ [binding[b] EXCEPT !.open = FALSE].route = binding[b].route
             /\ [binding[b] EXCEPT !.open = FALSE].open = FALSE
             /\ binding[b].open \in BOOLEAN
  BY <1>1 DEF TypeOK, Binding
<1>2. \A b \in Bindings :
        Closed(bs)[b] = IF b \in bs THEN [binding[b] EXCEPT !.open = FALSE] ELSE binding[b]
  BY DEF Closed
<1>3. \A b \in Bindings : Closed(bs)[b] \in Binding \cup {None}
  BY <1>1, <1>2 DEF TypeOK
<1>4. Closed(bs) \in [Bindings -> Binding \cup {None}]
  BY <1>3 DEF Closed
<1> QED
  BY <1>0, <1>1, <1>2, <1>4

\* What is left of objects when the garbage is gone.
LEMMA LiveObjects ==
    ASSUME NEW objects \in [Bindings -> Binding \cup {None}], NEW maps, NEW jobs
    PROVE  /\ Live(objects, maps, jobs) \in [Bindings -> Binding \cup {None}]
           /\ \A b \in Bindings : Live(objects, maps, jobs)[b] \in {objects[b], None}
           /\ \A b \in Bindings : objects[b] # None /\ objects[b].open =>
                Live(objects, maps, jobs)[b] = objects[b]
           /\ \A s \in Sessions, r \in Routes, b \in Bindings : maps[s][r] = b =>
                Live(objects, maps, jobs)[b] = objects[b]
           /\ \A w \in Workers, r \in Routes, b \in Bindings : jobs[w].snapshot[r] = b =>
                Live(objects, maps, jobs)[b] = objects[b]
BY DEF Live

\* Closing objects and dropping the garbage,
LEMMA LiveClosedKeeps ==
    ASSUME TypeOK, NEW bs \in SUBSET Bindings, \A b \in bs : binding[b] # None,
           binding' = Live(Closed(bs), bound', job')
    PROVE  ObjectsKept(bs)
<1>0. None \notin Binding
  BY BindingAssumption
<1>1. /\ Closed(bs) \in [Bindings -> Binding \cup {None}]
      /\ \A b \in Bindings :
                IF binding[b] = None THEN Closed(bs)[b] = None
                ELSE /\ Closed(bs)[b] # None
                     /\ Closed(bs)[b].sess = binding[b].sess
                     /\ Closed(bs)[b].route = binding[b].route
                     /\ Closed(bs)[b].open = (binding[b].open /\ b \notin bs)
  BY ClosedObjects
<1>2. /\ binding' \in [Bindings -> Binding \cup {None}]
      /\ \A b \in Bindings : binding'[b] \in {Closed(bs)[b], None}
      /\ \A b \in Bindings : Closed(bs)[b] # None /\ Closed(bs)[b].open =>
           binding'[b] = Closed(bs)[b]
      /\ \A s \in Sessions, r \in Routes, b \in Bindings : bound'[s][r] = b =>
           binding'[b] = Closed(bs)[b]
      /\ \A w \in Workers, r \in Routes, b \in Bindings : job'[w].snapshot[r] = b =>
           binding'[b] = Closed(bs)[b]
  BY <1>1, LiveObjects
<1> QED
  BY <1>1, <1>2 DEF ObjectsKept

\* closing objects only,
LEMMA ClosedKeeps ==
    ASSUME TypeOK, NEW bs \in SUBSET Bindings, \A b \in bs : binding[b] # None,
           binding' = Closed(bs)
    PROVE  ObjectsKept(bs)
BY ClosedObjects DEF ObjectsKept

\* and dropping the garbage only.
LEMMA LiveKeeps ==
    ASSUME TypeOK, binding' = Live(binding, bound', job')
    PROVE  ObjectsKept({})
<1>1. \A b \in Bindings : binding[b] # None => binding[b].open \in BOOLEAN
  BY DEF TypeOK, Binding
<1>2. binding \in [Bindings -> Binding \cup {None}]
  BY DEF TypeOK
<1>3. /\ binding' \in [Bindings -> Binding \cup {None}]
      /\ \A b \in Bindings : binding'[b] \in {binding[b], None}
      /\ \A b \in Bindings : binding[b] # None /\ binding[b].open => binding'[b] = binding[b]
      /\ \A s \in Sessions, r \in Routes, b \in Bindings : bound'[s][r] = b =>
           binding'[b] = binding[b]
      /\ \A w \in Workers, r \in Routes, b \in Bindings : job'[w].snapshot[r] = b =>
           binding'[b] = binding[b]
  BY <1>2, LiveObjects
<1> QED
  BY <1>1, <1>3 DEF ObjectsKept

\* What the maps and the copies of the workers point to stays alive, when they take it
\* from a map or a copy and no binding in creation is closed.
LEMMA ReferencesKept ==
    ASSUME TypeOK, JobsOK, References, NEW bs \in SUBSET Bindings, ObjectsKept(bs),
           \A s \in Sessions, r \in Routes :
             bound'[s][r] # None => bound'[s][r] = bound[s][r],
           \A w \in Workers, r \in Routes : job'[w].snapshot[r] # None =>
             \/ job'[w].snapshot[r] = job[w].snapshot[r]
             \/ \E s \in Sessions : job'[w].snapshot[r] = bound[s][r],
           \A w \in Workers : job'[w].created # None =>
             /\ job'[w].created = job[w].created /\ job'[w].target = job[w].target
             /\ job'[w].route = job[w].route /\ job[w].created \notin bs
    PROVE  References'
<1>1. ReferencesLive /\ CreatedIsPrivate
  BY DEF References
<1>2. /\ \A s \in Sessions, r \in Routes : bound[s][r] \in Bindings \cup {None}
      /\ \A w \in Workers, r \in Routes : job[w].snapshot[r] \in Bindings \cup {None}
      /\ \A w \in Workers : job[w].created \in Bindings \cup {None}
  BY JobRanges DEF TypeOK
<1>3. ReferencesLive'
  BY <1>1, <1>2 DEF ReferencesLive, ObjectsKept
<1>4. ASSUME NEW w \in Workers, job'[w].created # None
      PROVE  /\ binding'[job'[w].created] # None /\ binding'[job'[w].created].open
             /\ binding'[job'[w].created].sess = job'[w].target
             /\ binding'[job'[w].created].route = job'[w].route
  <2>1. /\ job[w].created \in Bindings /\ job[w].created \notin bs /\ IsOpen(job[w].created)
        /\ job'[w].created = job[w].created
    BY <1>1, <1>2, <1>4 DEF CreatedIsPrivate
  <2>2. binding'[job[w].created] # None
    BY <2>1 DEF ObjectsKept, IsOpen
  <2>3. /\ binding'[job[w].created].sess = binding[job[w].created].sess
        /\ binding'[job[w].created].route = binding[job[w].created].route
        /\ binding'[job[w].created].open
    BY <2>1, <2>2 DEF ObjectsKept, IsOpen
  <2> QED
    BY <1>1, <1>4, <2>1, <2>2, <2>3 DEF CreatedIsPrivate
<1>5. ASSUME NEW w \in Workers, job'[w].created # None
      PROVE  /\ \A v \in Workers, r \in Routes : job'[v].snapshot[r] # job'[w].created
             /\ \A s \in Sessions, r \in Routes : bound'[s][r] # job'[w].created
             /\ \A v \in Workers \ {w} : job'[v].created # job'[w].created
  <2>1. job'[w].created = job[w].created /\ job[w].created # None
    BY <1>5
  <2> QED
    BY <1>1, <1>5, <2>1 DEF CreatedIsPrivate
<1>6. CreatedIsPrivate'
  BY <1>4, <1>5 DEF CreatedIsPrivate, IsOpen
<1> QED
  BY <1>3, <1>6 DEF References

\* session.close() closes what is in the map of the session and nothing else.
LEMMA CloseSessionEffect ==
    ASSUME TypeOK, JobsOK, References, RemovedIsClosed, LostOnlyByOverlap, SlotStaysEmpty,
           NEW s \in Sessions, CloseSession(s), UNCHANGED <<job, overlapped>>
    PROVE  /\ sessClosed' \in [Sessions -> BOOLEAN] /\ linkDown' \in [Sessions -> BOOLEAN]
           /\ bound' \in [Sessions -> [Routes -> Bindings \cup {None}]]
           /\ \A t \in Sessions : sessClosed'[t] = (sessClosed[t] \/ t = s)
           /\ \A t \in Sessions : /\ linkDown[t] => linkDown'[t]
                                  /\ t # s => linkDown'[t] = linkDown[t]
           /\ References' /\ RemovedIsClosed' /\ LostOnlyByOverlap' /\ SlotStaysEmpty'
           /\ binding' \in [Bindings -> Binding \cup {None}]
           /\ \A b \in Bindings : binding'[b] # None =>
                binding[b] # None /\ binding'[b].sess = binding[b].sess
<1>1. CASE sessClosed[s]
  <2>1. UNCHANGED <<sessClosed, linkDown, bound, binding>>
    BY <1>1 DEF CloseSession
  <2>2. \A t \in Sessions : sessClosed[t] \in BOOLEAN
    BY DEF TypeOK
  <2> QED
    BY <1>1, <2>1, <2>2 DEF TypeOK, References, ReferencesLive, CreatedIsPrivate, IsOpen,
       RemovedIsClosed, LostOnlyByOverlap, Exposed, SlotStaysEmpty
<1>2. CASE ~sessClosed[s]
  <2> DEFINE bs == {bound[s][r] : r \in Routes} \ {None}
  <2>1. /\ sessClosed' = [sessClosed EXCEPT ![s] = TRUE]
        /\ linkDown' = [linkDown EXCEPT ![s] = TRUE]
        /\ bound' = [bound EXCEPT ![s] = NoRoutes]
        /\ binding' = Live(Closed(bs), bound', job')
    BY <1>2 DEF CloseSession
  <2>2. /\ sessClosed' \in [Sessions -> BOOLEAN] /\ linkDown' \in [Sessions -> BOOLEAN]
        /\ \A t \in Sessions : sessClosed'[t] = (sessClosed[t] \/ t = s)
        /\ \A t \in Sessions : /\ linkDown[t] => linkDown'[t]
                               /\ t # s => linkDown'[t] = linkDown[t]
    BY <2>1 DEF TypeOK
  <2>3. /\ bound' \in [Sessions -> [Routes -> Bindings \cup {None}]]
        /\ \A t \in Sessions : bound'[t] = IF t = s THEN NoRoutes ELSE bound[t]
        /\ \A r \in Routes : bound'[s][r] = None
    BY <2>1, NoRoutesType DEF TypeOK
  <2>4. bs \in SUBSET Bindings /\ \A b \in bs : binding[b] # None /\ binding[b].sess = s
    BY DEF TypeOK, References, ReferencesLive
  <2>5. ObjectsKept(bs)
    <3> HIDE DEF bs
    <3> QED
      BY <2>1, <2>4, LiveClosedKeeps
  <2>6. \A w \in Workers : job[w].created # None => job[w].created \notin bs
    BY DEF References, CreatedIsPrivate
  <2>7. References'
    <3> HIDE DEF bs
    <3>1. \A t \in Sessions, r \in Routes : bound'[t][r] # None => bound'[t][r] = bound[t][r]
      BY <2>3
    <3> QED
      BY <2>4, <2>5, <2>6, <3>1, ReferencesKept
  <2>8. RemovedIsClosed'
    <3> HIDE DEF bs
    <3>1. ASSUME NEW w \in Workers, job'[w].pc = "unpublish"
          PROVE  ~binding'[job'[w].snapshot[job'[w].route]].open
      <4>1. /\ job[w].route \in Routes /\ job[w].snapshot[job[w].route] \in Bindings
            /\ binding[job[w].snapshot[job[w].route]] # None
            /\ ~binding[job[w].snapshot[job[w].route]].open
        BY <3>1, JobRanges DEF References, ReferencesLive, RemovedIsClosed
      <4>2. binding'[job[w].snapshot[job[w].route]] # None
        BY <2>5, <4>1 DEF ObjectsKept
      <4> QED
        BY <2>5, <4>1, <4>2 DEF ObjectsKept
    <3> QED
      BY <3>1 DEF RemovedIsClosed
  <2>9. LostOnlyByOverlap'
    <3>1. \A t \in Sessions : sessClosed'[t] => bound'[t] = NoRoutes
      BY <2>2, <2>3 DEF LostOnlyByOverlap
    <3>2. ASSUME NEW b \in Bindings, IsOpen(b)', ~Exposed(b)'
          PROVE  binding'[b].sess \in overlapped'
      <4>1. /\ binding[b] # None /\ binding[b].open /\ b \notin bs
            /\ binding'[b].sess = binding[b].sess /\ binding'[b].route = binding[b].route
        <5> HIDE DEF bs
        <5> QED
          BY <2>5, <3>2 DEF ObjectsKept, IsOpen
      <4>2. binding[b].sess \in Sessions /\ binding[b].route \in Routes
        BY <4>1 DEF TypeOK, Binding
      <4>3. ~Exposed(b)
        BY <2>2, <2>3, <3>2, <4>1, <4>2, NoneAssumption DEF Exposed
      <4> QED
        BY <4>1, <4>3 DEF LostOnlyByOverlap, IsOpen
    <3> QED
      BY <3>1, <3>2 DEF LostOnlyByOverlap
  <2>10. SlotStaysEmpty'
    <3>1. ASSUME NEW w \in Workers, job[w].pc = "publish"
          PROVE  job[w].target \in Sessions /\ job[w].route \in Routes
      BY <3>1, JobRanges
    <3> QED
      BY <2>3, <3>1 DEF SlotStaysEmpty
  <2> HIDE DEF bs
  <2> QED
    BY <2>2, <2>3, <2>5, <2>7, <2>8, <2>9, <2>10 DEF ObjectsKept
<1> QED
  BY <1>1, <1>2 DEF TypeOK

-----------------------------------------------------------------------------
(* The cases of applyRoutes and close() *)

\* The first loop closes the stale binding of one route of the copy.
Closes(w, r) ==
    /\ job[w].pc = "retire" /\ r \in StaleRoutes(w)
    /\ binding' = Closed({job[w].snapshot[r]})
    /\ job' = [job EXCEPT ![w].pc = "unpublish", ![w].route = r]
    /\ UNCHANGED <<serverVars, connVars, bound, rows, connected, history>>

\* The second loop leaves one route of the list as it is,
Skips(w, r) ==
    /\ job[w].pc = "expose" /\ r \in job[w].todo
    /\ job' = [job EXCEPT ![w].todo = @ \ {r}]
    /\ UNCHANGED <<serverVars, connVars, bound, binding, rows, connected, history>>

\* or opens a binding for it.
Opens(w, r) ==
    /\ job[w].pc = "expose" /\ r \in job[w].todo /\ ~sessClosed[job[w].target]
    /\ bound[job[w].target][r] = None /\ Unused # {}
    /\ binding' = [binding EXCEPT ![NewBinding] =
          [sess |-> job[w].target, route |-> r, proto |-> job[w].desired[r].proto, open |-> TRUE]]
    /\ job' = [job EXCEPT ![w].todo = @ \ {r}, ![w].route = r, ![w].pc = "publish",
                          ![w].created = NewBinding]
    /\ UNCHANGED <<serverVars, connVars, bound, rows, connected, history>>

\* close() closes one of the sessions it captured.
Captured(s) ==
    /\ s \in queue /\ ~marking
    /\ CloseSession(s)
    /\ queue' = queue \ {s} /\ marking' = TRUE
    /\ UNCHANGED <<phase, closed, current, handler, displaced, receiver, job, rows>>
    /\ UNCHANGED <<connected, history>>

-----------------------------------------------------------------------------
(* Every action keeps the invariant *)

\* Nothing points to the session of a new connection.
LEMMA AcceptStep ==
    ASSUME IInv, NEW s \in Sessions, Accept(s)
    PROVE  IInv'
<1> USE NoneAssumption
<1>0. /\ TypeOK /\ JobsOK /\ HandlerJobs /\ References
      /\ Exclusive /\ SlotStaysEmpty /\ RemovedIsClosed /\ LostOnlyByOverlap
      /\ ServerOK /\ HandlerOK /\ OwnedOK /\ PresenceOwned
  BY DEF IInv
<1>1. UNCHANGED <<phase, closed, queue, marking, current, displaced, receiver, bound, binding,
                 job, rows, connected, storeFailed>>
  BY DEF Accept, serverVars, connVars, routeVars, history
<1>2. /\ handler[s] = "idle" /\ current # s /\ Fresh(s) /\ phase = "running"
  BY DEF Accept, Unreferenced, Fresh
<1>3. /\ handler' \in [Sessions -> HandlerStates]
      /\ \A t \in Sessions : handler'[t] = IF t = s THEN "hello" ELSE handler[t]
  BY <1>0 DEF Accept, TypeOK, HandlerStates
<1>4. /\ sessClosed' \in [Sessions -> BOOLEAN]
      /\ \A t \in Sessions : sessClosed'[t] = IF t = s THEN FALSE ELSE sessClosed[t]
  BY <1>0 DEF Accept, TypeOK
<1>5. /\ linkDown' \in [Sessions -> BOOLEAN]
      /\ \A t \in Sessions : linkDown'[t] = IF t = s THEN FALSE ELSE linkDown[t]
  BY <1>0 DEF Accept, TypeOK
<1>6. overlapped' = overlapped \ {s}
  BY DEF Accept
<1>7. TypeOK'
  BY <1>0, <1>1, <1>2, <1>3, <1>4, <1>5, <1>6 DEF TypeOK
<1>8. HandlerJobs'
  BY <1>0, <1>1, <1>2, <1>3, <1>4, <1>5, <1>6, Ranges DEF HandlerJobs
<1>9. Exclusive'
  BY <1>0, <1>1, <1>2, <1>3, <1>4, <1>5, <1>6 DEF Exclusive, Fresh
<1>10. SlotStaysEmpty'
  BY <1>0, <1>1, <1>2, <1>3, <1>4, <1>5, <1>6, JobRanges DEF SlotStaysEmpty, Fresh
<1>11. LostOnlyByOverlap'
  <2>1. bound[s] = NoRoutes
    BY <1>0, <1>2, FreshHasNoRoutes DEF References
  <2>2. ASSUME NEW b \in Bindings, IsOpen(b)', ~Exposed(b)'
        PROVE  binding'[b].sess \in overlapped'
    <3>1. binding[b] # None /\ binding[b].sess # s /\ binding[b].sess \in Sessions
      BY <1>0, <1>1, <1>2, <2>2 DEF IsOpen, Fresh, TypeOK, Binding
    <3>2. ~Exposed(b) /\ IsOpen(b)
      BY <1>1, <1>4, <2>2, <3>1 DEF Exposed, IsOpen
    <3> QED
      BY <1>0, <1>1, <1>6, <3>1, <3>2 DEF LostOnlyByOverlap
  <2> QED
    BY <1>0, <1>1, <1>4, <2>1, <2>2 DEF LostOnlyByOverlap
<1>12. ServerOK'
  BY <1>0, <1>1, <1>2, <1>3, <1>4, <1>5, <1>6, Ranges DEF ServerOK
<1>13. HandlerOK'
  BY <1>0, <1>1, <1>2, <1>3, <1>4, <1>5, <1>6, Ranges DEF HandlerOK
<1>14. OwnedOK'
  <2>1. \A t \in Sessions : Fresh(t) => Fresh(t)'
    BY <1>0, <1>1, <1>2, <1>3, <1>4, <1>5, <1>6, Ranges DEF Fresh
  <2>2. ASSUME NEW t \in Sessions, t # s PROVE Owned(t)'
    <3>1. handler'[t] = handler[t] /\ sessClosed'[t] = sessClosed[t] /\ linkDown'[t] = linkDown[t]
      BY <1>3, <1>4, <1>5, <2>2
    <3>2. Owned(t)
      BY <1>0 DEF OwnedOK
    <3> QED
      BY <1>1, <2>1, <3>1, <3>2 DEF Owned
  <2>3. Fresh(s)' /\ handler'[s] = "hello"
    BY <1>2, <1>3, <2>1
  <2>4. Owned(s)'
    BY <2>3 DEF Owned
  <2> QED
    BY <2>2, <2>4 DEF OwnedOK
<1>15. PresenceOwned'
  BY <1>0, <1>1, <1>2, <1>3, <1>4, <1>5, <1>6, Ranges DEF PresenceOwned, Registered
<1>16. JobsOK' /\ References' /\ RemovedIsClosed'
  BY <1>0, <1>1 DEF JobsOK, References, ReferencesLive, CreatedIsPrivate, IsOpen, RemovedIsClosed
<1> QED
  BY <1>7, <1>8, <1>9, <1>10, <1>11, <1>12, <1>13, <1>14, <1>15, <1>16 DEF IInv

\* A connection that does not register leaves nothing behind.
LEMMA RejectHelloStep ==
    ASSUME IInv, NEW s \in Sessions, RejectHello(s)
    PROVE  IInv'
<1> USE NoneAssumption
<1>0. /\ TypeOK /\ JobsOK /\ HandlerJobs /\ References
      /\ Exclusive /\ SlotStaysEmpty /\ RemovedIsClosed /\ LostOnlyByOverlap
      /\ ServerOK /\ HandlerOK /\ OwnedOK /\ PresenceOwned
  BY DEF IInv
<1>1. UNCHANGED <<phase, closed, queue, marking, current, displaced, sessClosed, receiver, bound,
                 binding, job, rows, connected, storeFailed, overlapped>>
  BY DEF RejectHello, serverVars, connVars, routeVars, history
<1>2. handler[s] = "hello"
  BY DEF RejectHello
<1>3. /\ handler' \in [Sessions -> HandlerStates]
      /\ \A t \in Sessions : handler'[t] = IF t = s THEN "idle" ELSE handler[t]
  BY <1>0 DEF RejectHello, TypeOK, HandlerStates
<1>4. /\ linkDown' \in [Sessions -> BOOLEAN]
      /\ \A t \in Sessions : linkDown'[t] = IF t = s THEN TRUE ELSE linkDown[t]
  BY <1>0 DEF RejectHello, TypeOK
<1>5. TypeOK'
  BY <1>0, <1>1, <1>2, <1>3, <1>4 DEF TypeOK
<1>6. HandlerJobs'
  BY <1>0, <1>1, <1>2, <1>3, <1>4, Ranges DEF HandlerJobs
<1>7. ServerOK'
  BY <1>0, <1>1, <1>2, <1>3, <1>4, Ranges DEF ServerOK
<1>8. HandlerOK'
  BY <1>0, <1>1, <1>2, <1>3, <1>4, Ranges DEF HandlerOK
<1>9. OwnedOK'
  <2>1. \A t \in Sessions : Fresh(t) => Fresh(t)'
    BY <1>0, <1>1, <1>2, <1>3, <1>4, Ranges DEF Fresh
  <2> QED
    BY <1>0, <1>1, <1>2, <1>3, <1>4, <2>1, Ranges DEF OwnedOK, Owned
<1>10. PresenceOwned'
  BY <1>0, <1>1, <1>2, <1>3, <1>4, Ranges DEF PresenceOwned, Registered
<1>11. /\ JobsOK' /\ References' /\ Exclusive' /\ SlotStaysEmpty' /\ RemovedIsClosed'
       /\ LostOnlyByOverlap'
  BY <1>0, <1>1 DEF JobsOK, References, ReferencesLive, CreatedIsPrivate, IsOpen, Exclusive,
     SlotStaysEmpty, RemovedIsClosed, LostOnlyByOverlap, Exposed
<1> QED
  BY <1>5, <1>6, <1>7, <1>8, <1>9, <1>10, <1>11 DEF IInv

\* The loss of a connection alone changes no owner.
LEMMA LinkFailsStep ==
    ASSUME IInv, NEW s \in Sessions, LinkFails(s)
    PROVE  IInv'
<1> USE NoneAssumption
<1>0. /\ TypeOK /\ JobsOK /\ HandlerJobs /\ References
      /\ Exclusive /\ SlotStaysEmpty /\ RemovedIsClosed /\ LostOnlyByOverlap
      /\ ServerOK /\ HandlerOK /\ OwnedOK /\ PresenceOwned
  BY DEF IInv
<1>1. UNCHANGED <<phase, closed, queue, marking, current, handler, displaced, sessClosed,
                 receiver, bound, binding, job, rows, connected, storeFailed, overlapped>>
  BY DEF LinkFails, serverVars, connVars, routeVars, history
<1>2. handler[s] # "idle"
  BY DEF LinkFails
<1>3. /\ linkDown' \in [Sessions -> BOOLEAN]
      /\ \A t \in Sessions : linkDown'[t] = IF t = s THEN TRUE ELSE linkDown[t]
  BY <1>0 DEF LinkFails, TypeOK
<1>4. TypeOK'
  BY <1>0, <1>1, <1>2, <1>3 DEF TypeOK
<1>5. OwnedOK'
  <2>1. \A t \in Sessions : Fresh(t) => Fresh(t)'
    BY <1>0, <1>1, <1>2, <1>3, Ranges DEF Fresh
  <2> QED
    BY <1>0, <1>1, <1>2, <1>3, <2>1, Ranges DEF OwnedOK, Owned
<1>6. /\ JobsOK' /\ HandlerJobs' /\ References' /\ Exclusive' /\ SlotStaysEmpty'
      /\ RemovedIsClosed' /\ LostOnlyByOverlap' /\ ServerOK' /\ HandlerOK' /\ PresenceOwned'
  BY <1>0, <1>1 DEF JobsOK, HandlerJobs, References, ReferencesLive, CreatedIsPrivate, IsOpen,
     Exclusive, SlotStaysEmpty, RemovedIsClosed, LostOnlyByOverlap, Exposed, ServerOK, HandlerOK,
     PresenceOwned, Registered
<1> QED
  BY <1>4, <1>5, <1>6 DEF IInv

\* The one that takes the name holds the one that had it; a closed server gives no name.
LEMMA RegisterClientStep ==
    ASSUME IInv, NEW s \in Sessions, RegisterClient(s)
    PROVE  IInv'
<1> USE NoneAssumption
<1>0. /\ TypeOK /\ JobsOK /\ HandlerJobs /\ References
      /\ Exclusive /\ SlotStaysEmpty /\ RemovedIsClosed /\ LostOnlyByOverlap
      /\ ServerOK /\ HandlerOK /\ OwnedOK /\ PresenceOwned
  BY DEF IInv
<1>1. UNCHANGED <<phase, closed, queue, marking, sessClosed, receiver, bound, binding, job, rows,
                 connected, storeFailed, overlapped>>
  BY DEF RegisterClient, serverVars, connVars, routeVars, history
<1>2. handler[s] = "hello" /\ displaced[s] = None /\ s # None
  BY <1>0 DEF RegisterClient, HandlerOK
<1>3. \/ /\ closed /\ UNCHANGED <<current, displaced>>
         /\ handler' = [handler EXCEPT ![s] = "idle"] /\ linkDown' = [linkDown EXCEPT ![s] = TRUE]
      \/ /\ ~closed /\ current' = s /\ displaced' = [displaced EXCEPT ![s] = current]
         /\ handler' = [handler EXCEPT ![s] = IF current = None THEN "upsert" ELSE "replace"]
         /\ UNCHANGED linkDown
  BY DEF RegisterClient
<1>4. /\ handler' \in [Sessions -> HandlerStates]
      /\ displaced' \in [Sessions -> Sessions \cup {None}]
      /\ linkDown' \in [Sessions -> BOOLEAN] /\ current' \in Sessions \cup {None}
      /\ \A t \in Sessions : t # s =>
           handler'[t] = handler[t] /\ displaced'[t] = displaced[t] /\ linkDown'[t] = linkDown[t]
      /\ \/ /\ closed /\ current' = current /\ displaced'[s] = None
            /\ handler'[s] = "idle" /\ linkDown'[s] = TRUE
         \/ /\ ~closed /\ current' = s /\ displaced'[s] = current
            /\ handler'[s] = (IF current = None THEN "upsert" ELSE "replace")
            /\ linkDown'[s] = linkDown[s]
  <2>1. CASE /\ closed /\ UNCHANGED <<current, displaced>>
             /\ handler' = [handler EXCEPT ![s] = "idle"] /\ linkDown' = [linkDown EXCEPT ![s] = TRUE]
    BY <1>0, <1>2, <2>1 DEF TypeOK, HandlerStates
  <2>2. CASE /\ ~closed /\ current' = s /\ displaced' = [displaced EXCEPT ![s] = current]
             /\ handler' = [handler EXCEPT ![s] = IF current = None THEN "upsert" ELSE "replace"]
             /\ UNCHANGED linkDown
    BY <1>0, <1>2, <2>2 DEF TypeOK, HandlerStates
  <2> QED
    BY <1>3, <2>1, <2>2
<1>5. TypeOK'
  BY <1>0, <1>1, <1>2, <1>3, <1>4 DEF TypeOK
<1>6. HandlerJobs'
  BY <1>0, <1>1, <1>2, <1>3, <1>4, Ranges DEF HandlerJobs
<1>7. ServerOK'
  BY <1>0, <1>1, <1>2, <1>3, <1>4, Ranges DEF ServerOK
<1>8. HandlerOK'
  BY <1>0, <1>1, <1>2, <1>3, <1>4, Ranges DEF HandlerOK
<1>9. OwnedOK'
  <2>1. \A t \in Sessions : Fresh(t) => Fresh(t)' \/ t = s
    BY <1>0, <1>1, <1>2, <1>3, <1>4, Ranges DEF Fresh
  <2>2. ASSUME NEW t \in Sessions, t # s PROVE Owned(t)'
    BY <1>0, <1>1, <1>2, <1>3, <1>4, <2>1, <2>2, Ranges DEF OwnedOK, Owned
  <2>3. Owned(s)'
    BY <1>0, <1>1, <1>2, <1>3, <1>4, <2>1, Ranges DEF OwnedOK, Owned, Fresh
  <2> QED
    BY <2>2, <2>3 DEF OwnedOK
<1>10. PresenceOwned'
  BY <1>0, <1>1, <1>2, <1>3, <1>4, Ranges DEF PresenceOwned, Registered
<1>11. /\ JobsOK' /\ References' /\ Exclusive' /\ SlotStaysEmpty' /\ RemovedIsClosed'
       /\ LostOnlyByOverlap'
  BY <1>0, <1>1 DEF JobsOK, References, ReferencesLive, CreatedIsPrivate, IsOpen, Exclusive,
     SlotStaysEmpty, RemovedIsClosed, LostOnlyByOverlap, Exposed
<1> QED
  BY <1>5, <1>6, <1>7, <1>8, <1>9, <1>10, <1>11 DEF IInv

\* The displaced session is closed by the one that holds it.
LEMMA CloseDisplacedStep ==
    ASSUME IInv, NEW s \in Sessions, CloseDisplaced(s)
    PROVE  IInv'
<1> USE NoneAssumption
<1>0. /\ TypeOK /\ JobsOK /\ HandlerJobs /\ References
      /\ Exclusive /\ SlotStaysEmpty /\ RemovedIsClosed /\ LostOnlyByOverlap
      /\ ServerOK /\ HandlerOK /\ OwnedOK /\ PresenceOwned
  BY DEF IInv
<1>1. UNCHANGED <<phase, closed, queue, marking, current, receiver, job, rows, connected,
                 storeFailed, overlapped>>
  BY DEF CloseDisplaced, serverVars, connVars, routeVars, history
<1>2. handler[s] = "replace" /\ displaced[s] \in Sessions
  BY <1>0 DEF CloseDisplaced, HandlerOK, TypeOK
<1>3. /\ handler' \in [Sessions -> HandlerStates]
      /\ \A t \in Sessions : handler'[t] = IF t = s THEN "upsert" ELSE handler[t]
  BY <1>0 DEF CloseDisplaced, TypeOK, HandlerStates
<1>4. /\ displaced' \in [Sessions -> Sessions \cup {None}]
      /\ \A t \in Sessions : displaced'[t] = IF t = s THEN None ELSE displaced[t]
  BY <1>0 DEF CloseDisplaced, TypeOK
<1>5. /\ sessClosed' \in [Sessions -> BOOLEAN] /\ linkDown' \in [Sessions -> BOOLEAN]
      /\ bound' \in [Sessions -> [Routes -> Bindings \cup {None}]]
      /\ \A t \in Sessions : sessClosed'[t] = (sessClosed[t] \/ t = displaced[s])
      /\ \A t \in Sessions : /\ linkDown[t] => linkDown'[t]
                             /\ t # displaced[s] => linkDown'[t] = linkDown[t]
      /\ References' /\ RemovedIsClosed' /\ LostOnlyByOverlap' /\ SlotStaysEmpty'
      /\ binding' \in [Bindings -> Binding \cup {None}]
      /\ \A b \in Bindings : binding'[b] # None =>
           binding[b] # None /\ binding'[b].sess = binding[b].sess
  BY <1>0, <1>1, <1>2, CloseSessionEffect DEF CloseDisplaced
<1>6. TypeOK'
  BY <1>0, <1>1, <1>2, <1>3, <1>4, <1>5 DEF TypeOK
<1>7. HandlerJobs'
  BY <1>0, <1>1, <1>2, <1>3, <1>4, <1>5, Ranges DEF HandlerJobs
<1>8. References'
  BY <1>5
<1>9. SlotStaysEmpty'
  BY <1>5
<1>10. RemovedIsClosed'
  BY <1>5
<1>11. LostOnlyByOverlap'
  BY <1>5
<1>12. ServerOK'
  BY <1>0, <1>1, <1>2, <1>3, <1>4, <1>5, Ranges DEF ServerOK
<1>13. HandlerOK'
  BY <1>0, <1>1, <1>2, <1>3, <1>4, <1>5, Ranges DEF HandlerOK
<1>14. OwnedOK'
  <2>1. \A t \in Sessions : Fresh(t) => Fresh(t)'
    BY <1>0, <1>1, <1>2, <1>3, <1>4, <1>5, Ranges DEF Fresh
  <2> QED
    BY <1>0, <1>1, <1>2, <1>3, <1>4, <1>5, <2>1, Ranges DEF OwnedOK, Owned
<1>15. PresenceOwned'
  BY <1>0, <1>1, <1>2, <1>3, <1>4, <1>5, Ranges DEF PresenceOwned, Registered
<1>16. JobsOK' /\ Exclusive'
  BY <1>0, <1>1 DEF JobsOK, Exclusive
<1> QED
  BY <1>6, <1>7, <1>8, <1>9, <1>10, <1>11, <1>12, <1>13, <1>14, <1>15, <1>16 DEF IInv

\* A handler whose first heartbeat fails returns and leaves the name to the session.
LEMMA FirstHeartbeatStep ==
    ASSUME IInv, NEW s \in Sessions, FirstHeartbeat(s)
    PROVE  IInv'
<1> USE NoneAssumption
<1>0. /\ TypeOK /\ JobsOK /\ HandlerJobs /\ References
      /\ Exclusive /\ SlotStaysEmpty /\ RemovedIsClosed /\ LostOnlyByOverlap
      /\ ServerOK /\ HandlerOK /\ OwnedOK /\ PresenceOwned
  BY DEF IInv
<1>1. UNCHANGED <<phase, closed, queue, marking, current, displaced, sessClosed, receiver, bound,
                 binding, job, rows, overlapped>>
  BY DEF FirstHeartbeat, serverVars, connVars, routeVars, history
<1>2. handler[s] = "upsert"
  BY DEF FirstHeartbeat
<1>3. /\ connected' \in BOOLEAN /\ storeFailed' \in BOOLEAN
      /\ handler' \in [Sessions -> HandlerStates] /\ linkDown' \in [Sessions -> BOOLEAN]
      /\ \A t \in Sessions : t # s => handler'[t] = handler[t] /\ linkDown'[t] = linkDown[t]
      /\ \/ handler'[s] = "ack" /\ storeFailed' = storeFailed
         \/ handler'[s] = "idle" /\ storeFailed'
  <2>1. PICK ok \in BOOLEAN :
           /\ connected' = (IF ok THEN TRUE ELSE connected) /\ storeFailed' = (storeFailed \/ ~ok)
           /\ handler' = [handler EXCEPT ![s] = IF ok THEN "ack" ELSE "idle"]
           /\ linkDown' = [linkDown EXCEPT ![s] = @ \/ ~ok]
    BY DEF FirstHeartbeat, UpsertClientHeartbeat, WritePresence
  <2>2. connected' \in BOOLEAN /\ storeFailed' \in BOOLEAN /\ storeFailed \in BOOLEAN
    BY <1>0, <2>1 DEF TypeOK
  <2>3. CASE ok
    BY <1>0, <2>1, <2>2, <2>3 DEF TypeOK, HandlerStates
  <2>4. CASE ~ok
    BY <1>0, <2>1, <2>2, <2>4 DEF TypeOK, HandlerStates
  <2> QED
    BY <2>3, <2>4
<1>4. TypeOK'
  BY <1>0, <1>1, <1>2, <1>3 DEF TypeOK
<1>5. HandlerJobs'
  BY <1>0, <1>1, <1>2, <1>3, Ranges DEF HandlerJobs
<1>6. ServerOK'
  BY <1>0, <1>1, <1>2, <1>3, Ranges DEF ServerOK
<1>7. HandlerOK'
  BY <1>0, <1>1, <1>2, <1>3, Ranges DEF HandlerOK
<1>8. OwnedOK'
  <2>1. \A t \in Sessions : Fresh(t) => Fresh(t)'
    BY <1>0, <1>1, <1>2, <1>3, Ranges DEF Fresh
  <2> QED
    BY <1>0, <1>1, <1>2, <1>3, <2>1, Ranges DEF OwnedOK, Owned
<1>9. PresenceOwned'
  BY <1>0, <1>1, <1>2, <1>3, Ranges DEF PresenceOwned, Registered
<1>10. /\ JobsOK' /\ References' /\ Exclusive' /\ SlotStaysEmpty' /\ RemovedIsClosed'
       /\ LostOnlyByOverlap'
  BY <1>0, <1>1 DEF JobsOK, References, ReferencesLive, CreatedIsPrivate, IsOpen, Exclusive,
     SlotStaysEmpty, RemovedIsClosed, LostOnlyByOverlap, Exposed
<1> QED
  BY <1>4, <1>5, <1>6, <1>7, <1>8, <1>9, <1>10 DEF IInv

\* Without a connection the handler goes to unregister.
LEMMA AckStep ==
    ASSUME IInv, NEW s \in Sessions, Ack(s)
    PROVE  IInv'
<1> USE NoneAssumption
<1>0. /\ TypeOK /\ JobsOK /\ HandlerJobs /\ References
      /\ Exclusive /\ SlotStaysEmpty /\ RemovedIsClosed /\ LostOnlyByOverlap
      /\ ServerOK /\ HandlerOK /\ OwnedOK /\ PresenceOwned
  BY DEF IInv
<1>1. UNCHANGED <<phase, closed, queue, marking, current, displaced, sessClosed, linkDown,
                 receiver, bound, binding, job, rows, connected, storeFailed, overlapped>>
  BY DEF Ack, serverVars, connVars, routeVars, history
<1>2. handler[s] = "ack"
  BY DEF Ack
<1>3. /\ handler' \in [Sessions -> HandlerStates] /\ handler'[s] \in {"unregister", "list"}
      /\ \A t \in Sessions : t # s => handler'[t] = handler[t]
  BY <1>0 DEF Ack, TypeOK, HandlerStates
<1>4. TypeOK'
  BY <1>0, <1>1, <1>2, <1>3 DEF TypeOK
<1>5. HandlerJobs'
  BY <1>0, <1>1, <1>2, <1>3, Ranges DEF HandlerJobs
<1>6. ServerOK'
  BY <1>0, <1>1, <1>2, <1>3, Ranges DEF ServerOK
<1>7. HandlerOK'
  BY <1>0, <1>1, <1>2, <1>3, Ranges DEF HandlerOK
<1>8. OwnedOK'
  <2>1. \A t \in Sessions : Fresh(t) => Fresh(t)'
    BY <1>0, <1>1, <1>2, <1>3, Ranges DEF Fresh
  <2> QED
    BY <1>0, <1>1, <1>2, <1>3, <2>1, Ranges DEF OwnedOK, Owned
<1>9. PresenceOwned'
  BY <1>0, <1>1, <1>2, <1>3, Ranges DEF PresenceOwned, Registered
<1>10. /\ JobsOK' /\ References' /\ Exclusive' /\ SlotStaysEmpty' /\ RemovedIsClosed'
       /\ LostOnlyByOverlap'
  BY <1>0, <1>1 DEF JobsOK, References, ReferencesLive, CreatedIsPrivate, IsOpen, Exclusive,
     SlotStaysEmpty, RemovedIsClosed, LostOnlyByOverlap, Exposed
<1> QED
  BY <1>4, <1>5, <1>6, <1>7, <1>8, <1>9, <1>10 DEF IInv

\* The handler becomes a worker of its own session.
LEMMA HandlerListStep ==
    ASSUME IInv, NEW s \in Sessions, HandlerList(s)
    PROVE  IInv'
<1> USE NoneAssumption
<1>0. /\ TypeOK /\ JobsOK /\ HandlerJobs /\ References
      /\ Exclusive /\ SlotStaysEmpty /\ RemovedIsClosed /\ LostOnlyByOverlap
      /\ ServerOK /\ HandlerOK /\ OwnedOK /\ PresenceOwned
  BY DEF IInv
<1>1. UNCHANGED <<phase, closed, queue, marking, current, displaced, sessClosed, linkDown,
                 receiver, bound, binding, rows, connected, storeFailed, overlapped>>
  BY DEF HandlerList, serverVars, connVars, routeVars, history
<1>2. handler[s] = "list" /\ s \in Workers /\ job[s].pc = "idle" /\ job[s].created = None
  BY <1>0, WorkerOf DEF HandlerList, HandlerJobs, JobsOK, GoodJob
<1>3. /\ handler' \in [Sessions -> HandlerStates]
      /\ \A t \in Sessions : handler'[t] = IF t = s THEN "apply" ELSE handler[t]
  BY <1>0 DEF HandlerList, TypeOK, HandlerStates
<1>4. /\ JobsOK'
      /\ \A v \in Workers : v # s => job'[v] = job[v]
      /\ job'[s].pc = "begin" /\ job'[s].target = s /\ job'[s].snapshot = NoRoutes
      /\ job'[s].created = None
  <2>1. job' = [job EXCEPT ![s] = [NoJob EXCEPT !.pc = "begin", !.target = s, !.desired = rows]]
    BY DEF HandlerList
  <2> DEFINE j == [NoJob EXCEPT !.pc = "begin", !.target = s, !.desired = rows]
  <2>2. /\ j \in GoodJob /\ j.pc = "begin" /\ j.target = s /\ j.created = None
        /\ j.snapshot = NoRoutes
    BY <1>0, JobBegins
  <2> HIDE DEF j
  <2>3. JobsOK' /\ job'[s] = j /\ \A v \in Workers : v # s => job'[v] = job[v]
    BY <1>0, <1>2, <2>1, <2>2, JobSet DEF j
  <2> QED
    BY <2>2, <2>3
<1>5. TypeOK'
  BY <1>0, <1>1, <1>2, <1>3, <1>4 DEF TypeOK, JobsOK, GoodJob
<1>6. JobsOK'
  BY <1>0, <1>1, <1>2, <1>3, <1>4, Ranges DEF JobsOK
<1>7. HandlerJobs'
  BY <1>0, <1>1, <1>2, <1>3, <1>4, WorkerOf DEF HandlerJobs
<1>8. References'
  BY <1>0, <1>1, <1>2, <1>3, <1>4, UnchangedKeeps, ReferencesKept, NoRoutesType
<1>9. Exclusive'
  BY <1>0, <1>1, <1>2, <1>3, <1>4, Ranges DEF Exclusive
<1>10. SlotStaysEmpty'
  BY <1>0, <1>1, <1>2, <1>3, <1>4, Ranges DEF SlotStaysEmpty
<1>11. RemovedIsClosed'
  BY <1>0, <1>1, <1>2, <1>3, <1>4, Ranges DEF RemovedIsClosed
<1>12. LostOnlyByOverlap'
  BY <1>0, <1>1, <1>2, <1>3, <1>4, Ranges DEF LostOnlyByOverlap, Exposed, IsOpen
<1>13. ServerOK'
  BY <1>0, <1>1, <1>2, <1>3, <1>4, Ranges DEF ServerOK
<1>14. HandlerOK'
  BY <1>0, <1>1, <1>2, <1>3, <1>4, Ranges DEF HandlerOK
<1>15. OwnedOK'
  <2>1. \A t \in Sessions : Fresh(t) => Fresh(t)' \/ t = s
    BY <1>0, <1>1, <1>2, <1>3, <1>4, Ranges DEF Fresh
  <2> QED
    BY <1>0, <1>1, <1>2, <1>3, <1>4, <2>1, Ranges DEF OwnedOK, Owned
<1>16. PresenceOwned'
  BY <1>0, <1>1, <1>2, <1>3, <1>4, Ranges DEF PresenceOwned, Registered
<1> QED
  BY <1>5, <1>6, <1>7, <1>8, <1>9, <1>10, <1>11, <1>12, <1>13, <1>14, <1>15, <1>16 DEF IInv

\* The handler that has applied the routes serves.
LEMMA HandlerSyncedStep ==
    ASSUME IInv, NEW s \in Sessions, HandlerSynced(s)
    PROVE  IInv'
<1> USE NoneAssumption
<1>0. /\ TypeOK /\ JobsOK /\ HandlerJobs /\ References
      /\ Exclusive /\ SlotStaysEmpty /\ RemovedIsClosed /\ LostOnlyByOverlap
      /\ ServerOK /\ HandlerOK /\ OwnedOK /\ PresenceOwned
  BY DEF IInv
<1>1. UNCHANGED <<phase, closed, queue, marking, current, displaced, sessClosed, linkDown, bound,
                 binding, job, rows, connected, storeFailed, overlapped>>
  BY DEF HandlerSynced, serverVars, connVars, routeVars, history
<1>2. handler[s] = "apply" /\ job[s].pc = "idle"
  BY DEF HandlerSynced
<1>3. /\ handler' \in [Sessions -> HandlerStates]
      /\ \A t \in Sessions : handler'[t] = IF t = s THEN "serve" ELSE handler[t]
  BY <1>0 DEF HandlerSynced, TypeOK, HandlerStates
<1>4. /\ receiver' \in [Sessions -> BOOLEAN]
      /\ \A t \in Sessions : receiver'[t] = IF t = s THEN TRUE ELSE receiver[t]
  BY <1>0 DEF HandlerSynced, TypeOK
<1>5. TypeOK'
  BY <1>0, <1>1, <1>2, <1>3, <1>4 DEF TypeOK
<1>6. HandlerJobs'
  BY <1>0, <1>1, <1>2, <1>3, <1>4, Ranges DEF HandlerJobs
<1>7. ServerOK'
  BY <1>0, <1>1, <1>2, <1>3, <1>4, Ranges DEF ServerOK
<1>8. HandlerOK'
  BY <1>0, <1>1, <1>2, <1>3, <1>4, Ranges DEF HandlerOK
<1>9. OwnedOK'
  <2>1. \A t \in Sessions : Fresh(t) => Fresh(t)'
    BY <1>0, <1>1, <1>2, <1>3, <1>4, Ranges DEF Fresh
  <2> QED
    BY <1>0, <1>1, <1>2, <1>3, <1>4, <2>1, Ranges DEF OwnedOK, Owned
<1>10. PresenceOwned'
  BY <1>0, <1>1, <1>2, <1>3, <1>4, Ranges DEF PresenceOwned, Registered
<1>11. /\ JobsOK' /\ References' /\ Exclusive' /\ SlotStaysEmpty' /\ RemovedIsClosed'
       /\ LostOnlyByOverlap'
  BY <1>0, <1>1 DEF JobsOK, References, ReferencesLive, CreatedIsPrivate, IsOpen, Exclusive,
     SlotStaysEmpty, RemovedIsClosed, LostOnlyByOverlap, Exposed
<1> QED
  BY <1>5, <1>6, <1>7, <1>8, <1>9, <1>10, <1>11 DEF IInv

\* A heartbeat is written by a registered handler.
LEMMA ClientHeartbeatStep ==
    ASSUME IInv, NEW s \in Sessions, ClientHeartbeat(s)
    PROVE  IInv'
<1> USE NoneAssumption
<1>0. /\ TypeOK /\ JobsOK /\ HandlerJobs /\ References
      /\ Exclusive /\ SlotStaysEmpty /\ RemovedIsClosed /\ LostOnlyByOverlap
      /\ ServerOK /\ HandlerOK /\ OwnedOK /\ PresenceOwned
  BY DEF IInv
<1>1. UNCHANGED <<phase, closed, queue, marking, current, handler, displaced, sessClosed,
                 linkDown, receiver, bound, binding, job, rows, overlapped>>
  BY DEF ClientHeartbeat, serverVars, connVars, routeVars, history
<1>2. handler[s] = "serve"
  BY DEF ClientHeartbeat
<1>3. connected' \in BOOLEAN /\ storeFailed' \in BOOLEAN /\ (storeFailed => storeFailed')
  BY <1>0 DEF ClientHeartbeat, UpsertClientHeartbeat, WritePresence, TypeOK
<1>4. TypeOK'
  BY <1>0, <1>1, <1>2, <1>3 DEF TypeOK
<1>5. PresenceOwned'
  BY <1>0, <1>1, <1>2, <1>3, Ranges DEF PresenceOwned, Registered
<1>6. /\ JobsOK' /\ HandlerJobs' /\ References' /\ Exclusive' /\ SlotStaysEmpty'
      /\ RemovedIsClosed' /\ LostOnlyByOverlap' /\ ServerOK' /\ HandlerOK' /\ OwnedOK'
  BY <1>0, <1>1 DEF JobsOK, HandlerJobs, References, ReferencesLive, CreatedIsPrivate, IsOpen,
     Exclusive, SlotStaysEmpty, RemovedIsClosed, LostOnlyByOverlap, Exposed, ServerOK, HandlerOK,
     OwnedOK, Owned, Fresh
<1> QED
  BY <1>4, <1>5, <1>6 DEF IInv

\* A handler that lost its connection unregisters.
LEMMA ReadFailsStep ==
    ASSUME IInv, NEW s \in Sessions, ReadFails(s)
    PROVE  IInv'
<1> USE NoneAssumption
<1>0. /\ TypeOK /\ JobsOK /\ HandlerJobs /\ References
      /\ Exclusive /\ SlotStaysEmpty /\ RemovedIsClosed /\ LostOnlyByOverlap
      /\ ServerOK /\ HandlerOK /\ OwnedOK /\ PresenceOwned
  BY DEF IInv
<1>1. UNCHANGED <<phase, closed, queue, marking, current, displaced, sessClosed, linkDown,
                 receiver, bound, binding, job, rows, connected, storeFailed, overlapped>>
  BY DEF ReadFails, serverVars, connVars, routeVars, history
<1>2. handler[s] = "serve"
  BY DEF ReadFails
<1>3. /\ handler' \in [Sessions -> HandlerStates]
      /\ \A t \in Sessions : handler'[t] = IF t = s THEN "unregister" ELSE handler[t]
  BY <1>0 DEF ReadFails, TypeOK, HandlerStates
<1>4. TypeOK'
  BY <1>0, <1>1, <1>2, <1>3 DEF TypeOK
<1>5. HandlerJobs'
  BY <1>0, <1>1, <1>2, <1>3, Ranges DEF HandlerJobs
<1>6. ServerOK'
  BY <1>0, <1>1, <1>2, <1>3, Ranges DEF ServerOK
<1>7. HandlerOK'
  BY <1>0, <1>1, <1>2, <1>3, Ranges DEF HandlerOK
<1>8. OwnedOK'
  <2>1. \A t \in Sessions : Fresh(t) => Fresh(t)'
    BY <1>0, <1>1, <1>2, <1>3, Ranges DEF Fresh
  <2> QED
    BY <1>0, <1>1, <1>2, <1>3, <2>1, Ranges DEF OwnedOK, Owned
<1>9. PresenceOwned'
  BY <1>0, <1>1, <1>2, <1>3, Ranges DEF PresenceOwned, Registered
<1>10. /\ JobsOK' /\ References' /\ Exclusive' /\ SlotStaysEmpty' /\ RemovedIsClosed'
       /\ LostOnlyByOverlap'
  BY <1>0, <1>1 DEF JobsOK, References, ReferencesLive, CreatedIsPrivate, IsOpen, Exclusive,
     SlotStaysEmpty, RemovedIsClosed, LostOnlyByOverlap, Exposed
<1> QED
  BY <1>4, <1>5, <1>6, <1>7, <1>8, <1>9, <1>10 DEF IInv

\* The handler that gives the name up will close the session.
LEMMA UnregisterClientStep ==
    ASSUME IInv, NEW s \in Sessions, UnregisterClient(s)
    PROVE  IInv'
<1> USE NoneAssumption
<1>0. /\ TypeOK /\ JobsOK /\ HandlerJobs /\ References
      /\ Exclusive /\ SlotStaysEmpty /\ RemovedIsClosed /\ LostOnlyByOverlap
      /\ ServerOK /\ HandlerOK /\ OwnedOK /\ PresenceOwned
  BY DEF IInv
<1>1. UNCHANGED <<phase, closed, queue, marking, displaced, sessClosed, linkDown, receiver,
                 bound, binding, job, rows, connected, storeFailed, overlapped>>
  BY DEF UnregisterClient, serverVars, connVars, routeVars, history
<1>2. handler[s] = "unregister"
  BY DEF UnregisterClient
<1>3. /\ handler' \in [Sessions -> HandlerStates]
      /\ \A t \in Sessions : handler'[t] = IF t = s THEN "close" ELSE handler[t]
  BY <1>0 DEF UnregisterClient, TypeOK, HandlerStates
<1>4. current' = (IF current = s THEN None ELSE current)
  BY DEF UnregisterClient
<1>5. TypeOK'
  BY <1>0, <1>1, <1>2, <1>3, <1>4 DEF TypeOK
<1>6. HandlerJobs'
  BY <1>0, <1>1, <1>2, <1>3, <1>4, Ranges DEF HandlerJobs
<1>7. ServerOK'
  BY <1>0, <1>1, <1>2, <1>3, <1>4, Ranges DEF ServerOK
<1>8. HandlerOK'
  BY <1>0, <1>1, <1>2, <1>3, <1>4, Ranges DEF HandlerOK
<1>9. OwnedOK'
  <2>1. \A t \in Sessions : Fresh(t) => Fresh(t)'
    BY <1>0, <1>1, <1>2, <1>3, <1>4, Ranges DEF Fresh
  <2> QED
    BY <1>0, <1>1, <1>2, <1>3, <1>4, <2>1, Ranges DEF OwnedOK, Owned
<1>10. PresenceOwned'
  BY <1>0, <1>1, <1>2, <1>3, <1>4, Ranges DEF PresenceOwned, Registered
<1>11. /\ JobsOK' /\ References' /\ Exclusive' /\ SlotStaysEmpty' /\ RemovedIsClosed'
       /\ LostOnlyByOverlap'
  BY <1>0, <1>1 DEF JobsOK, References, ReferencesLive, CreatedIsPrivate, IsOpen, Exclusive,
     SlotStaysEmpty, RemovedIsClosed, LostOnlyByOverlap, Exposed
<1> QED
  BY <1>5, <1>6, <1>7, <1>8, <1>9, <1>10, <1>11 DEF IInv

\* A handler closes its session before it marks the client.
LEMMA CloseOwnStep ==
    ASSUME IInv, NEW s \in Sessions, CloseOwn(s)
    PROVE  IInv'
<1> USE NoneAssumption
<1>0. /\ TypeOK /\ JobsOK /\ HandlerJobs /\ References
      /\ Exclusive /\ SlotStaysEmpty /\ RemovedIsClosed /\ LostOnlyByOverlap
      /\ ServerOK /\ HandlerOK /\ OwnedOK /\ PresenceOwned
  BY DEF IInv
<1>1. UNCHANGED <<phase, closed, queue, marking, current, displaced, receiver, job, rows,
                 connected, storeFailed, overlapped>>
  BY DEF CloseOwn, serverVars, connVars, routeVars, history
<1>2. handler[s] = "close"
  BY DEF CloseOwn
<1>3. /\ handler' \in [Sessions -> HandlerStates]
      /\ \A t \in Sessions : handler'[t] = IF t = s THEN "mark" ELSE handler[t]
  BY <1>0 DEF CloseOwn, TypeOK, HandlerStates
<1>4. /\ sessClosed' \in [Sessions -> BOOLEAN] /\ linkDown' \in [Sessions -> BOOLEAN]
      /\ bound' \in [Sessions -> [Routes -> Bindings \cup {None}]]
      /\ \A t \in Sessions : sessClosed'[t] = (sessClosed[t] \/ t = s)
      /\ \A t \in Sessions : /\ linkDown[t] => linkDown'[t]
                             /\ t # s => linkDown'[t] = linkDown[t]
      /\ References' /\ RemovedIsClosed' /\ LostOnlyByOverlap' /\ SlotStaysEmpty'
      /\ binding' \in [Bindings -> Binding \cup {None}]
      /\ \A b \in Bindings : binding'[b] # None =>
           binding[b] # None /\ binding'[b].sess = binding[b].sess
  BY <1>0, <1>1, CloseSessionEffect DEF CloseOwn
<1>5. TypeOK'
  BY <1>0, <1>1, <1>2, <1>3, <1>4 DEF TypeOK
<1>6. HandlerJobs'
  BY <1>0, <1>1, <1>2, <1>3, <1>4, Ranges DEF HandlerJobs
<1>7. References'
  BY <1>4
<1>8. SlotStaysEmpty'
  BY <1>4
<1>9. RemovedIsClosed'
  BY <1>4
<1>10. LostOnlyByOverlap'
  BY <1>4
<1>11. ServerOK'
  BY <1>0, <1>1, <1>2, <1>3, <1>4, Ranges DEF ServerOK
<1>12. HandlerOK'
  BY <1>0, <1>1, <1>2, <1>3, <1>4, Ranges DEF HandlerOK
<1>13. OwnedOK'
  <2>1. \A t \in Sessions : Fresh(t) => Fresh(t)'
    BY <1>0, <1>1, <1>2, <1>3, <1>4, Ranges DEF Fresh
  <2> QED
    BY <1>0, <1>1, <1>2, <1>3, <1>4, <2>1, Ranges DEF OwnedOK, Owned
<1>14. PresenceOwned'
  BY <1>0, <1>1, <1>2, <1>3, <1>4, Ranges DEF PresenceOwned, Registered
<1>15. JobsOK' /\ Exclusive'
  BY <1>0, <1>1 DEF JobsOK, Exclusive
<1> QED
  BY <1>5, <1>6, <1>7, <1>8, <1>9, <1>10, <1>11, <1>12, <1>13, <1>14, <1>15 DEF IInv

\* The last word of a handler whose session is closed.
LEMMA MarkOwnStep ==
    ASSUME IInv, NEW s \in Sessions, MarkOwn(s)
    PROVE  IInv'
<1> USE NoneAssumption
<1>0. /\ TypeOK /\ JobsOK /\ HandlerJobs /\ References
      /\ Exclusive /\ SlotStaysEmpty /\ RemovedIsClosed /\ LostOnlyByOverlap
      /\ ServerOK /\ HandlerOK /\ OwnedOK /\ PresenceOwned
  BY DEF IInv
<1>1. UNCHANGED <<phase, closed, queue, marking, current, displaced, sessClosed, linkDown,
                 receiver, bound, binding, job, rows, overlapped>>
  BY DEF MarkOwn, serverVars, connVars, routeVars, history
<1>2. handler[s] = "mark" /\ sessClosed[s] /\ current # s
  BY <1>0 DEF MarkOwn, HandlerOK
<1>3. /\ handler' \in [Sessions -> HandlerStates]
      /\ \A t \in Sessions : handler'[t] = IF t = s THEN "idle" ELSE handler[t]
  BY <1>0 DEF MarkOwn, TypeOK, HandlerStates
<1>4. /\ connected' \in BOOLEAN /\ storeFailed' \in BOOLEAN /\ (storeFailed => storeFailed')
      /\ ~storeFailed' => ~connected'
  BY <1>0 DEF MarkOwn, MarkClientDisconnected, WritePresence, TypeOK
<1>5. TypeOK'
  BY <1>0, <1>1, <1>2, <1>3, <1>4 DEF TypeOK
<1>6. HandlerJobs'
  BY <1>0, <1>1, <1>2, <1>3, <1>4, Ranges DEF HandlerJobs
<1>7. ServerOK'
  BY <1>0, <1>1, <1>2, <1>3, <1>4, Ranges DEF ServerOK
<1>8. HandlerOK'
  BY <1>0, <1>1, <1>2, <1>3, <1>4, Ranges DEF HandlerOK
<1>9. OwnedOK'
  <2>1. \A t \in Sessions : Fresh(t) => Fresh(t)'
    BY <1>0, <1>1, <1>2, <1>3, <1>4, Ranges DEF Fresh
  <2> QED
    BY <1>0, <1>1, <1>2, <1>3, <1>4, <2>1, Ranges DEF OwnedOK, Owned
<1>10. PresenceOwned'
  BY <1>0, <1>1, <1>2, <1>3, <1>4, Ranges DEF PresenceOwned, Registered
<1>11. /\ JobsOK' /\ References' /\ Exclusive' /\ SlotStaysEmpty' /\ RemovedIsClosed'
       /\ LostOnlyByOverlap'
  BY <1>0, <1>1 DEF JobsOK, References, ReferencesLive, CreatedIsPrivate, IsOpen, Exclusive,
     SlotStaysEmpty, RemovedIsClosed, LostOnlyByOverlap, Exposed
<1> QED
  BY <1>5, <1>6, <1>7, <1>8, <1>9, <1>10, <1>11 DEF IInv

\* The datagram receiver owns nothing.
LEMMA ReceiverEndsStep ==
    ASSUME IInv, NEW s \in Sessions, ReceiverEnds(s)
    PROVE  IInv'
<1> USE NoneAssumption
<1>0. /\ TypeOK /\ JobsOK /\ HandlerJobs /\ References
      /\ Exclusive /\ SlotStaysEmpty /\ RemovedIsClosed /\ LostOnlyByOverlap
      /\ ServerOK /\ HandlerOK /\ OwnedOK /\ PresenceOwned
  BY DEF IInv
<1>1. UNCHANGED <<phase, closed, queue, marking, current, handler, displaced, sessClosed,
                 linkDown, bound, binding, job, rows, connected, storeFailed, overlapped>>
  BY DEF ReceiverEnds, serverVars, connVars, routeVars, history
<1>2. /\ receiver' \in [Sessions -> BOOLEAN]
      /\ \A t \in Sessions : receiver'[t] = IF t = s THEN FALSE ELSE receiver[t]
  BY <1>0 DEF ReceiverEnds, TypeOK
<1>3. TypeOK'
  BY <1>0, <1>1, <1>2 DEF TypeOK
<1>4. /\ JobsOK' /\ HandlerJobs' /\ References' /\ Exclusive' /\ SlotStaysEmpty'
      /\ RemovedIsClosed' /\ LostOnlyByOverlap' /\ ServerOK' /\ HandlerOK' /\ OwnedOK'
      /\ PresenceOwned'
  BY <1>0, <1>1 DEF JobsOK, HandlerJobs, References, ReferencesLive, CreatedIsPrivate, IsOpen,
     Exclusive, SlotStaysEmpty, RemovedIsClosed, LostOnlyByOverlap, Exposed, ServerOK, HandlerOK,
     OwnedOK, Owned, Fresh, PresenceOwned, Registered
<1> QED
  BY <1>3, <1>4 DEF IInv

\* The sync loop reads the rows before it looks at the sessions.
LEMMA SyncListStep ==
    ASSUME IInv, SyncList
    PROVE  IInv'
<1> USE NoneAssumption
<1>0. /\ TypeOK /\ JobsOK /\ HandlerJobs /\ References
      /\ Exclusive /\ SlotStaysEmpty /\ RemovedIsClosed /\ LostOnlyByOverlap
      /\ ServerOK /\ HandlerOK /\ OwnedOK /\ PresenceOwned
  BY DEF IInv
<1>1. UNCHANGED <<phase, closed, queue, marking, current, handler, displaced, sessClosed,
                 linkDown, receiver, bound, binding, rows, connected, storeFailed,
                 overlapped>>
  BY DEF SyncList, serverVars, connVars, routeVars, history
<1>2. Syncer \in Workers /\ job[Syncer] \in GoodJob /\ job[Syncer].pc = "idle"
  BY <1>0, WorkerOf DEF SyncList, JobsOK
<1>3. [job[Syncer] EXCEPT !.pc = "sessions", !.desired = rows] \in GoodJob
  BY <1>0, <1>2 DEF GoodJob, Job, ApplyStates, TypeOK
<1>4. job' = [job EXCEPT ![Syncer] = [job[Syncer] EXCEPT !.pc = "sessions", !.desired = rows]]
  BY DEF SyncList
<1>5. /\ JobsOK'
      /\ \A v \in Workers : v # Syncer => job'[v] = job[v]
      /\ job'[Syncer].pc = "sessions" /\ job'[Syncer].target = None
      /\ job'[Syncer].snapshot = NoRoutes /\ job'[Syncer].created = None
  BY <1>0, <1>2, <1>3, <1>4, JobSet DEF GoodJob, Job
<1>6. \A s \in Sessions : s # Syncer
  BY WorkerOf
<1>7. TypeOK'
  BY <1>0, <1>1, <1>2, <1>3, <1>4, <1>5, <1>6 DEF TypeOK, JobsOK, GoodJob
<1>8. JobsOK'
  BY <1>0, <1>1, <1>2, <1>3, <1>4, <1>5, <1>6, Ranges DEF JobsOK
<1>9. HandlerJobs'
  BY <1>0, <1>1, <1>2, <1>3, <1>4, <1>5, <1>6, WorkerOf DEF HandlerJobs
<1>10. References'
  BY <1>0, <1>1, <1>2, <1>3, <1>4, <1>5, <1>6, UnchangedKeeps, ReferencesKept, NoRoutesType
<1>11. Exclusive'
  BY <1>0, <1>1, <1>2, <1>3, <1>4, <1>5, <1>6, Ranges DEF Exclusive
<1>12. SlotStaysEmpty'
  BY <1>0, <1>1, <1>2, <1>3, <1>4, <1>5, <1>6, Ranges DEF SlotStaysEmpty
<1>13. RemovedIsClosed'
  BY <1>0, <1>1, <1>2, <1>3, <1>4, <1>5, <1>6, Ranges DEF RemovedIsClosed
<1>14. LostOnlyByOverlap'
  BY <1>0, <1>1, <1>2, <1>3, <1>4, <1>5, <1>6, Ranges DEF LostOnlyByOverlap, Exposed, IsOpen
<1>15. OwnedOK'
  <2>1. \A t \in Sessions : Fresh(t) => Fresh(t)'
    BY <1>0, <1>1, <1>2, <1>3, <1>4, <1>5, <1>6, Ranges DEF Fresh
  <2> QED
    BY <1>0, <1>1, <1>2, <1>3, <1>4, <1>5, <1>6, <2>1, Ranges DEF OwnedOK, Owned
<1>16. ServerOK' /\ HandlerOK' /\ PresenceOwned'
  BY <1>0, <1>1 DEF ServerOK, HandlerOK, PresenceOwned, Registered
<1> QED
  BY <1>7, <1>8, <1>9, <1>10, <1>11, <1>12, <1>13, <1>14, <1>15, <1>16 DEF IInv

\* The sync loop works on the session that has the name.
LEMMA SyncSessionsStep ==
    ASSUME IInv, SyncSessions
    PROVE  IInv'
<1> USE NoneAssumption
<1>0. /\ TypeOK /\ JobsOK /\ HandlerJobs /\ References
      /\ Exclusive /\ SlotStaysEmpty /\ RemovedIsClosed /\ LostOnlyByOverlap
      /\ ServerOK /\ HandlerOK /\ OwnedOK /\ PresenceOwned
  BY DEF IInv
<1>1. UNCHANGED <<phase, closed, queue, marking, current, handler, displaced, sessClosed,
                 linkDown, receiver, bound, binding, rows, connected, storeFailed,
                 overlapped>>
  BY DEF SyncSessions, serverVars, connVars, routeVars, history
<1>2. /\ Syncer \in Workers /\ job[Syncer] \in GoodJob /\ job[Syncer].pc = "sessions"
      /\ \A s \in Sessions : s # Syncer
  BY <1>0, WorkerOf DEF SyncSessions, JobsOK
<1>3. current \in Sessions => [job[Syncer] EXCEPT !.target = current, !.pc = "begin"] \in GoodJob
  BY <1>0, <1>2 DEF GoodJob, Job, ApplyStates, TypeOK
<1>4. job' = [job EXCEPT ![Syncer] = IF current = None THEN NoJob
                        ELSE [job[Syncer] EXCEPT !.target = current, !.pc = "begin"]]
  BY DEF SyncSessions
<1>5. /\ JobsOK'
      /\ \A v \in Workers : v # Syncer => job'[v] = job[v]
      /\ job'[Syncer].pc \in {"idle", "begin"} /\ job'[Syncer].target \in {None, current}
      /\ job'[Syncer].snapshot = NoRoutes /\ job'[Syncer].created = None
  <2>1. CASE current = None
    BY <1>0, <1>2, <1>4, <2>1, JobSet, NoJobIsGood
  <2>2. CASE current # None
    BY <1>0, <1>2, <1>3, <1>4, <2>2, JobSet DEF TypeOK, GoodJob, Job
  <2> QED
    BY <2>1, <2>2
<1>6. job[Syncer].created = None /\ job[Syncer].target = None
  BY <1>0, <1>2, JobRanges
<1>7. TypeOK'
  BY <1>0, <1>1, <1>2, <1>3, <1>4, <1>5, <1>6 DEF TypeOK, JobsOK, GoodJob
<1>8. JobsOK'
  BY <1>0, <1>1, <1>2, <1>3, <1>4, <1>5, <1>6, Ranges DEF JobsOK
<1>9. HandlerJobs'
  BY <1>0, <1>1, <1>2, <1>3, <1>4, <1>5, <1>6, WorkerOf DEF HandlerJobs
<1>10. References'
  BY <1>0, <1>1, <1>2, <1>3, <1>4, <1>5, <1>6, UnchangedKeeps, ReferencesKept, NoRoutesType
<1>11. Exclusive'
  BY <1>0, <1>1, <1>2, <1>3, <1>4, <1>5, <1>6, Ranges DEF Exclusive
<1>12. SlotStaysEmpty'
  BY <1>0, <1>1, <1>2, <1>3, <1>4, <1>5, <1>6, Ranges DEF SlotStaysEmpty
<1>13. RemovedIsClosed'
  BY <1>0, <1>1, <1>2, <1>3, <1>4, <1>5, <1>6, Ranges DEF RemovedIsClosed
<1>14. LostOnlyByOverlap'
  BY <1>0, <1>1, <1>2, <1>3, <1>4, <1>5, <1>6, Ranges DEF LostOnlyByOverlap, Exposed, IsOpen
<1>15. OwnedOK'
  <2>1. \A t \in Sessions : Fresh(t) => Fresh(t)'
    BY <1>0, <1>1, <1>2, <1>3, <1>4, <1>5, <1>6, Ranges DEF Fresh
  <2> QED
    BY <1>0, <1>1, <1>2, <1>3, <1>4, <1>5, <1>6, <2>1, Ranges DEF OwnedOK, Owned
<1>16. ServerOK' /\ HandlerOK' /\ PresenceOwned'
  BY <1>0, <1>1 DEF ServerOK, HandlerOK, PresenceOwned, Registered
<1> QED
  BY <1>7, <1>8, <1>9, <1>10, <1>11, <1>12, <1>13, <1>14, <1>15, <1>16 DEF IInv

\* A worker that finds its session closed, or has applied all rows, stops; a binding it
\* created is closed.
LEMMA Abandon ==
    ASSUME IInv, NEW w \in Workers, job' = [job EXCEPT ![w] = NoJob],
           ObjectsKept({job[w].created} \ {None}),
           overlapped \subseteq overlapped', overlapped' \in SUBSET Sessions,
           UNCHANGED <<serverVars, connVars, bound, rows, connected, storeFailed>>
    PROVE  IInv'
<1> USE NoneAssumption
<1>0. /\ TypeOK /\ JobsOK /\ HandlerJobs /\ References
      /\ Exclusive /\ SlotStaysEmpty /\ RemovedIsClosed /\ LostOnlyByOverlap
      /\ ServerOK /\ HandlerOK /\ OwnedOK /\ PresenceOwned
  BY DEF IInv
<1>1. UNCHANGED <<phase, closed, queue, marking, current, handler, displaced, sessClosed,
                 linkDown, receiver, bound, rows, connected, storeFailed>>
  BY DEF serverVars, connVars
<1>2. job'[w] = NoJob /\ JobsOK'
      /\ \A v \in Workers : v # w => job'[v] = job[v]
  BY <1>0, NoJobIsGood, JobSet
<1>3. /\ ObjectsKept({job[w].created} \ {None})
      /\ overlapped \subseteq overlapped' /\ overlapped' \in SUBSET Sessions
  OBVIOUS
<1>4. /\ job'[w].pc = "idle" /\ job'[w].target = None /\ job'[w].created = None
      /\ job'[w].snapshot = NoRoutes
  BY <1>2, NoJobIsGood
<1>5. TypeOK'
  BY <1>0, <1>1, <1>2, <1>3, <1>4 DEF TypeOK, JobsOK, GoodJob, ObjectsKept
<1>6. JobsOK'
  BY <1>0, <1>1, <1>2, <1>3, <1>4, Ranges DEF JobsOK
<1>7. HandlerJobs'
  BY <1>0, <1>1, <1>2, <1>3, <1>4, WorkerOf DEF HandlerJobs
<1>8. References'
  <2>1. {job[w].created} \ {None} \in SUBSET Bindings
    BY <1>0, JobRanges
  <2>2. \A v \in Workers : job'[v].created # None =>
          job'[v] = job[v] /\ job[v].created \notin {job[w].created} \ {None}
    BY <1>0, <1>2, <1>4 DEF References, CreatedIsPrivate
  <2> QED
    BY <1>0, <1>1, <1>2, <1>3, <1>4, <2>1, <2>2, ReferencesKept, NoRoutesType
<1>9. Exclusive'
  BY <1>0, <1>1, <1>2, <1>3, <1>4, Ranges DEF Exclusive
<1>10. SlotStaysEmpty'
  BY <1>0, <1>1, <1>2, <1>3, <1>4, JobRanges DEF SlotStaysEmpty
<1>11. RemovedIsClosed'
  <2>1. ASSUME NEW v \in Workers, job'[v].pc = "unpublish"
        PROVE  ~binding'[job'[v].snapshot[job'[v].route]].open
    <3>1. /\ v # w /\ job'[v] = job[v] /\ job[v].route \in Routes
          /\ job[v].snapshot[job[v].route] \in Bindings
          /\ binding[job[v].snapshot[job[v].route]] # None
          /\ ~binding[job[v].snapshot[job[v].route]].open
      BY <1>0, <1>1, <1>2, <1>3, <1>4, <2>1, JobRanges DEF References, ReferencesLive,
         RemovedIsClosed
    <3>2. binding'[job[v].snapshot[job[v].route]] # None
      BY <1>0, <1>1, <1>2, <1>3, <1>4, <3>1 DEF ObjectsKept
    <3> QED
      BY <1>0, <1>1, <1>2, <1>3, <1>4, <3>1, <3>2 DEF ObjectsKept
  <2> QED
    BY <2>1 DEF RemovedIsClosed
<1>12. LostOnlyByOverlap'
  <2>1. ASSUME NEW b \in Bindings, IsOpen(b)', ~Exposed(b)'
        PROVE  binding'[b].sess \in overlapped'
    <3>1. /\ IsOpen(b) /\ binding'[b].sess = binding[b].sess /\ binding'[b].route = binding[b].route
          /\ binding[b].sess \in Sessions /\ binding[b].route \in Routes
          /\ job[w].created # b
      BY <1>0, <1>1, <1>2, <1>3, <1>4, <2>1 DEF ObjectsKept, IsOpen, TypeOK, Binding
    <3>2. ~Exposed(b)
      BY <1>0, <1>1, <1>2, <1>3, <1>4, <2>1, <3>1, JobRanges DEF Exposed, ObjectsKept, IsOpen
    <3> QED
      BY <1>0, <1>1, <1>2, <1>3, <1>4, <3>1, <3>2 DEF LostOnlyByOverlap
  <2> QED
    BY <1>0, <1>1, <1>2, <1>3, <1>4, <2>1 DEF LostOnlyByOverlap
<1>13. OwnedOK'
  <2>1. \A t \in Sessions : Fresh(t) => Fresh(t)'
    BY <1>0, <1>1, <1>2, <1>3, <1>4, JobRanges DEF Fresh, ObjectsKept
  <2> QED
    BY <1>0, <1>1, <1>2, <1>3, <1>4, <2>1, Ranges DEF OwnedOK, Owned
<1>14. ServerOK' /\ HandlerOK' /\ PresenceOwned'
  BY <1>0, <1>1 DEF ServerOK, HandlerOK, PresenceOwned, Registered
<1> QED
  BY <1>5, <1>6, <1>7, <1>8, <1>9, <1>10, <1>11, <1>12, <1>13, <1>14 DEF IInv

\* The copy a worker makes is of objects; a second worker of the session is noted.
LEMMA BeginCopiesStep ==
    ASSUME IInv, NEW w \in Workers, Begin(w), ~sessClosed[job[w].target]
    PROVE  IInv'
<1> USE NoneAssumption
<1>0. /\ TypeOK /\ JobsOK /\ HandlerJobs /\ References
      /\ Exclusive /\ SlotStaysEmpty /\ RemovedIsClosed /\ LostOnlyByOverlap
      /\ ServerOK /\ HandlerOK /\ OwnedOK /\ PresenceOwned
  BY DEF IInv
<1>1. UNCHANGED <<phase, closed, queue, marking, current, handler, displaced, sessClosed,
                 linkDown, receiver, bound, binding, rows, connected, storeFailed>>
  BY DEF Begin, serverVars, connVars
<1>2. /\ job[w] \in GoodJob /\ job[w].pc = "begin" /\ job[w].target \in Sessions
      /\ job[w].created = None /\ bound[job[w].target] \in [Routes -> Bindings \cup {None}]
  BY <1>0, JobRanges DEF Begin, TypeOK
<1>3. [job[w] EXCEPT !.snapshot = bound[job[w].target], !.pc = "retire"] \in GoodJob
  BY <1>0, <1>2 DEF GoodJob, Job, ApplyStates, TypeOK
<1>4. job' = [job EXCEPT ![w] = [job[w] EXCEPT !.snapshot = bound[job[w].target], !.pc = "retire"]]
  BY DEF Begin
<1>5. /\ JobsOK'
      /\ \A v \in Workers : v # w => job'[v] = job[v]
      /\ job'[w].pc = "retire" /\ job'[w].target = job[w].target /\ job'[w].created = None
      /\ job'[w].snapshot = bound[job[w].target]
  <2> DEFINE j == [job[w] EXCEPT !.snapshot = bound[job[w].target], !.pc = "retire"]
  <2>1. /\ j \in GoodJob
        /\ j.pc = "retire" /\ j.target = job[w].target /\ j.created = None
        /\ j.snapshot = bound[job[w].target]
    BY <1>2, <1>3 DEF GoodJob, Job
  <2>2. job' = [job EXCEPT ![w] = j]
    BY <1>4
  <2> HIDE DEF j
  <2>3. JobsOK' /\ job'[w] = j /\ \A v \in Workers : v # w => job'[v] = job[v]
    BY <1>0, <2>1, <2>2, JobSet
  <2> QED
    BY <2>1, <2>3
<1>6. /\ overlapped \subseteq overlapped' /\ overlapped' \in SUBSET Sessions
      /\ \A v \in Workers \ {w} :
           job[v].target = job[w].target /\ job[v].pc # "begin" => job[w].target \in overlapped'
  BY <1>0, <1>2, JobRanges DEF Begin, TypeOK
<1>7. ObjectsKept({})
  BY <1>0, <1>1, UnchangedKeeps
<1>8. TypeOK'
  BY <1>0, <1>1, <1>2, <1>3, <1>4, <1>5, <1>6, <1>7 DEF TypeOK, JobsOK, GoodJob, ObjectsKept
<1>9. JobsOK'
  BY <1>0, <1>1, <1>2, <1>3, <1>4, <1>5, <1>6, <1>7, Ranges DEF JobsOK
<1>10. HandlerJobs'
  BY <1>0, <1>1, <1>2, <1>3, <1>4, <1>5, <1>6, <1>7, WorkerOf DEF HandlerJobs
<1>11. References'
  BY <1>0, <1>1, <1>2, <1>3, <1>4, <1>5, <1>6, <1>7, ReferencesKept, JobRanges, NoRoutesType
<1>12. Exclusive'
  BY <1>0, <1>1, <1>2, <1>3, <1>4, <1>5, <1>6, <1>7, Ranges DEF Exclusive
<1>13. SlotStaysEmpty'
  BY <1>0, <1>1, <1>2, <1>3, <1>4, <1>5, <1>6, <1>7, JobRanges DEF SlotStaysEmpty
<1>14. RemovedIsClosed'
  BY <1>0, <1>1, <1>2, <1>3, <1>4, <1>5, <1>6, <1>7, Ranges DEF RemovedIsClosed
<1>15. LostOnlyByOverlap'
  BY <1>0, <1>1, <1>2, <1>3, <1>4, <1>5, <1>6, <1>7, Ranges DEF LostOnlyByOverlap, Exposed, IsOpen
<1>16. OwnedOK'
  <2>1. \A t \in Sessions : Fresh(t) => Fresh(t)'
    BY <1>0, <1>1, <1>2, <1>3, <1>4, <1>5, <1>6, <1>7, JobRanges DEF Fresh, ObjectsKept
  <2> QED
    BY <1>0, <1>1, <1>2, <1>3, <1>4, <1>5, <1>6, <1>7, <2>1, Ranges DEF OwnedOK, Owned
<1>17. ServerOK' /\ HandlerOK' /\ PresenceOwned'
  BY <1>0, <1>1 DEF ServerOK, HandlerOK, PresenceOwned, Registered
<1> QED
  BY <1>8, <1>9, <1>10, <1>11, <1>12, <1>13, <1>14, <1>15, <1>16, <1>17 DEF IInv

\* The binding a worker closes is the one it is about to take out of the map.
LEMMA RetireClosesStep ==
    ASSUME IInv, NEW w \in Workers, NEW r \in Routes, Closes(w, r)
    PROVE  IInv'
<1> USE NoneAssumption
<1>0. /\ TypeOK /\ JobsOK /\ HandlerJobs /\ References
      /\ Exclusive /\ SlotStaysEmpty /\ RemovedIsClosed /\ LostOnlyByOverlap
      /\ ServerOK /\ HandlerOK /\ OwnedOK /\ PresenceOwned
  BY DEF IInv
<1>1. UNCHANGED <<phase, closed, queue, marking, current, handler, displaced, sessClosed,
                 linkDown, receiver, bound, rows, connected, storeFailed, overlapped>>
  BY DEF Closes, serverVars, connVars, history
<1>2. /\ job[w] \in GoodJob /\ r \in Routes
      /\ job[w].pc = "retire" /\ job[w].target \in Sessions /\ job[w].created = None
      /\ job[w].snapshot[r] \in Bindings /\ binding[job[w].snapshot[r]] # None
  BY <1>0, JobRanges DEF Closes, StaleRoutes, References, ReferencesLive
<1>3. [job[w] EXCEPT !.pc = "unpublish", !.route = r] \in GoodJob
  BY <1>0, <1>2 DEF GoodJob, Job, ApplyStates
<1>4. job' = [job EXCEPT ![w] = [job[w] EXCEPT !.pc = "unpublish", !.route = r]]
  BY DEF Closes
<1>5. /\ JobsOK'
      /\ \A v \in Workers : v # w => job'[v] = job[v]
      /\ job'[w].pc = "unpublish" /\ job'[w].target = job[w].target /\ job'[w].created = None
      /\ job'[w].snapshot = job[w].snapshot /\ job'[w].route = r
  <2> DEFINE j == [job[w] EXCEPT !.pc = "unpublish", !.route = r]
  <2>1. /\ j \in GoodJob
        /\ j.pc = "unpublish" /\ j.target = job[w].target /\ j.created = None
        /\ j.snapshot = job[w].snapshot /\ j.route = r
    BY <1>2, <1>3 DEF GoodJob, Job
  <2>2. job' = [job EXCEPT ![w] = j]
    BY <1>4
  <2> HIDE DEF j
  <2>3. JobsOK' /\ job'[w] = j /\ \A v \in Workers : v # w => job'[v] = job[v]
    BY <1>0, <2>1, <2>2, JobSet
  <2> QED
    BY <2>1, <2>3
<1>6. ObjectsKept({job[w].snapshot[r]})
  BY <1>0, <1>2, ClosedKeeps DEF Closes
<1>7. TypeOK'
  BY <1>0, <1>1, <1>2, <1>3, <1>4, <1>5, <1>6 DEF TypeOK, JobsOK, GoodJob, ObjectsKept
<1>8. JobsOK'
  BY <1>0, <1>1, <1>2, <1>3, <1>4, <1>5, <1>6, Ranges DEF JobsOK
<1>9. HandlerJobs'
  BY <1>0, <1>1, <1>2, <1>3, <1>4, <1>5, <1>6, WorkerOf DEF HandlerJobs
<1>10. References'
  <2>1. {job[w].snapshot[r]} \in SUBSET Bindings /\ r \in Routes
    BY <1>2
  <2>2. \A v \in Workers : job'[v].created # None =>
          job'[v] = job[v] /\ job[v].created \notin {job[w].snapshot[r]}
    BY <1>0, <1>5, <2>1 DEF References, CreatedIsPrivate
  <2> QED
    BY <1>0, <1>1, <1>2, <1>3, <1>4, <1>5, <1>6, <2>1, <2>2, ReferencesKept, NoRoutesType
<1>11. Exclusive'
  BY <1>0, <1>1, <1>2, <1>3, <1>4, <1>5, <1>6, Ranges DEF Exclusive
<1>12. SlotStaysEmpty'
  BY <1>0, <1>1, <1>2, <1>3, <1>4, <1>5, <1>6, JobRanges DEF SlotStaysEmpty
<1>13. RemovedIsClosed'
  <2>0. binding'[job[w].snapshot[r]] # None /\ ~binding'[job[w].snapshot[r]].open
    <3>1. job'[w].snapshot[r] = job[w].snapshot[r]
      BY <1>5
    <3>2. binding'[job[w].snapshot[r]] # None
      BY <1>2, <1>6, <3>1 DEF ObjectsKept
    <3> QED
      BY <1>2, <1>6, <3>2 DEF ObjectsKept
  <2>1. ASSUME NEW v \in Workers, job'[v].pc = "unpublish", v # w
        PROVE  ~binding'[job'[v].snapshot[job'[v].route]].open
    <3>1. /\ job'[v] = job[v] /\ job[v].route \in Routes
          /\ job[v].snapshot[job[v].route] \in Bindings
          /\ binding[job[v].snapshot[job[v].route]] # None
          /\ ~binding[job[v].snapshot[job[v].route]].open
      BY <1>0, <1>1, <1>2, <1>3, <1>4, <1>5, <1>6, <2>1, JobRanges DEF References, ReferencesLive,
         RemovedIsClosed
    <3>2. binding'[job[v].snapshot[job[v].route]] # None
      BY <1>0, <1>1, <1>2, <1>3, <1>4, <1>5, <1>6, <3>1 DEF ObjectsKept
    <3> QED
      BY <1>0, <1>1, <1>2, <1>3, <1>4, <1>5, <1>6, <3>1, <3>2 DEF ObjectsKept
  <2> QED
    BY <1>5, <2>0, <2>1 DEF RemovedIsClosed
<1>14. LostOnlyByOverlap'
  <2>1. ASSUME NEW b \in Bindings, IsOpen(b)', ~Exposed(b)'
        PROVE  binding'[b].sess \in overlapped'
    <3>1. /\ IsOpen(b) /\ binding'[b].sess = binding[b].sess /\ binding'[b].route = binding[b].route
          /\ binding[b].sess \in Sessions /\ binding[b].route \in Routes
      BY <1>0, <1>1, <1>2, <1>3, <1>4, <1>5, <1>6, <2>1 DEF ObjectsKept, IsOpen, TypeOK, Binding
    <3>2. ~Exposed(b)
      BY <1>0, <1>1, <1>2, <1>3, <1>4, <1>5, <1>6, <2>1, <3>1, JobRanges DEF Exposed, ObjectsKept,
         IsOpen
    <3> QED
      BY <1>0, <1>1, <1>2, <1>3, <1>4, <1>5, <1>6, <3>1, <3>2 DEF LostOnlyByOverlap
  <2> QED
    BY <1>0, <1>1, <1>2, <1>3, <1>4, <1>5, <1>6, <2>1 DEF LostOnlyByOverlap
<1>15. OwnedOK'
  <2>1. \A t \in Sessions : Fresh(t) => Fresh(t)'
    BY <1>0, <1>1, <1>2, <1>3, <1>4, <1>5, <1>6, JobRanges DEF Fresh, ObjectsKept
  <2> QED
    BY <1>0, <1>1, <1>2, <1>3, <1>4, <1>5, <1>6, <2>1, Ranges DEF OwnedOK, Owned
<1>16. ServerOK' /\ HandlerOK' /\ PresenceOwned'
  BY <1>0, <1>1 DEF ServerOK, HandlerOK, PresenceOwned, Registered
<1> QED
  BY <1>7, <1>8, <1>9, <1>10, <1>11, <1>12, <1>13, <1>14, <1>15, <1>16 DEF IInv

\* What leaves the map of the session is closed.
LEMMA UnpublishStep ==
    ASSUME IInv, NEW w \in Workers, Unpublish(w)
    PROVE  IInv'
<1> USE NoneAssumption
<1>0. /\ TypeOK /\ JobsOK /\ HandlerJobs /\ References
      /\ Exclusive /\ SlotStaysEmpty /\ RemovedIsClosed /\ LostOnlyByOverlap
      /\ ServerOK /\ HandlerOK /\ OwnedOK /\ PresenceOwned
  BY DEF IInv
<1>1. UNCHANGED <<phase, closed, queue, marking, current, handler, displaced, sessClosed,
                 linkDown, receiver, rows, connected, storeFailed, overlapped>>
  BY DEF Unpublish, serverVars, connVars, history
<1>2. /\ job[w] \in GoodJob
      /\ job[w].pc = "unpublish" /\ job[w].target \in Sessions /\ job[w].created = None
      /\ job[w].route \in Routes /\ job[w].snapshot[job[w].route] \in Bindings
  BY <1>0, JobRanges DEF Unpublish
<1>3. /\ bound' \in [Sessions -> [Routes -> Bindings \cup {None}]]
      /\ \A s \in Sessions, r \in Routes : bound'[s][r] =
           IF s = job[w].target /\ r = job[w].route /\ bound[s][r] = job[w].snapshot[r]
             THEN None ELSE bound[s][r]
  BY <1>0, <1>2 DEF Unpublish, TypeOK
<1>4. [job[w].snapshot EXCEPT ![job[w].route] = None] \in [Routes -> Bindings \cup {None}]
  BY <1>0, <1>2, JobRanges
<1>5. [job[w] EXCEPT !.pc = "retire", !.route = None,
              !.snapshot = [job[w].snapshot EXCEPT ![job[w].route] = None]] \in GoodJob
  BY <1>0, <1>2, <1>4 DEF GoodJob, Job, ApplyStates
<1>6. job' = [job EXCEPT ![w] = [job[w] EXCEPT !.pc = "retire", !.route = None,
              !.snapshot = [job[w].snapshot EXCEPT ![job[w].route] = None]]]
  BY <1>0, <1>2, JobRanges DEF Unpublish, JobsOK, GoodJob, Job
<1>7. /\ JobsOK'
      /\ \A v \in Workers : v # w => job'[v] = job[v]
      /\ job'[w].pc = "retire" /\ job'[w].target = job[w].target /\ job'[w].created = None
      /\ job'[w].snapshot = [job[w].snapshot EXCEPT ![job[w].route] = None]
  <2> DEFINE j == [job[w] EXCEPT !.pc = "retire", !.route = None,
              !.snapshot = [job[w].snapshot EXCEPT ![job[w].route] = None]]
  <2>1. /\ j \in GoodJob
        /\ j.pc = "retire" /\ j.target = job[w].target /\ j.created = None
        /\ j.snapshot = [job[w].snapshot EXCEPT ![job[w].route] = None]
    BY <1>2, <1>5 DEF GoodJob, Job
  <2>2. job' = [job EXCEPT ![w] = j]
    BY <1>6
  <2> HIDE DEF j
  <2>3. JobsOK' /\ job'[w] = j /\ \A v \in Workers : v # w => job'[v] = job[v]
    BY <1>0, <2>1, <2>2, JobSet
  <2> QED
    BY <2>1, <2>3
<1>8. ObjectsKept({})
  BY <1>0, LiveKeeps DEF Unpublish
<1>9. TypeOK'
  BY <1>0, <1>1, <1>2, <1>3, <1>4, <1>5, <1>6, <1>7, <1>8 DEF TypeOK, JobsOK, GoodJob, ObjectsKept
<1>10. JobsOK'
  BY <1>0, <1>1, <1>2, <1>3, <1>4, <1>5, <1>6, <1>7, <1>8, Ranges DEF JobsOK
<1>11. HandlerJobs'
  BY <1>0, <1>1, <1>2, <1>3, <1>4, <1>5, <1>6, <1>7, <1>8, WorkerOf DEF HandlerJobs
<1>12. References'
  <2>1. \A r \in Routes : job'[w].snapshot[r] # None => job'[w].snapshot[r] = job[w].snapshot[r]
    BY <1>0, <1>2, <1>4, <1>7, JobRanges
  <2> QED
    BY <1>0, <1>1, <1>2, <1>3, <1>4, <1>5, <1>6, <1>7, <1>8, <2>1, ReferencesKept
<1>13. Exclusive'
  BY <1>0, <1>1, <1>2, <1>3, <1>4, <1>5, <1>6, <1>7, <1>8, Ranges DEF Exclusive
<1>14. SlotStaysEmpty'
  BY <1>0, <1>1, <1>2, <1>3, <1>4, <1>5, <1>6, <1>7, <1>8, JobRanges DEF SlotStaysEmpty
<1>15. RemovedIsClosed'
  <2>1. ASSUME NEW v \in Workers, job'[v].pc = "unpublish"
        PROVE  ~binding'[job'[v].snapshot[job'[v].route]].open
    <3>1. /\ v # w /\ job'[v] = job[v] /\ job[v].route \in Routes
          /\ job[v].snapshot[job[v].route] \in Bindings
          /\ binding[job[v].snapshot[job[v].route]] # None
          /\ ~binding[job[v].snapshot[job[v].route]].open
      BY <1>0, <1>1, <1>2, <1>3, <1>4, <1>5, <1>6, <1>7, <1>8, <2>1, JobRanges DEF References,
         ReferencesLive, RemovedIsClosed
    <3>2. binding'[job[v].snapshot[job[v].route]] # None
      BY <1>0, <1>1, <1>2, <1>3, <1>4, <1>5, <1>6, <1>7, <1>8, <3>1 DEF ObjectsKept
    <3> QED
      BY <1>0, <1>1, <1>2, <1>3, <1>4, <1>5, <1>6, <1>7, <1>8, <3>1, <3>2 DEF ObjectsKept
  <2> QED
    BY <2>1 DEF RemovedIsClosed
<1>16. LostOnlyByOverlap'
  <2>1. ASSUME NEW b \in Bindings, IsOpen(b)', ~Exposed(b)'
        PROVE  binding'[b].sess \in overlapped'
    <3>1. /\ IsOpen(b) /\ binding'[b].sess = binding[b].sess /\ binding'[b].route = binding[b].route
          /\ binding[b].sess \in Sessions /\ binding[b].route \in Routes
      BY <1>0, <1>1, <1>2, <1>3, <1>4, <1>5, <1>6, <1>7, <1>8, <2>1 DEF ObjectsKept, IsOpen,
         TypeOK, Binding
    <3>2. ~(binding[b].sess = job[w].target /\ binding[b].route = job[w].route
            /\ b = job[w].snapshot[job[w].route])
      BY <1>0, <1>2, <3>1 DEF RemovedIsClosed, IsOpen
    <3>3. ~Exposed(b)
      BY <1>0, <1>1, <1>2, <1>3, <1>4, <1>5, <1>6, <1>7, <1>8, <2>1, <3>1, <3>2, JobRanges DEF
         Exposed, ObjectsKept, IsOpen
    <3> QED
      BY <1>0, <1>1, <1>2, <1>3, <1>4, <1>5, <1>6, <1>7, <1>8, <3>1, <3>3 DEF LostOnlyByOverlap
  <2>2. \A s \in Sessions : bound[s] = NoRoutes => bound'[s] = NoRoutes
    BY <1>0, <1>3, NoRoutesType DEF TypeOK, NoRoutes
  <2> QED
    BY <1>0, <1>1, <1>2, <1>3, <1>4, <1>5, <1>6, <1>7, <1>8, <2>1, <2>2 DEF LostOnlyByOverlap
<1>17. OwnedOK'
  <2>1. \A t \in Sessions : Fresh(t) => Fresh(t)'
    BY <1>0, <1>1, <1>2, <1>3, <1>4, <1>5, <1>6, <1>7, <1>8, JobRanges DEF Fresh, ObjectsKept
  <2> QED
    BY <1>0, <1>1, <1>2, <1>3, <1>4, <1>5, <1>6, <1>7, <1>8, <2>1, Ranges DEF OwnedOK, Owned
<1>18. ServerOK' /\ HandlerOK' /\ PresenceOwned'
  BY <1>0, <1>1 DEF ServerOK, HandlerOK, PresenceOwned, Registered
<1> QED
  BY <1>9, <1>10, <1>11, <1>12, <1>13, <1>14, <1>15, <1>16, <1>17, <1>18 DEF IInv

\* A worker drops its copy before it opens anything.
LEMMA RetireEndStep ==
    ASSUME IInv, NEW w \in Workers, RetireEnd(w)
    PROVE  IInv'
<1> USE NoneAssumption
<1>0. /\ TypeOK /\ JobsOK /\ HandlerJobs /\ References
      /\ Exclusive /\ SlotStaysEmpty /\ RemovedIsClosed /\ LostOnlyByOverlap
      /\ ServerOK /\ HandlerOK /\ OwnedOK /\ PresenceOwned
  BY DEF IInv
<1>1. UNCHANGED <<phase, closed, queue, marking, current, handler, displaced, sessClosed,
                 linkDown, receiver, bound, rows, connected, storeFailed, overlapped>>
  BY DEF RetireEnd, serverVars, connVars, history
<1>2. /\ job[w] \in GoodJob
      /\ job[w].pc = "retire" /\ job[w].target \in Sessions /\ job[w].created = None
  BY <1>0, JobRanges DEF RetireEnd
<1>3. [job[w] EXCEPT !.pc = "expose", !.snapshot = NoRoutes,
              !.todo = {r \in Routes : job[w].desired[r] # None}] \in GoodJob
  BY <1>0, <1>2, NoRoutesType DEF GoodJob, Job, ApplyStates
<1>4. job' = [job EXCEPT ![w] = [job[w] EXCEPT !.pc = "expose", !.snapshot = NoRoutes,
              !.todo = {r \in Routes : job[w].desired[r] # None}]]
  BY <1>0, <1>2, JobRanges DEF RetireEnd, JobsOK, GoodJob, Job
<1>5. /\ JobsOK'
      /\ \A v \in Workers : v # w => job'[v] = job[v]
      /\ job'[w].pc = "expose" /\ job'[w].target = job[w].target /\ job'[w].created = None
      /\ job'[w].snapshot = NoRoutes
  <2> DEFINE j == [job[w] EXCEPT !.pc = "expose", !.snapshot = NoRoutes,
              !.todo = {r \in Routes : job[w].desired[r] # None}]
  <2>1. /\ j \in GoodJob
        /\ j.pc = "expose" /\ j.target = job[w].target /\ j.created = None
        /\ j.snapshot = NoRoutes
    BY <1>2, <1>3 DEF GoodJob, Job
  <2>2. job' = [job EXCEPT ![w] = j]
    BY <1>4
  <2> HIDE DEF j
  <2>3. JobsOK' /\ job'[w] = j /\ \A v \in Workers : v # w => job'[v] = job[v]
    BY <1>0, <2>1, <2>2, JobSet
  <2> QED
    BY <2>1, <2>3
<1>6. ObjectsKept({})
  BY <1>0, <1>1, LiveKeeps DEF RetireEnd
<1>7. TypeOK'
  BY <1>0, <1>1, <1>2, <1>3, <1>4, <1>5, <1>6 DEF TypeOK, JobsOK, GoodJob, ObjectsKept
<1>8. JobsOK'
  BY <1>0, <1>1, <1>2, <1>3, <1>4, <1>5, <1>6, Ranges DEF JobsOK
<1>9. HandlerJobs'
  BY <1>0, <1>1, <1>2, <1>3, <1>4, <1>5, <1>6, WorkerOf DEF HandlerJobs
<1>10. References'
  BY <1>0, <1>1, <1>2, <1>3, <1>4, <1>5, <1>6, ReferencesKept, JobRanges, NoRoutesType
<1>11. Exclusive'
  BY <1>0, <1>1, <1>2, <1>3, <1>4, <1>5, <1>6, Ranges DEF Exclusive
<1>12. SlotStaysEmpty'
  BY <1>0, <1>1, <1>2, <1>3, <1>4, <1>5, <1>6, JobRanges DEF SlotStaysEmpty
<1>13. RemovedIsClosed'
  <2>1. ASSUME NEW v \in Workers, job'[v].pc = "unpublish"
        PROVE  ~binding'[job'[v].snapshot[job'[v].route]].open
    <3>1. /\ v # w /\ job'[v] = job[v] /\ job[v].route \in Routes
          /\ job[v].snapshot[job[v].route] \in Bindings
          /\ binding[job[v].snapshot[job[v].route]] # None
          /\ ~binding[job[v].snapshot[job[v].route]].open
      BY <1>0, <1>1, <1>2, <1>3, <1>4, <1>5, <1>6, <2>1, JobRanges DEF References, ReferencesLive,
         RemovedIsClosed
    <3>2. binding'[job[v].snapshot[job[v].route]] # None
      BY <1>0, <1>1, <1>2, <1>3, <1>4, <1>5, <1>6, <3>1 DEF ObjectsKept
    <3> QED
      BY <1>0, <1>1, <1>2, <1>3, <1>4, <1>5, <1>6, <3>1, <3>2 DEF ObjectsKept
  <2> QED
    BY <2>1 DEF RemovedIsClosed
<1>14. LostOnlyByOverlap'
  <2>1. ASSUME NEW b \in Bindings, IsOpen(b)', ~Exposed(b)'
        PROVE  binding'[b].sess \in overlapped'
    <3>1. /\ IsOpen(b) /\ binding'[b].sess = binding[b].sess /\ binding'[b].route = binding[b].route
          /\ binding[b].sess \in Sessions /\ binding[b].route \in Routes
      BY <1>0, <1>1, <1>2, <1>3, <1>4, <1>5, <1>6, <2>1 DEF ObjectsKept, IsOpen, TypeOK, Binding
    <3>2. ~Exposed(b)
      BY <1>0, <1>1, <1>2, <1>3, <1>4, <1>5, <1>6, <2>1, <3>1, JobRanges DEF Exposed, ObjectsKept,
         IsOpen
    <3> QED
      BY <1>0, <1>1, <1>2, <1>3, <1>4, <1>5, <1>6, <3>1, <3>2 DEF LostOnlyByOverlap
  <2> QED
    BY <1>0, <1>1, <1>2, <1>3, <1>4, <1>5, <1>6, <2>1 DEF LostOnlyByOverlap
<1>15. OwnedOK'
  <2>1. \A t \in Sessions : Fresh(t) => Fresh(t)'
    BY <1>0, <1>1, <1>2, <1>3, <1>4, <1>5, <1>6, JobRanges DEF Fresh, ObjectsKept
  <2> QED
    BY <1>0, <1>1, <1>2, <1>3, <1>4, <1>5, <1>6, <2>1, Ranges DEF OwnedOK, Owned
<1>16. ServerOK' /\ HandlerOK' /\ PresenceOwned'
  BY <1>0, <1>1 DEF ServerOK, HandlerOK, PresenceOwned, Registered
<1> QED
  BY <1>7, <1>8, <1>9, <1>10, <1>11, <1>12, <1>13, <1>14, <1>15, <1>16 DEF IInv

\* A route of the list that is left as it is.
LEMMA SkipsStep ==
    ASSUME IInv, NEW w \in Workers, NEW r \in Routes, Skips(w, r)
    PROVE  IInv'
<1> USE NoneAssumption
<1>0. /\ TypeOK /\ JobsOK /\ HandlerJobs /\ References
      /\ Exclusive /\ SlotStaysEmpty /\ RemovedIsClosed /\ LostOnlyByOverlap
      /\ ServerOK /\ HandlerOK /\ OwnedOK /\ PresenceOwned
  BY DEF IInv
<1>1. UNCHANGED <<phase, closed, queue, marking, current, handler, displaced, sessClosed,
                 linkDown, receiver, bound, binding, rows, connected, storeFailed,
                 overlapped>>
  BY DEF Skips, serverVars, connVars, history
<1>2. /\ job[w] \in GoodJob
      /\ job[w].pc = "expose" /\ job[w].target \in Sessions /\ job[w].created = None
  BY <1>0, JobRanges DEF Skips
<1>3. [job[w] EXCEPT !.todo = job[w].todo \ {r}] \in GoodJob
  BY <1>0, <1>2 DEF GoodJob, Job, ApplyStates
<1>4. job' = [job EXCEPT ![w] = [job[w] EXCEPT !.todo = job[w].todo \ {r}]]
  BY DEF Skips
<1>5. /\ JobsOK'
      /\ \A v \in Workers : v # w => job'[v] = job[v]
      /\ job'[w].pc = "expose" /\ job'[w].target = job[w].target /\ job'[w].created = None
      /\ job'[w].snapshot = job[w].snapshot
  <2> DEFINE j == [job[w] EXCEPT !.todo = job[w].todo \ {r}]
  <2>1. /\ j \in GoodJob
        /\ j.pc = "expose" /\ j.target = job[w].target /\ j.created = None
        /\ j.snapshot = job[w].snapshot
    BY <1>2, <1>3 DEF GoodJob, Job
  <2>2. job' = [job EXCEPT ![w] = j]
    BY <1>4
  <2> HIDE DEF j
  <2>3. JobsOK' /\ job'[w] = j /\ \A v \in Workers : v # w => job'[v] = job[v]
    BY <1>0, <2>1, <2>2, JobSet
  <2> QED
    BY <2>1, <2>3
<1>6. ObjectsKept({})
  BY <1>0, <1>1, UnchangedKeeps
<1>7. TypeOK'
  BY <1>0, <1>1, <1>2, <1>3, <1>4, <1>5, <1>6 DEF TypeOK, JobsOK, GoodJob, ObjectsKept
<1>8. JobsOK'
  BY <1>0, <1>1, <1>2, <1>3, <1>4, <1>5, <1>6, Ranges DEF JobsOK
<1>9. HandlerJobs'
  BY <1>0, <1>1, <1>2, <1>3, <1>4, <1>5, <1>6, WorkerOf DEF HandlerJobs
<1>10. References'
  BY <1>0, <1>1, <1>2, <1>3, <1>4, <1>5, <1>6, ReferencesKept, JobRanges, NoRoutesType
<1>11. Exclusive'
  BY <1>0, <1>1, <1>2, <1>3, <1>4, <1>5, <1>6, Ranges DEF Exclusive
<1>12. SlotStaysEmpty'
  BY <1>0, <1>1, <1>2, <1>3, <1>4, <1>5, <1>6, JobRanges DEF SlotStaysEmpty
<1>13. RemovedIsClosed'
  BY <1>0, <1>1, <1>2, <1>3, <1>4, <1>5, <1>6, Ranges DEF RemovedIsClosed
<1>14. LostOnlyByOverlap'
  BY <1>0, <1>1, <1>2, <1>3, <1>4, <1>5, <1>6, Ranges DEF LostOnlyByOverlap, Exposed, IsOpen
<1>15. OwnedOK'
  <2>1. \A t \in Sessions : Fresh(t) => Fresh(t)'
    BY <1>0, <1>1, <1>2, <1>3, <1>4, <1>5, <1>6, JobRanges DEF Fresh, ObjectsKept
  <2> QED
    BY <1>0, <1>1, <1>2, <1>3, <1>4, <1>5, <1>6, <2>1, Ranges DEF OwnedOK, Owned
<1>16. ServerOK' /\ HandlerOK' /\ PresenceOwned'
  BY <1>0, <1>1 DEF ServerOK, HandlerOK, PresenceOwned, Registered
<1> QED
  BY <1>7, <1>8, <1>9, <1>10, <1>11, <1>12, <1>13, <1>14, <1>15, <1>16 DEF IInv

\* A new binding is known to the worker that created it alone.
LEMMA OpensStep ==
    ASSUME IInv, NEW w \in Workers, NEW r \in Routes, Opens(w, r)
    PROVE  IInv'
<1> USE NoneAssumption
<1>0. /\ TypeOK /\ JobsOK /\ HandlerJobs /\ References
      /\ Exclusive /\ SlotStaysEmpty /\ RemovedIsClosed /\ LostOnlyByOverlap
      /\ ServerOK /\ HandlerOK /\ OwnedOK /\ PresenceOwned
  BY DEF IInv
<1>1. UNCHANGED <<phase, closed, queue, marking, current, handler, displaced, sessClosed,
                 linkDown, receiver, bound, rows, connected, storeFailed, overlapped>>
  BY DEF Opens, serverVars, connVars, history
<1>2. /\ job[w] \in GoodJob
      /\ job[w].pc = "expose" /\ job[w].target \in Sessions /\ job[w].created = None
      /\ ~sessClosed[job[w].target] /\ bound[job[w].target][r] = None
  BY <1>0, JobRanges DEF Opens
<1>3. NewBinding \in Bindings /\ binding[NewBinding] = None
  <2>1. \E b \in Unused : TRUE
    BY DEF Opens
  <2>2. NewBinding \in Unused
    BY <2>1 DEF NewBinding
  <2> QED
    BY <2>2 DEF Unused
<1>4. /\ binding' \in [Bindings -> Binding \cup {None}]
      /\ \A b \in Bindings : b # NewBinding => binding'[b] = binding[b]
      /\ binding'[NewBinding] # None /\ binding'[NewBinding].sess = job[w].target
      /\ binding'[NewBinding].route = r /\ binding'[NewBinding].open
  <2> DEFINE o == [sess |-> job[w].target, route |-> r,
                   proto |-> job[w].desired[r].proto, open |-> TRUE]
  <2>1. job[w].desired[r] \in Requests
    BY <1>0, JobRanges DEF Opens
  <2>2. o \in Binding /\ o.sess = job[w].target /\ o.route = r /\ o.open
    BY <1>2, <2>1, RequestAssumption DEF Binding
  <2>3. o # None
    BY <2>2, BindingAssumption
  <2>4. binding' = [binding EXCEPT ![NewBinding] = o]
    BY DEF Opens
  <2> HIDE DEF o
  <2> QED
    BY <1>0, <1>3, <2>2, <2>3, <2>4 DEF TypeOK
<1>5. [job[w] EXCEPT !.todo = job[w].todo \ {r}, !.route = r, !.pc = "publish",
                      !.created = NewBinding] \in GoodJob
  BY <1>0, <1>2, <1>3 DEF GoodJob, Job, ApplyStates
<1>6. job' = [job EXCEPT ![w] = [job[w] EXCEPT !.todo = job[w].todo \ {r}, !.route = r,
                                              !.pc = "publish", !.created = NewBinding]]
  BY DEF Opens
<1>7. /\ JobsOK'
      /\ \A v \in Workers : v # w => job'[v] = job[v]
      /\ job'[w].pc = "publish" /\ job'[w].target = job[w].target /\ job'[w].created = NewBinding
      /\ job'[w].snapshot = job[w].snapshot /\ job'[w].route = r
  <2> DEFINE j == [job[w] EXCEPT !.todo = job[w].todo \ {r}, !.route = r, !.pc = "publish",
                      !.created = NewBinding]
  <2>1. /\ j \in GoodJob
        /\ j.pc = "publish" /\ j.target = job[w].target /\ j.created = NewBinding
        /\ j.snapshot = job[w].snapshot /\ j.route = r
    BY <1>2, <1>5 DEF GoodJob, Job
  <2>2. job' = [job EXCEPT ![w] = j]
    BY <1>6
  <2> HIDE DEF j
  <2>3. JobsOK' /\ job'[w] = j /\ \A v \in Workers : v # w => job'[v] = job[v]
    BY <1>0, <2>1, <2>2, JobSet
  <2> QED
    BY <2>1, <2>3
<1>8. TypeOK'
  BY <1>0, <1>1, <1>2, <1>3, <1>4, <1>5, <1>6, <1>7 DEF TypeOK, JobsOK, GoodJob
<1>9. JobsOK'
  BY <1>0, <1>1, <1>2, <1>3, <1>4, <1>5, <1>6, <1>7, Ranges DEF JobsOK
<1>10. HandlerJobs'
  BY <1>0, <1>1, <1>2, <1>3, <1>4, <1>5, <1>6, <1>7, WorkerOf DEF HandlerJobs
<1>11. References'
  <2>1. /\ \A s \in Sessions, q \in Routes : bound[s][q] # NewBinding
        /\ \A v \in Workers, q \in Routes : job[v].snapshot[q] # NewBinding
        /\ \A v \in Workers : job[v].created # NewBinding
    BY <1>0, <1>3 DEF References, ReferencesLive, CreatedIsPrivate, IsOpen
  <2>2. /\ \A s \in Sessions, q \in Routes : bound[s][q] \in Bindings \cup {None}
        /\ \A v \in Workers, q \in Routes : job[v].snapshot[q] \in Bindings \cup {None}
        /\ \A v \in Workers : job[v].created \in Bindings \cup {None}
    BY <1>0, JobRanges DEF TypeOK
  <2>3. \A v \in Workers : job'[v].snapshot = job[v].snapshot
    BY <1>7
  <2>4. ReferencesLive'
    BY <1>0, <1>1, <1>4, <2>1, <2>2, <2>3 DEF References, ReferencesLive
  <2>5. ASSUME NEW v \in Workers, job'[v].created # None, v # w
        PROVE  /\ job'[v] = job[v] /\ binding'[job[v].created] = binding[job[v].created]
               /\ job[v].created # NewBinding
    BY <1>4, <1>7, <2>1, <2>2, <2>5
  <2>6. CreatedIsPrivate'
    BY <1>0, <1>1, <1>4, <1>7, <2>1, <2>3, <2>5 DEF References, CreatedIsPrivate, IsOpen
  <2> QED
    BY <2>4, <2>6 DEF References
<1>12. Exclusive'
  BY <1>0, <1>1, <1>2, <1>3, <1>4, <1>5, <1>6, <1>7, Ranges DEF Exclusive
<1>13. SlotStaysEmpty'
  BY <1>0, <1>1, <1>2, <1>3, <1>4, <1>5, <1>6, <1>7, JobRanges DEF SlotStaysEmpty
<1>14. RemovedIsClosed'
  <2>1. ASSUME NEW v \in Workers, job'[v].pc = "unpublish"
        PROVE  ~binding'[job'[v].snapshot[job'[v].route]].open
    <3>1. /\ job'[v] = job[v] /\ job[v].snapshot[job[v].route] \in Bindings
          /\ binding[job[v].snapshot[job[v].route]] # None
      BY <1>0, <1>7, <2>1, JobRanges DEF References, ReferencesLive
    <3> QED
      BY <1>0, <1>3, <1>4, <2>1, <3>1 DEF RemovedIsClosed
  <2> QED
    BY <2>1 DEF RemovedIsClosed
<1>15. LostOnlyByOverlap'
  <2>1. ASSUME NEW b \in Bindings, IsOpen(b)', ~Exposed(b)'
        PROVE  binding'[b].sess \in overlapped'
    <3>1. b # NewBinding
      BY <1>7, <2>1 DEF Exposed
    <3>2. IsOpen(b) /\ binding'[b] = binding[b]
      BY <1>4, <2>1, <3>1 DEF IsOpen
    <3>3. ~Exposed(b)
      BY <1>1, <1>2, <1>7, <2>1, <3>2 DEF Exposed
    <3> QED
      BY <1>0, <1>1, <3>2, <3>3 DEF LostOnlyByOverlap
  <2> QED
    BY <1>0, <1>1, <2>1 DEF LostOnlyByOverlap
<1>16. OwnedOK'
  <2>1. \A t \in Sessions : Fresh(t) => Fresh(t)'
    BY <1>0, <1>1, <1>2, <1>4, <1>7 DEF Fresh
  <2> QED
    BY <1>0, <1>1, <1>2, <1>3, <1>4, <1>5, <1>6, <1>7, <2>1, Ranges DEF OwnedOK, Owned
<1>17. ServerOK' /\ HandlerOK' /\ PresenceOwned'
  BY <1>0, <1>1 DEF ServerOK, HandlerOK, PresenceOwned, Registered
<1> QED
  BY <1>8, <1>9, <1>10, <1>11, <1>12, <1>13, <1>14, <1>15, <1>16, <1>17 DEF IInv

\* The new binding of a worker enters the map; the slot was empty unless workers overlapped.
LEMMA PublishesStep ==
    ASSUME IInv, NEW w \in Workers, Publish(w), ~sessClosed[job[w].target]
    PROVE  IInv'
<1> USE NoneAssumption
<1>0. /\ TypeOK /\ JobsOK /\ HandlerJobs /\ References
      /\ Exclusive /\ SlotStaysEmpty /\ RemovedIsClosed /\ LostOnlyByOverlap
      /\ ServerOK /\ HandlerOK /\ OwnedOK /\ PresenceOwned
  BY DEF IInv
<1>1. UNCHANGED <<phase, closed, queue, marking, current, handler, displaced, sessClosed,
                 linkDown, receiver, binding, rows, connected, storeFailed, overlapped>>
  BY DEF Publish, serverVars, connVars, history
<1>2. /\ job[w] \in GoodJob
      /\ job[w].pc = "publish" /\ job[w].target \in Sessions /\ job[w].created \in Bindings
      /\ job[w].route \in Routes /\ ~sessClosed[job[w].target] /\ job[w].snapshot = NoRoutes
  BY <1>0, JobRanges DEF Publish
<1>3. /\ bound' \in [Sessions -> [Routes -> Bindings \cup {None}]]
      /\ \A s \in Sessions, r \in Routes : bound'[s][r] =
           IF s = job[w].target /\ r = job[w].route THEN job[w].created ELSE bound[s][r]
      /\ \A s \in Sessions : s # job[w].target => bound'[s] = bound[s]
  <2>1. bound' = [bound EXCEPT ![job[w].target][job[w].route] = job[w].created]
    BY <1>2 DEF Publish
  <2>2. bound \in [Sessions -> [Routes -> Bindings \cup {None}]]
    BY <1>0 DEF TypeOK
  <2> QED
    BY <1>2, <2>1, <2>2
<1>4. [job[w] EXCEPT !.pc = "expose", !.route = None, !.created = None] \in GoodJob
  BY <1>0, <1>2 DEF GoodJob, Job, ApplyStates
<1>5. job' = [job EXCEPT ![w] = [job[w] EXCEPT !.pc = "expose", !.route = None, !.created = None]]
  BY DEF Publish
<1>6. /\ JobsOK'
      /\ \A v \in Workers : v # w => job'[v] = job[v]
      /\ job'[w].pc = "expose" /\ job'[w].target = job[w].target /\ job'[w].created = None
      /\ job'[w].snapshot = NoRoutes
  <2> DEFINE j == [job[w] EXCEPT !.pc = "expose", !.route = None, !.created = None]
  <2>1. /\ j \in GoodJob
        /\ j.pc = "expose" /\ j.target = job[w].target /\ j.created = None
        /\ j.snapshot = NoRoutes
    BY <1>2, <1>4 DEF GoodJob, Job
  <2>2. job' = [job EXCEPT ![w] = j]
    BY <1>5
  <2> HIDE DEF j
  <2>3. JobsOK' /\ job'[w] = j /\ \A v \in Workers : v # w => job'[v] = job[v]
    BY <1>0, <2>1, <2>2, JobSet
  <2> QED
    BY <2>1, <2>3
<1>7. /\ IsOpen(job[w].created) /\ binding[job[w].created].sess = job[w].target
      /\ binding[job[w].created].route = job[w].route
  BY <1>0, <1>2 DEF References, CreatedIsPrivate
<1>8. TypeOK'
  BY <1>0, <1>1, <1>2, <1>3, <1>4, <1>5, <1>6, <1>7 DEF TypeOK, JobsOK, GoodJob
<1>9. JobsOK'
  BY <1>0, <1>1, <1>2, <1>3, <1>4, <1>5, <1>6, <1>7, Ranges DEF JobsOK
<1>10. HandlerJobs'
  BY <1>0, <1>1, <1>2, <1>3, <1>4, <1>5, <1>6, <1>7, WorkerOf DEF HandlerJobs
<1>11. References'
  <2>1. ReferencesLive /\ CreatedIsPrivate
    BY <1>0 DEF References
  <2>2. \A v \in Workers : job'[v].snapshot = job[v].snapshot
    BY <1>2, <1>6
  <2>3. ReferencesLive'
    BY <1>1, <1>3, <1>7, <2>1, <2>2 DEF ReferencesLive, IsOpen
  <2>4. CreatedIsPrivate'
    BY <1>1, <1>2, <1>3, <1>6, <2>1, <2>2 DEF CreatedIsPrivate, IsOpen
  <2> QED
    BY <2>3, <2>4 DEF References
<1>12. Exclusive'
  BY <1>0, <1>1, <1>2, <1>3, <1>4, <1>5, <1>6, <1>7, Ranges DEF Exclusive
<1>13. SlotStaysEmpty'
  BY <1>0, <1>1, <1>2, <1>3, <1>4, <1>5, <1>6, <1>7, JobRanges DEF SlotStaysEmpty, Exclusive
<1>14. RemovedIsClosed'
  BY <1>0, <1>1, <1>2, <1>3, <1>4, <1>5, <1>6, <1>7, Ranges DEF RemovedIsClosed
<1>15. LostOnlyByOverlap'
  <2>1. ASSUME NEW b \in Bindings, IsOpen(b)', ~Exposed(b)'
        PROVE  binding'[b].sess \in overlapped'
    <3>1. /\ IsOpen(b) /\ binding'[b] = binding[b]
          /\ binding[b].sess \in Sessions /\ binding[b].route \in Routes
      BY <1>0, <1>1, <2>1 DEF IsOpen, TypeOK, Binding
    <3>2. b # job[w].created
      BY <1>1, <1>2, <1>3, <1>7, <2>1, <3>1 DEF Exposed
    <3>3. CASE Exposed(b)
      <4>1. bound[binding[b].sess][binding[b].route] = b
        BY <1>1, <1>2, <1>6, <2>1, <3>1, <3>2, <3>3 DEF Exposed
      <4>2. binding[b].sess = job[w].target /\ binding[b].route = job[w].route
        BY <1>1, <1>3, <1>6, <2>1, <3>1, <3>2, <3>3, <4>1 DEF Exposed
      <4>3. bound[job[w].target][job[w].route] # None
        BY <4>1, <4>2
      <4> QED
        BY <1>0, <1>1, <1>2, <3>1, <4>2, <4>3 DEF SlotStaysEmpty
    <3> QED
      BY <1>0, <1>1, <3>1, <3>3 DEF LostOnlyByOverlap
  <2>2. \A s \in Sessions : sessClosed[s] => bound'[s] = bound[s]
    BY <1>2, <1>3
  <2> QED
    BY <1>0, <1>1, <2>1, <2>2 DEF LostOnlyByOverlap
<1>16. OwnedOK'
  <2>1. \A t \in Sessions : Fresh(t) => Fresh(t)'
    BY <1>0, <1>1, <1>2, <1>6 DEF Fresh
  <2> QED
    BY <1>0, <1>1, <1>2, <1>3, <1>4, <1>5, <1>6, <1>7, <2>1, Ranges DEF OwnedOK, Owned
<1>17. ServerOK' /\ HandlerOK' /\ PresenceOwned'
  BY <1>0, <1>1 DEF ServerOK, HandlerOK, PresenceOwned, Registered
<1> QED
  BY <1>8, <1>9, <1>10, <1>11, <1>12, <1>13, <1>14, <1>15, <1>16, <1>17 DEF IInv

\* A server starts with no current session and no store error.
LEMMA StartStep ==
    ASSUME IInv, Start
    PROVE  IInv'
<1> USE NoneAssumption
<1>0. /\ TypeOK /\ JobsOK /\ HandlerJobs /\ References
      /\ Exclusive /\ SlotStaysEmpty /\ RemovedIsClosed /\ LostOnlyByOverlap
      /\ ServerOK /\ HandlerOK /\ OwnedOK /\ PresenceOwned
  BY DEF IInv
<1>1. UNCHANGED <<queue, marking, handler, displaced, sessClosed, linkDown, receiver, bound,
                 binding, job, rows, overlapped>>
  BY DEF Start, serverVars, connVars, routeVars, history
<1>2. /\ phase' = "running" /\ closed' = FALSE /\ current' = None
      /\ connected' = FALSE /\ storeFailed' = FALSE
  BY DEF Start
<1>3. current = None /\ queue = {} /\ ~marking
  BY <1>0 DEF Start, ServerOK
<1>4. TypeOK'
  BY <1>0, <1>1, <1>2, <1>3 DEF TypeOK
<1>5. ServerOK'
  BY <1>0, <1>1, <1>2, <1>3, Ranges DEF ServerOK
<1>6. HandlerOK'
  BY <1>0, <1>1, <1>2, <1>3, Ranges DEF HandlerOK
<1>7. OwnedOK'
  <2>1. \A t \in Sessions : Fresh(t) => Fresh(t)'
    BY <1>0, <1>1, <1>2, <1>3, Ranges DEF Fresh
  <2> QED
    BY <1>0, <1>1, <1>2, <1>3, <2>1, Ranges DEF OwnedOK, Owned
<1>8. PresenceOwned'
  BY <1>0, <1>1, <1>2, <1>3, Ranges DEF PresenceOwned, Registered
<1>9. /\ JobsOK' /\ HandlerJobs' /\ References' /\ Exclusive' /\ SlotStaysEmpty'
      /\ RemovedIsClosed' /\ LostOnlyByOverlap'
  BY <1>0, <1>1 DEF JobsOK, HandlerJobs, References, ReferencesLive, CreatedIsPrivate, IsOpen,
     Exclusive, SlotStaysEmpty, RemovedIsClosed, LostOnlyByOverlap, Exposed
<1> QED
  BY <1>4, <1>5, <1>6, <1>7, <1>8, <1>9 DEF IInv

\* The server begins to close.
LEMMA CloseListenerStep ==
    ASSUME IInv, CloseListener
    PROVE  IInv'
<1> USE NoneAssumption
<1>0. /\ TypeOK /\ JobsOK /\ HandlerJobs /\ References
      /\ Exclusive /\ SlotStaysEmpty /\ RemovedIsClosed /\ LostOnlyByOverlap
      /\ ServerOK /\ HandlerOK /\ OwnedOK /\ PresenceOwned
  BY DEF IInv
<1>1. UNCHANGED <<closed, queue, marking, current, handler, displaced, sessClosed, linkDown,
                 receiver, bound, binding, job, rows, connected, storeFailed, overlapped>>
  BY DEF CloseListener, serverVars, connVars, routeVars, history
<1>2. phase = "running" /\ phase' = "closing"
  BY DEF CloseListener
<1>3. TypeOK'
  BY <1>0, <1>1, <1>2 DEF TypeOK
<1>4. ServerOK'
  BY <1>0, <1>1, <1>2, Ranges DEF ServerOK
<1>5. /\ JobsOK' /\ HandlerJobs' /\ References' /\ Exclusive' /\ SlotStaysEmpty'
      /\ RemovedIsClosed' /\ LostOnlyByOverlap' /\ HandlerOK' /\ OwnedOK' /\ PresenceOwned'
  BY <1>0, <1>1 DEF JobsOK, HandlerJobs, References, ReferencesLive, CreatedIsPrivate, IsOpen,
     Exclusive, SlotStaysEmpty, RemovedIsClosed, LostOnlyByOverlap, Exposed, HandlerOK, OwnedOK,
     Owned, Fresh, PresenceOwned, Registered
<1> QED
  BY <1>3, <1>4, <1>5 DEF IInv

\* close() takes the session that has the name.
LEMMA CloseRegistryStep ==
    ASSUME IInv, CloseRegistry
    PROVE  IInv'
<1> USE NoneAssumption
<1>0. /\ TypeOK /\ JobsOK /\ HandlerJobs /\ References
      /\ Exclusive /\ SlotStaysEmpty /\ RemovedIsClosed /\ LostOnlyByOverlap
      /\ ServerOK /\ HandlerOK /\ OwnedOK /\ PresenceOwned
  BY DEF IInv
<1>1. UNCHANGED <<phase, marking, handler, displaced, sessClosed, linkDown, receiver, bound,
                 binding, job, rows, connected, storeFailed, overlapped>>
  BY DEF CloseRegistry, serverVars, connVars, routeVars, history
<1>2. /\ phase = "closing" /\ closed' = TRUE /\ queue' = {current} \ {None} /\ current' = None
  BY DEF CloseRegistry
<1>3. queue = {} /\ ~marking
  BY <1>0 DEF CloseRegistry, ServerOK
<1>4. TypeOK'
  BY <1>0, <1>1, <1>2, <1>3 DEF TypeOK
<1>5. ServerOK'
  BY <1>0, <1>1, <1>2, <1>3, Ranges DEF ServerOK
<1>6. HandlerOK'
  BY <1>0, <1>1, <1>2, <1>3, Ranges DEF HandlerOK
<1>7. OwnedOK'
  <2>1. \A t \in Sessions : Fresh(t) => Fresh(t)'
    BY <1>0, <1>1, <1>2, <1>3, Ranges DEF Fresh
  <2> QED
    BY <1>0, <1>1, <1>2, <1>3, <2>1, Ranges DEF OwnedOK, Owned
<1>8. PresenceOwned'
  BY <1>0, <1>1, <1>2, <1>3, Ranges DEF PresenceOwned, Registered
<1>9. /\ JobsOK' /\ HandlerJobs' /\ References' /\ Exclusive' /\ SlotStaysEmpty'
      /\ RemovedIsClosed' /\ LostOnlyByOverlap'
  BY <1>0, <1>1 DEF JobsOK, HandlerJobs, References, ReferencesLive, CreatedIsPrivate, IsOpen,
     Exclusive, SlotStaysEmpty, RemovedIsClosed, LostOnlyByOverlap, Exposed
<1> QED
  BY <1>4, <1>5, <1>6, <1>7, <1>8, <1>9 DEF IInv

\* A captured session is closed and its client is still to be marked.
LEMMA CapturedStep ==
    ASSUME IInv, NEW s, Captured(s)
    PROVE  IInv'
<1> USE NoneAssumption
<1>0. /\ TypeOK /\ JobsOK /\ HandlerJobs /\ References
      /\ Exclusive /\ SlotStaysEmpty /\ RemovedIsClosed /\ LostOnlyByOverlap
      /\ ServerOK /\ HandlerOK /\ OwnedOK /\ PresenceOwned
  BY DEF IInv
<1>1. UNCHANGED <<phase, closed, current, handler, displaced, receiver, job, rows, connected,
                 storeFailed, overlapped>>
  BY DEF Captured, history
<1>2. /\ s \in Sessions /\ s \in queue /\ queue' = queue \ {s} /\ marking' = TRUE
  BY <1>0 DEF Captured, TypeOK
<1>3. /\ sessClosed' \in [Sessions -> BOOLEAN] /\ linkDown' \in [Sessions -> BOOLEAN]
      /\ bound' \in [Sessions -> [Routes -> Bindings \cup {None}]]
      /\ \A t \in Sessions : sessClosed'[t] = (sessClosed[t] \/ t = s)
      /\ \A t \in Sessions : /\ linkDown[t] => linkDown'[t]
                             /\ t # s => linkDown'[t] = linkDown[t]
      /\ References' /\ RemovedIsClosed' /\ LostOnlyByOverlap' /\ SlotStaysEmpty'
      /\ binding' \in [Bindings -> Binding \cup {None}]
      /\ \A b \in Bindings : binding'[b] # None =>
           binding[b] # None /\ binding'[b].sess = binding[b].sess
  BY <1>0, <1>1, <1>2, CloseSessionEffect DEF Captured
<1>4. TypeOK'
  BY <1>0, <1>1, <1>2, <1>3 DEF TypeOK
<1>5. References'
  BY <1>3
<1>6. SlotStaysEmpty'
  BY <1>3
<1>7. RemovedIsClosed'
  BY <1>3
<1>8. LostOnlyByOverlap'
  BY <1>3
<1>9. ServerOK'
  BY <1>0, <1>1, <1>2, <1>3, Ranges DEF ServerOK
<1>10. HandlerOK'
  BY <1>0, <1>1, <1>2, <1>3, Ranges DEF HandlerOK
<1>11. OwnedOK'
  <2>1. \A t \in Sessions : Fresh(t) => Fresh(t)'
    BY <1>0, <1>1, <1>2, <1>3, Ranges DEF Fresh
  <2> QED
    BY <1>0, <1>1, <1>2, <1>3, <2>1, Ranges DEF OwnedOK, Owned
<1>12. PresenceOwned'
  BY <1>0, <1>1, <1>2, <1>3, Ranges DEF PresenceOwned, Registered
<1>13. JobsOK' /\ HandlerJobs' /\ Exclusive'
  BY <1>0, <1>1 DEF JobsOK, HandlerJobs, Exclusive
<1> QED
  BY <1>4, <1>5, <1>6, <1>7, <1>8, <1>9, <1>10, <1>11, <1>12, <1>13 DEF IInv

\* The closer marks the client disconnected.
LEMMA CloseMarkStep ==
    ASSUME IInv, CloseMark
    PROVE  IInv'
<1> USE NoneAssumption
<1>0. /\ TypeOK /\ JobsOK /\ HandlerJobs /\ References
      /\ Exclusive /\ SlotStaysEmpty /\ RemovedIsClosed /\ LostOnlyByOverlap
      /\ ServerOK /\ HandlerOK /\ OwnedOK /\ PresenceOwned
  BY DEF IInv
<1>1. UNCHANGED <<phase, closed, queue, current, handler, displaced, sessClosed, linkDown,
                 receiver, bound, binding, job, rows, overlapped>>
  BY DEF CloseMark, serverVars, connVars, routeVars, history
<1>2. /\ marking' = FALSE /\ connected' \in BOOLEAN /\ storeFailed' \in BOOLEAN
      /\ (storeFailed => storeFailed') /\ (~storeFailed' => ~connected')
  BY <1>0 DEF CloseMark, MarkClientDisconnected, WritePresence, TypeOK
<1>3. TypeOK'
  BY <1>0, <1>1, <1>2 DEF TypeOK
<1>4. ServerOK'
  BY <1>0, <1>1, <1>2, Ranges DEF ServerOK
<1>5. PresenceOwned'
  BY <1>0, <1>1, <1>2, Ranges DEF PresenceOwned, Registered
<1>6. /\ JobsOK' /\ HandlerJobs' /\ References' /\ Exclusive' /\ SlotStaysEmpty'
      /\ RemovedIsClosed' /\ LostOnlyByOverlap' /\ HandlerOK' /\ OwnedOK'
  BY <1>0, <1>1 DEF JobsOK, HandlerJobs, References, ReferencesLive, CreatedIsPrivate, IsOpen,
     Exclusive, SlotStaysEmpty, RemovedIsClosed, LostOnlyByOverlap, Exposed, HandlerOK, OwnedOK,
     Owned, Fresh
<1> QED
  BY <1>3, <1>4, <1>5, <1>6 DEF IInv

\* The server has stopped.
LEMMA StoppedStep ==
    ASSUME IInv, Stopped
    PROVE  IInv'
<1> USE NoneAssumption
<1>0. /\ TypeOK /\ JobsOK /\ HandlerJobs /\ References
      /\ Exclusive /\ SlotStaysEmpty /\ RemovedIsClosed /\ LostOnlyByOverlap
      /\ ServerOK /\ HandlerOK /\ OwnedOK /\ PresenceOwned
  BY DEF IInv
<1>1. UNCHANGED <<closed, queue, marking, current, handler, displaced, sessClosed, linkDown,
                 receiver, bound, binding, job, rows, connected, storeFailed, overlapped>>
  BY DEF Stopped, serverVars, connVars, routeVars, history
<1>2. phase' = "closed" /\ closed /\ queue = {} /\ ~marking
  BY DEF Stopped
<1>3. TypeOK'
  BY <1>0, <1>1, <1>2 DEF TypeOK
<1>4. ServerOK'
  BY <1>0, <1>1, <1>2, Ranges DEF ServerOK
<1>5. /\ JobsOK' /\ HandlerJobs' /\ References' /\ Exclusive' /\ SlotStaysEmpty'
      /\ RemovedIsClosed' /\ LostOnlyByOverlap' /\ HandlerOK' /\ OwnedOK' /\ PresenceOwned'
  BY <1>0, <1>1 DEF JobsOK, HandlerJobs, References, ReferencesLive, CreatedIsPrivate, IsOpen,
     Exclusive, SlotStaysEmpty, RemovedIsClosed, LostOnlyByOverlap, Exposed, HandlerOK, OwnedOK,
     Owned, Fresh, PresenceOwned, Registered
<1> QED
  BY <1>3, <1>4, <1>5 DEF IInv

\* The administrator changes the rows.
LEMMA AdminStep ==
    ASSUME IInv, Admin
    PROVE  IInv'
<1> USE NoneAssumption
<1>0. /\ TypeOK /\ JobsOK /\ HandlerJobs /\ References
      /\ Exclusive /\ SlotStaysEmpty /\ RemovedIsClosed /\ LostOnlyByOverlap
      /\ ServerOK /\ HandlerOK /\ OwnedOK /\ PresenceOwned
  BY DEF IInv
<1>1. UNCHANGED <<phase, closed, queue, marking, current, handler, displaced, sessClosed,
                 linkDown, receiver, bound, binding, job, connected, storeFailed,
                 overlapped>>
  BY DEF Admin, serverVars, connVars, routeVars, history
<1>2. rows' \in [Routes -> Requests \cup {None}]
  BY <1>0 DEF Admin, TypeOK
<1>3. TypeOK'
  BY <1>0, <1>1, <1>2 DEF TypeOK
<1>4. /\ JobsOK' /\ HandlerJobs' /\ References' /\ Exclusive' /\ SlotStaysEmpty'
      /\ RemovedIsClosed' /\ LostOnlyByOverlap' /\ ServerOK' /\ HandlerOK' /\ OwnedOK'
      /\ PresenceOwned'
  BY <1>0, <1>1 DEF JobsOK, HandlerJobs, References, ReferencesLive, CreatedIsPrivate, IsOpen,
     Exclusive, SlotStaysEmpty, RemovedIsClosed, LostOnlyByOverlap, Exposed, ServerOK, HandlerOK,
     OwnedOK, Owned, Fresh, PresenceOwned, Registered
<1> QED
  BY <1>3, <1>4 DEF IInv
-----------------------------------------------------------------------------
(* The actions of which the lemmas above are the cases *)

\* A worker that begins copies the map, or stops when the session is closed.
LEMMA BeginStep ==
    ASSUME IInv, NEW w \in Workers, Begin(w)
    PROVE  IInv'
<1>0. TypeOK /\ JobsOK
  BY DEF IInv
<1>1. CASE sessClosed[job[w].target]
  <2>1. job[w].created = None /\ job[w].target \in Sessions
    BY <1>0, JobRanges DEF Begin
  <2>2. ObjectsKept({job[w].created} \ {None})
    <3>1. {job[w].created} \ {None} = {}
      BY <2>1
    <3> QED
      BY <1>0, <3>1, UnchangedKeeps DEF Begin, serverVars, connVars
  <2>3. /\ job' = [job EXCEPT ![w] = NoJob]
        /\ overlapped \subseteq overlapped' /\ overlapped' \in SUBSET Sessions
        /\ UNCHANGED <<serverVars, connVars, bound, rows, connected, storeFailed>>
    BY <1>0, <1>1, <2>1 DEF Begin, TypeOK
  <2> QED
    BY <2>2, <2>3, Abandon
<1> QED
  BY <1>1, BeginCopiesStep

\* The first loop goes on, or stops when the session is closed.
LEMMA RetireStep ==
    ASSUME IInv, NEW w \in Workers, Retire(w)
    PROVE  IInv'
<1>0. TypeOK /\ JobsOK
  BY DEF IInv
<1>1. CASE sessClosed[job[w].target]
  <2>1. job[w].created = None
    BY <1>0, JobRanges DEF Retire
  <2>2. /\ job' = [job EXCEPT ![w] = NoJob] /\ binding' = Live(binding, bound, job')
        /\ UNCHANGED <<serverVars, connVars, bound, rows, connected, history>>
    BY <1>1 DEF Retire
  <2>3. ObjectsKept({job[w].created} \ {None})
    <3>1. {job[w].created} \ {None} = {}
      BY <2>1
    <3>2. binding' = Live(binding, bound', job')
      BY <2>2
    <3> QED
      BY <1>0, <3>1, <3>2, LiveKeeps
  <2>4. /\ overlapped \subseteq overlapped' /\ overlapped' \in SUBSET Sessions
        /\ UNCHANGED <<serverVars, connVars, bound, rows, connected, storeFailed>>
    BY <1>0, <2>2 DEF TypeOK, history
  <2> QED
    BY <2>2, <2>3, <2>4, Abandon
<1>2. CASE ~sessClosed[job[w].target]
  <2>1. \E r \in Routes : Closes(w, r)
    BY <1>2 DEF Retire, Closes, StaleRoutes
  <2> QED
    BY <2>1, RetireClosesStep
<1> QED
  BY <1>1, <1>2

\* The second loop skips a route, opens a binding, or stops.
LEMMA ExposeStep ==
    ASSUME IInv, NEW w \in Workers, Expose(w)
    PROVE  IInv'
<1>0. TypeOK /\ JobsOK
  BY DEF IInv
<1>1. /\ job[w].pc = "expose" /\ job[w].created = None /\ job[w].todo \subseteq Routes
  BY <1>0, JobRanges DEF Expose
<1>2. \/ /\ job' = [job EXCEPT ![w] = NoJob] /\ UNCHANGED binding
         /\ UNCHANGED <<serverVars, connVars, bound, rows, connected, history>>
      \/ \E r \in Routes : Skips(w, r)
      \/ \E r \in Routes : Opens(w, r)
  BY <1>1 DEF Expose, Skips, Opens
<1>3. CASE /\ job' = [job EXCEPT ![w] = NoJob] /\ UNCHANGED binding
           /\ UNCHANGED <<serverVars, connVars, bound, rows, connected, history>>
  <2>1. ObjectsKept({job[w].created} \ {None})
    <3>1. {job[w].created} \ {None} = {}
      BY <1>1
    <3> QED
      BY <1>0, <1>3, <3>1, UnchangedKeeps
  <2>2. /\ overlapped \subseteq overlapped' /\ overlapped' \in SUBSET Sessions
        /\ UNCHANGED <<serverVars, connVars, bound, rows, connected, storeFailed>>
    BY <1>0, <1>3 DEF TypeOK, history
  <2> QED
    BY <1>3, <2>1, <2>2, Abandon
<1> QED
  BY <1>2, <1>3, SkipsStep, OpensStep

\* The new binding is published, or closed when the session is.
LEMMA PublishStep ==
    ASSUME IInv, NEW w \in Workers, Publish(w)
    PROVE  IInv'
<1>0. TypeOK /\ JobsOK /\ References
  BY DEF IInv
<1>1. CASE sessClosed[job[w].target]
  <2>1. /\ job[w].created \in Bindings /\ binding[job[w].created] # None
        /\ {job[w].created} \ {None} = {job[w].created}
    BY <1>0, JobRanges, NoneAssumption DEF Publish, References, CreatedIsPrivate, IsOpen
  <2>2. /\ job' = [job EXCEPT ![w] = NoJob] /\ UNCHANGED bound
        /\ binding' = Live(Closed({job[w].created}), bound, job')
        /\ UNCHANGED <<serverVars, connVars, rows, connected, history>>
    BY <1>1 DEF Publish
  <2>3. ObjectsKept({job[w].created} \ {None})
    <3>1. binding' = Live(Closed({job[w].created}), bound', job')
      BY <2>2
    <3>2. {job[w].created} \in SUBSET Bindings /\ \A b \in {job[w].created} : binding[b] # None
      BY <2>1
    <3> QED
      BY <1>0, <2>1, <3>1, <3>2, LiveClosedKeeps
  <2>4. /\ overlapped \subseteq overlapped' /\ overlapped' \in SUBSET Sessions
        /\ UNCHANGED <<serverVars, connVars, bound, rows, connected, storeFailed>>
    BY <1>0, <2>2 DEF TypeOK, history
  <2> QED
    BY <2>2, <2>3, <2>4, Abandon
<1> QED
  BY <1>1, PublishesStep

\* A worker that has applied every row stops.
LEMMA ApplyEndStep ==
    ASSUME IInv, NEW w \in Workers, ApplyEnd(w)
    PROVE  IInv'
<1>0. TypeOK /\ JobsOK
  BY DEF IInv
<1>1. {job[w].created} \ {None} = {}
  BY <1>0, JobRanges DEF ApplyEnd
<1>2. /\ job' = [job EXCEPT ![w] = NoJob] /\ UNCHANGED binding
      /\ UNCHANGED <<serverVars, connVars, bound, rows, connected, history>>
  BY DEF ApplyEnd
<1>3. ObjectsKept({job[w].created} \ {None})
  BY <1>0, <1>1, <1>2, UnchangedKeeps
<1>4. /\ overlapped \subseteq overlapped' /\ overlapped' \in SUBSET Sessions
      /\ UNCHANGED <<serverVars, connVars, bound, rows, connected, storeFailed>>
  BY <1>0, <1>2 DEF TypeOK, history
<1> QED
  BY <1>2, <1>3, <1>4, Abandon

\* The closer closes a session it captured.
LEMMA CloseNextStep ==
    ASSUME IInv, CloseNext
    PROVE  IInv'
<1>1. \E s \in queue : Captured(s)
  BY DEF CloseNext, Captured
<1> QED
  BY <1>1, CapturedStep

-----------------------------------------------------------------------------
(* The invariant *)

\* The invariant holds before the server is started.
LEMMA InitIInv == Init => IInv
<1> SUFFICES ASSUME Init PROVE IInv
  OBVIOUS
<1> USE NoneAssumption DEF Init
<1>1. \A w \in Workers : job[w] = NoJob
  OBVIOUS
<1>2. TypeOK /\ JobsOK
  BY NoRoutesType, NoJobIsGood DEF TypeOK, JobsOK, GoodJob, HandlerStates
<1>3. HandlerJobs /\ SlotStaysEmpty /\ RemovedIsClosed /\ Exclusive
  BY <1>1, NoJobIsGood, WorkerOf DEF HandlerJobs, SlotStaysEmpty, RemovedIsClosed, Exclusive
<1>4. References
  BY <1>1, NoJobIsGood, NoRoutesType DEF References, ReferencesLive, CreatedIsPrivate
<1>5. LostOnlyByOverlap
  BY DEF LostOnlyByOverlap, IsOpen
<1>6. ServerOK /\ HandlerOK /\ PresenceOwned /\ OwnedOK
  BY DEF ServerOK, HandlerOK, PresenceOwned, OwnedOK, Owned
<1> QED
  BY <1>2, <1>3, <1>4, <1>5, <1>6 DEF IInv

\* Every step keeps it.
LEMMA NextIInv == IInv /\ [Next]_vars => IInv'
<1> SUFFICES ASSUME IInv, [Next]_vars PROVE IInv'
  OBVIOUS
<1>1. ASSUME NEW s \in Sessions, Handler(s) PROVE IInv'
  <2>1. ASSUME HandlerStep(s) PROVE IInv'
    BY <2>1, CloseDisplacedStep, FirstHeartbeatStep, AckStep, HandlerListStep, HandlerSyncedStep,
       ReadFailsStep, UnregisterClientStep, CloseOwnStep, MarkOwnStep, ReceiverEndsStep
       DEF HandlerStep
  <2> QED
    BY <1>1, <2>1, AcceptStep, RejectHelloStep, LinkFailsStep, RegisterClientStep,
       ClientHeartbeatStep DEF Handler
<1>2. ASSUME NEW w \in Workers, ApplyRoutes(w) PROVE IInv'
  BY <1>2, BeginStep, RetireStep, UnpublishStep, RetireEndStep, ExposeStep, PublishStep,
     ApplyEndStep DEF ApplyRoutes
<1>3. ASSUME Server PROVE IInv'
  BY <1>3, CloseRegistryStep, CloseNextStep, CloseMarkStep, StoppedStep DEF Server
<1>4. CASE UNCHANGED vars
  <2>1. /\ UNCHANGED <<phase, closed, queue, marking, current, handler, displaced, sessClosed>>
        /\ UNCHANGED <<linkDown, receiver, bound, binding, job, rows, connected, storeFailed>>
        /\ UNCHANGED overlapped
    BY <1>4 DEF vars, serverVars, connVars, routeVars, history
  <2>2. TypeOK' /\ JobsOK' /\ HandlerJobs'
    BY <2>1 DEF IInv, TypeOK, JobsOK, HandlerJobs
  <2>3. References'
    BY <2>1 DEF IInv, References, ReferencesLive, CreatedIsPrivate, IsOpen
  <2>4. Exclusive' /\ SlotStaysEmpty' /\ RemovedIsClosed' /\ LostOnlyByOverlap'
    BY <2>1 DEF IInv, Exclusive, SlotStaysEmpty, RemovedIsClosed, LostOnlyByOverlap, Exposed, IsOpen
  <2>5. ServerOK' /\ HandlerOK' /\ PresenceOwned'
    BY <2>1 DEF IInv, ServerOK, HandlerOK, PresenceOwned, Registered
  <2>6. OwnedOK'
    BY <2>1 DEF IInv, OwnedOK, Owned, Fresh
  <2> QED
    BY <2>2, <2>3, <2>4, <2>5, <2>6 DEF IInv
<1> QED
  BY <1>1, <1>2, <1>3, <1>4, SyncListStep, SyncSessionsStep, StartStep, CloseListenerStep, AdminStep
     DEF Next

\* The invariant holds in every state the server can be in.
THEOREM InductiveInvariant == Spec => []IInv
BY InitIInv, NextIInv, PTL DEF Spec

\* No state of the invariant leaves a session open that nobody will close.
LEMMA NothingOrphaned == IInv => NoOrphan
BY DEF IInv, OwnedOK, Owned, NoOrphan

\* A listener of a session without a connection has somebody who will close it.
LEMMA SomebodyCloses == IInv => CleanupCommitted
<1> SUFFICES ASSUME IInv, NEW b \in Bindings, IsOpen(b), linkDown[binding[b].sess],
                    binding[b].sess \notin overlapped, ~storeFailed
             PROVE  \/ Registered(binding[b].sess) \/ binding[b].sess \in queue
                    \/ \E t \in Sessions : displaced[t] = binding[b].sess
                    \/ \E w \in Workers : job[w].created = b
  BY DEF CleanupCommitted
<1>1. /\ TypeOK /\ LostOnlyByOverlap /\ OwnedOK /\ PresenceOwned
  BY DEF IInv
<1>2. binding[b].sess \in Sessions /\ binding[b].route \in Routes
  BY <1>1 DEF IsOpen, TypeOK, Binding
<1>3. CASE \E w \in Workers : job[w].created = b
  BY <1>3
<1>4. CASE ~sessClosed[binding[b].sess]
  <2>1. ~Fresh(binding[b].sess)
    BY DEF Fresh, IsOpen
  <2>2. \/ current = binding[b].sess \/ handler[binding[b].sess] = "close"
        \/ binding[b].sess \in queue \/ \E t \in Sessions : displaced[t] = binding[b].sess
    BY <1>1, <1>2, <1>4, <2>1 DEF OwnedOK, Owned
  <2>3. current = binding[b].sess => Registered(binding[b].sess)
    BY <1>1, <1>2, NoneAssumption DEF PresenceOwned
  <2> QED
    BY <2>2, <2>3 DEF Registered
<1> QED
  BY <1>1, <1>3, <1>4 DEF LostOnlyByOverlap, Exposed

\* At all times the session that has the name is served by its handler and the client
\* is shown as connected only while somebody has still to mark it disconnected, until a
\* presence write fails; no session is left open for good; a closed server has no client.
THEOREM QuicSessionsAreSafe == Spec => []QuicSafe
<1>1. IInv => QuicSafe
  BY NothingOrphaned DEF IInv, QuicSafe, ServerOK
<1> QED
  BY <1>1, InductiveInvariant, PTL

\* At all times an open listener or socket is in the map of its session, or in the
\* hands of its creator or closer, unless two workers applied routes to the session at
\* a time; and a closed session has nothing in its map.
THEOREM OnlyOverlapLosesBindings == Spec => []LostOnlyByOverlap
<1>1. IInv => LostOnlyByOverlap
  BY DEF IInv
<1> QED
  BY <1>1, InductiveInvariant, PTL

\* At all times a listener whose connection is gone has somebody who will close it,
\* unless a presence write failed or two workers overlapped.
THEOREM CleanupIsCommitted == Spec => []CleanupCommitted
BY SomebodyCloses, InductiveInvariant, PTL
=============================================================================
