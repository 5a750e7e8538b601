------------------------ MODULE LegacyTunnel_proofs ------------------------
(***************************************************************************)
(* The single-route tunnel loses no listener and no public connection, the *)
(* client keeps its port, and the registration of the server implements    *)
(* NameService, for any number of sessions, connections and ports.         *)
(*                                                                         *)
(* Three parts make the properties inductive.  A tunnel that is in the     *)
(* map, was taken out of it or was captured is a registered one, so that   *)
(* nobody closes a tunnel that is still being registered, and a closed one *)
(* has no listener (SessionsOK).  A connection is with its accept loop     *)
(* until its open message is written, and only afterwards can a timer or a *)
(* data connection get at it (ConnsOK).  And the port the client of a      *)
(* connection asked for is the one it has (AskedOK).  The proof that the   *)
(* name follows NameService looks at the three actions that change the     *)
(* map or the set of served sessions, TakeName, Insert and Unregister.     *)
(***************************************************************************)
EXTENDS LegacyTunnel, TLAPS

\* A closed tunnel has no listener; one that is not registered yet is open; and a tunnel
\* that has the name, was taken out of the map or was captured is a registered one.
SessionsOK ==
    \A s \in Sessions :
        /\ life[s] # "open" => port[s] = 0
        /\ handler[s] \in {"hello", "evict", "listen", "insert"} => life[s] = "open"
        /\ tunnel = s => handler[s] \in {"ack", "serve", "leave"}
        /\ s \in queue \/ (\E t \in Sessions : existing[t] = s) =>
              handler[s] \notin {"hello", "evict", "listen", "insert"}

\* The client asks for the port it was assigned.
AskedOK == link # None /\ publicPort # 0 => asked[link] = publicPort

\* A connection is with its accept loop until its open message is written, and only
\* then a timer runs or a data connection asks for it; who took it has it alone.
ConnsOK ==
    \A c \in Conns :
        /\ fate[c] = "none" => accepting[c] = "no" /\ opening[c] = "no" /\ ~timer[c]
        /\ accepting[c] # "no" => ~timer[c] /\ opening[c] = "no"
        /\ accepting[c] \in {"check", "insert"} => fate[c] = "held" /\ ~pending[c]
        /\ accepting[c] = "write" => pending[c] \/ fate[c] = "closed"
        /\ opening[c] = "answer" => fate[c] = "held" /\ ~pending[c]

\* The inductive invariant.
IInv == TypeOK /\ SessionsOK /\ AskedOK /\ ConnsOK /\ ListenersOwned /\ PendingOwned

\* Where a handler, an accept loop and a data connection may be, and the fates of a
\* public connection.
HandlerStates == {"idle", "hello", "evict", "listen", "insert", "ack", "serve", "leave", "close"}
AcceptStates == {"no", "check", "insert", "write"}
OpenStates == {"no", "sent", "lookup", "take", "answer"}
Fates == {"none", "held", "relayed", "closed"}

\* What the types say of single sessions and connections.
LEMMA Ranges ==
    TypeOK =>
      /\ tunnel \in Sessions \cup {None} /\ link \in Sessions \cup {None}
      /\ queue \subseteq Sessions
      /\ \A s \in Sessions : /\ handler[s] \in HandlerStates
                             /\ life[s] \in {"open", "sweep", "closed"}
                             /\ existing[s] \in Sessions \cup {None}
      /\ \A c \in Conns : pending[c] \in BOOLEAN /\ timer[c] \in BOOLEAN
BY DEF TypeOK, HandlerStates

\* A step that changes nothing keeps the invariant.
LEMMA NothingChanges ==
    ASSUME IInv, UNCHANGED <<serverVars, handler, existing, asked, port, life, reply, clientVars,
                             connVars, drops>>
    PROVE  IInv'
<1>1. /\ UNCHANGED <<phase, queue, tunnel, handler, existing, asked, port, life, reply, link>>
      /\ UNCHANGED <<publicPort, accepting, home, pending, timer, opening, found, fate, drops>>
  BY DEF serverVars, clientVars, connVars
<1>2. TypeOK' /\ SessionsOK' /\ AskedOK'
  BY <1>1 DEF IInv, TypeOK, SessionsOK, AskedOK
<1>3. ConnsOK' /\ ListenersOwned' /\ PendingOwned'
  BY <1>1 DEF IInv, ConnsOK, ListenersOwned, PendingOwned
<1> QED
  BY <1>2, <1>3 DEF IInv

\* A message that may be read as the response keeps the type of the responses.
LEMMA RespondType ==
    ASSUME TypeOK, NEW s \in Sessions, NEW r \in {"ok", "no"}, Respond(s, r)
    PROVE  reply' \in [Sessions -> {"none", "ok", "no"}]
<1>1. reply \in [Sessions -> {"none", "ok", "no"}]
  BY DEF TypeOK
<1> QED
  BY <1>1 DEF Respond

-----------------------------------------------------------------------------
(* Every action keeps the invariant *)

\* The client dials and asks for its port; nothing refers to the new session.
LEMMA ConnectStep ==
    ASSUME IInv, Connect
    PROVE  IInv'
<1> USE NoneAssumption
<1>0. TypeOK /\ SessionsOK /\ AskedOK /\ ConnsOK /\ ListenersOwned /\ PendingOwned
  BY DEF IInv
<1>1. UNCHANGED <<phase, queue, tunnel, existing, port, publicPort, accepting, home, pending,
                 timer, opening, found, fate, drops>>
  BY DEF Connect, serverVars, sessVars, clientVars, connVars
<1>2. link = None /\ \E s \in Sessions : Unreferenced(s)
  BY DEF Connect
<1>3. \E s \in Sessions :
         /\ Unreferenced(s) /\ link' = s
         /\ handler' = [handler EXCEPT ![s] = "hello"] /\ asked' = [asked EXCEPT ![s] = publicPort]
         /\ life' = [life EXCEPT ![s] = "open"] /\ reply' = [reply EXCEPT ![s] = "none"]
  <2>1. FreeSession \in Sessions /\ Unreferenced(FreeSession)
    BY <1>2 DEF FreeSession
  <2> QED
    BY <2>1 DEF Connect
<1>4. PICK s \in Sessions :
         /\ Unreferenced(s) /\ link' = s
         /\ handler' = [handler EXCEPT ![s] = "hello"] /\ asked' = [asked EXCEPT ![s] = publicPort]
         /\ life' = [life EXCEPT ![s] = "open"] /\ reply' = [reply EXCEPT ![s] = "none"]
  BY <1>3
<1>5. /\ handler' \in [Sessions -> HandlerStates]
      /\ \A t \in Sessions : handler'[t] = IF t = s THEN "hello" ELSE handler[t]
  BY <1>0, <1>4 DEF TypeOK, HandlerStates
<1>6. /\ asked' \in [Sessions -> 0..MaxPort]
      /\ \A t \in Sessions : asked'[t] = IF t = s THEN publicPort ELSE asked[t]
  BY <1>0, <1>4 DEF TypeOK
<1>7. /\ life' \in [Sessions -> {"open", "sweep", "closed"}]
      /\ \A t \in Sessions : life'[t] = IF t = s THEN "open" ELSE life[t]
  BY <1>0, <1>4 DEF TypeOK
<1>8. /\ reply' \in [Sessions -> {"none", "ok", "no"}]
      /\ \A t \in Sessions : reply'[t] = IF t = s THEN "none" ELSE reply[t]
  BY <1>0, <1>4 DEF TypeOK
<1>9. /\ handler[s] = "idle" /\ s \notin queue /\ port[s] = 0 /\ tunnel # s
      /\ \A t \in Sessions : existing[t] # s
  BY <1>0, <1>4 DEF Unreferenced, SessionsOK, ListenersOwned
<1>10. TypeOK'
  BY <1>0, <1>1, <1>2, <1>3, <1>4, <1>5, <1>6, <1>7, <1>8, <1>9 DEF TypeOK, HandlerStates
<1>11. SessionsOK'
  BY <1>0, <1>1, <1>2, <1>3, <1>4, <1>5, <1>6, <1>7, <1>8, <1>9, Ranges DEF SessionsOK
<1>12. AskedOK'
  BY <1>0, <1>1, <1>2, <1>3, <1>4, <1>5, <1>6, <1>7, <1>8, <1>9, Ranges DEF AskedOK
<1>13. ListenersOwned'
  <2>1. ASSUME NEW t \in Sessions, handler'[t] \in {"ack", "serve"}, life'[t] = "open", tunnel' # t
        PROVE  \E u \in Sessions : handler'[u] = "evict" /\ existing'[u] = t
    BY <1>0, <1>1, <1>2, <1>3, <1>4, <1>5, <1>6, <1>7, <1>8, <1>9, <2>1, Ranges DEF
       ListenersOwned, SessionsOK
  <2>2. ASSUME NEW t \in Sessions, port'[t] # 0
        PROVE  handler'[t] \in {"insert", "ack", "serve", "leave", "close"}
    BY <1>0, <1>1, <1>2, <1>3, <1>4, <1>5, <1>6, <1>7, <1>8, <1>9, <2>2, Ranges DEF
       ListenersOwned, SessionsOK
  <2> QED
    BY <2>1, <2>2 DEF ListenersOwned
<1>14. ConnsOK' /\ PendingOwned'
  BY <1>0, <1>1 DEF ConnsOK, PendingOwned
<1> QED
  BY <1>10, <1>11, <1>12, <1>13, <1>14 DEF IInv

\* The port the client is assigned is the one it asked for.
LEMMA ReadResponseStep ==
    ASSUME IInv, ReadResponse
    PROVE  IInv'
<1> USE NoneAssumption
<1>0. TypeOK /\ SessionsOK /\ AskedOK /\ ConnsOK /\ ListenersOwned /\ PendingOwned
  BY DEF IInv
<1>1. UNCHANGED <<phase, queue, tunnel, handler, existing, asked, port, life, accepting, home,
                 pending, timer, opening, found, fate, drops>>
  BY DEF ReadResponse, serverVars, sessVars, clientVars, connVars
<1>2. /\ link \in Sessions
      /\ \/ publicPort' = asked[link] /\ link' = link
         \/ link' = None /\ publicPort' = publicPort
  BY <1>0 DEF ReadResponse, TypeOK
<1>3. publicPort' \in 0..MaxPort /\ link' \in Sessions \cup {None}
  BY <1>0, <1>2 DEF TypeOK
<1>4. reply' \in [Sessions -> {"none", "ok", "no"}]
  BY <1>0 DEF ReadResponse, TypeOK, Fates, AcceptStates, OpenStates
<1>5. TypeOK'
  BY <1>0, <1>1, <1>2, <1>3, <1>4 DEF TypeOK, HandlerStates
<1>6. AskedOK'
  BY <1>0, <1>1, <1>2, <1>3, <1>4, Ranges DEF AskedOK
<1>7. SessionsOK' /\ ConnsOK' /\ ListenersOwned' /\ PendingOwned'
  BY <1>0, <1>1 DEF SessionsOK, ConnsOK, ListenersOwned, PendingOwned
<1> QED
  BY <1>5, <1>6, <1>7 DEF IInv

\* The client notices that its connection is gone.
LEMMA DisconnectedStep ==
    ASSUME IInv, Disconnected
    PROVE  IInv'
<1> USE NoneAssumption
<1>0. TypeOK /\ SessionsOK /\ AskedOK /\ ConnsOK /\ ListenersOwned /\ PendingOwned
  BY DEF IInv
<1>1. UNCHANGED <<phase, queue, tunnel, handler, existing, asked, port, life, reply, publicPort,
                 accepting, home, pending, timer, opening, found, fate, drops>>
  BY DEF Disconnected, serverVars, sessVars, clientVars, connVars
<1>2. link' = None
  BY DEF Disconnected
<1>3. TypeOK'
  BY <1>0, <1>1, <1>2 DEF TypeOK, HandlerStates
<1>4. AskedOK'
  BY <1>0, <1>1, <1>2, Ranges DEF AskedOK
<1>5. SessionsOK' /\ ConnsOK' /\ ListenersOwned' /\ PendingOwned'
  BY <1>0, <1>1 DEF SessionsOK, ConnsOK, ListenersOwned, PendingOwned
<1> QED
  BY <1>3, <1>4, <1>5 DEF IInv

\* The client gives its connection up.
LEMMA DropStep ==
    ASSUME IInv, Drop
    PROVE  IInv'
<1> USE NoneAssumption
<1>0. TypeOK /\ SessionsOK /\ AskedOK /\ ConnsOK /\ ListenersOwned /\ PendingOwned
  BY DEF IInv
<1>1. UNCHANGED <<phase, queue, tunnel, handler, existing, asked, port, life, publicPort,
                 accepting, home, pending, timer, found, fate>>
  BY DEF Drop, serverVars, sessVars, clientVars, connVars
<1>2. link' = None
  BY DEF Drop
<1>3. drops' \in 0..MaxDrops
  BY <1>0, NumberAssumption DEF Drop, TypeOK
<1>4. reply' \in [Sessions -> {"none", "ok", "no"}]
  BY <1>0 DEF Drop, TypeOK
<1>5. opening' = [c \in Conns |-> IF home[c] = link /\ opening[c] = "sent" /\ reply[link] # "none"
                                    THEN "no" ELSE opening[c]]
  BY DEF Drop
<1>6. /\ opening' \in [Conns -> OpenStates]
      /\ \A c \in Conns : opening'[c] = opening[c] \/ (opening[c] = "sent" /\ opening'[c] = "no")
  BY <1>0, <1>5 DEF TypeOK, OpenStates
<1>7. TypeOK'
  BY <1>0, <1>1, <1>2, <1>3, <1>4, <1>6 DEF TypeOK, HandlerStates, OpenStates
<1>8. AskedOK'
  BY <1>0, <1>1, <1>2, Ranges DEF AskedOK
<1>9. SessionsOK' /\ ListenersOwned'
  BY <1>0, <1>1 DEF SessionsOK, ListenersOwned
<1>10. ConnsOK' /\ PendingOwned'
  BY <1>0, <1>1, <1>6 DEF ConnsOK, PendingOwned
<1> QED
  BY <1>7, <1>8, <1>9, <1>10 DEF IInv

\* A handshake that does not arrive leaves nothing.
LEMMA RejectHelloStep ==
    ASSUME IInv, NEW s \in Sessions, RejectHello(s)
    PROVE  IInv'
<1> USE NoneAssumption
<1>0. TypeOK /\ SessionsOK /\ AskedOK /\ ConnsOK /\ ListenersOwned /\ PendingOwned
  BY DEF IInv
<1>1. UNCHANGED <<phase, queue, tunnel, existing, asked, port, life, reply, link, publicPort,
                 accepting, home, pending, timer, opening, found, fate, drops>>
  BY DEF RejectHello, serverVars, sessVars, clientVars, connVars
<1>2. handler[s] = "hello"
  BY DEF RejectHello
<1>3. /\ handler' \in [Sessions -> HandlerStates]
      /\ \A t \in Sessions : handler'[t] = IF t = s THEN "idle" ELSE handler[t]
  BY <1>0 DEF RejectHello, TypeOK, HandlerStates
<1>4. TypeOK'
  BY <1>0, <1>1, <1>2, <1>3 DEF TypeOK, HandlerStates
<1>5. SessionsOK'
  BY <1>0, <1>1, <1>2, <1>3, Ranges DEF SessionsOK
<1>6. ListenersOwned'
  <2>1. ASSUME NEW t \in Sessions, handler'[t] \in {"ack", "serve"}, life'[t] = "open", tunnel' # t
        PROVE  \E u \in Sessions : handler'[u] = "evict" /\ existing'[u] = t
    BY <1>0, <1>1, <1>2, <1>3, <2>1, Ranges DEF ListenersOwned, SessionsOK
  <2>2. ASSUME NEW t \in Sessions, port'[t] # 0
        PROVE  handler'[t] \in {"insert", "ack", "serve", "leave", "close"}
    BY <1>0, <1>1, <1>2, <1>3, <2>2, Ranges DEF ListenersOwned, SessionsOK
  <2> QED
    BY <2>1, <2>2 DEF ListenersOwned
<1>7. AskedOK' /\ ConnsOK' /\ PendingOwned'
  BY <1>0, <1>1 DEF AskedOK, ConnsOK, PendingOwned
<1> QED
  BY <1>4, <1>5, <1>6, <1>7 DEF IInv

\* Who takes the old tunnel out of the map holds it until it is closed.
LEMMA TakeNameStep ==
    ASSUME IInv, NEW s \in Sessions, TakeName(s)
    PROVE  IInv'
<1> USE NoneAssumption
<1>0. TypeOK /\ SessionsOK /\ AskedOK /\ ConnsOK /\ ListenersOwned /\ PendingOwned
  BY DEF IInv
<1>1. UNCHANGED <<phase, queue, asked, port, life, reply, link, publicPort, accepting, home,
                 pending, timer, opening, found, fate, drops>>
  BY DEF TakeName, serverVars, sessVars, clientVars, connVars
<1>2. handler[s] = "hello"
  BY DEF TakeName
<1>3. tunnel' = None
  BY DEF TakeName
<1>4. /\ existing' \in [Sessions -> Sessions \cup {None}]
      /\ \A t \in Sessions : existing'[t] = IF t = s THEN tunnel ELSE existing[t]
  BY <1>0 DEF TakeName, TypeOK, Fates, AcceptStates, OpenStates
<1>5. /\ handler' \in [Sessions -> HandlerStates]
      /\ handler'[s] = (IF tunnel = None THEN "listen" ELSE "evict")
      /\ \A t \in Sessions : t # s => handler'[t] = handler[t]
  BY <1>0 DEF TakeName, TypeOK, HandlerStates
<1>6. TypeOK'
  BY <1>0, <1>1, <1>2, <1>3, <1>4, <1>5 DEF TypeOK, HandlerStates
<1>7. SessionsOK'
  BY <1>0, <1>1, <1>2, <1>3, <1>4, <1>5, Ranges DEF SessionsOK
<1>8. ListenersOwned'
  <2>1. ASSUME NEW t \in Sessions, handler'[t] \in {"ack", "serve"}, life'[t] = "open", tunnel' # t
        PROVE  \E u \in Sessions : handler'[u] = "evict" /\ existing'[u] = t
    BY <1>0, <1>1, <1>2, <1>3, <1>4, <1>5, <2>1, Ranges DEF ListenersOwned, SessionsOK
  <2>2. ASSUME NEW t \in Sessions, port'[t] # 0
        PROVE  handler'[t] \in {"insert", "ack", "serve", "leave", "close"}
    BY <1>0, <1>1, <1>2, <1>3, <1>4, <1>5, <2>2, Ranges DEF ListenersOwned, SessionsOK
  <2> QED
    BY <2>1, <2>2 DEF ListenersOwned
<1>9. AskedOK' /\ ConnsOK' /\ PendingOwned'
  BY <1>0, <1>1 DEF AskedOK, ConnsOK, PendingOwned
<1> QED
  BY <1>6, <1>7, <1>8, <1>9 DEF IInv

\* A tunnel that begins to close has no listener any more.
LEMMA BeginCloseOf ==
    ASSUME IInv, NEW s \in Sessions, BeginClose(s),
           handler[s] \notin {"hello", "evict", "listen", "insert"},
           UNCHANGED <<serverVars, handler, existing, asked, reply, clientVars, connVars, drops>>
    PROVE  IInv'
<1> USE NoneAssumption
<1>0. TypeOK /\ SessionsOK /\ AskedOK /\ ConnsOK /\ ListenersOwned /\ PendingOwned
  BY DEF IInv
<1>1. UNCHANGED <<phase, queue, tunnel, handler, existing, asked, reply, link, publicPort,
                 accepting, home, pending, timer, opening, found, fate, drops>>
  BY DEF serverVars, clientVars, connVars
<1>2. /\ life' \in [Sessions -> {"open", "sweep", "closed"}]
      /\ \A t \in Sessions : life'[t] = IF t = s THEN "sweep" ELSE life[t]
  BY <1>0 DEF BeginClose, TypeOK
<1>3. /\ port' \in [Sessions -> 0..MaxPort]
      /\ \A t \in Sessions : port'[t] = IF t = s THEN 0 ELSE port[t]
  BY <1>0, NumberAssumption DEF BeginClose, TypeOK
<1>4. handler[s] \notin {"hello", "evict", "listen", "insert"}
  OBVIOUS
<1>5. TypeOK'
  BY <1>0, <1>1, <1>2, <1>3, <1>4 DEF TypeOK, HandlerStates
<1>6. SessionsOK'
  BY <1>0, <1>1, <1>2, <1>3, <1>4, Ranges DEF SessionsOK
<1>7. ListenersOwned'
  <2>1. ASSUME NEW t \in Sessions, handler'[t] \in {"ack", "serve"}, life'[t] = "open", tunnel' # t
        PROVE  \E u \in Sessions : handler'[u] = "evict" /\ existing'[u] = t
    BY <1>0, <1>1, <1>2, <1>3, <1>4, <2>1, Ranges DEF ListenersOwned, SessionsOK
  <2>2. ASSUME NEW t \in Sessions, port'[t] # 0
        PROVE  handler'[t] \in {"insert", "ack", "serve", "leave", "close"}
    BY <1>0, <1>1, <1>2, <1>3, <1>4, <2>2, Ranges DEF ListenersOwned, SessionsOK
  <2> QED
    BY <2>1, <2>2 DEF ListenersOwned
<1>8. AskedOK' /\ ConnsOK' /\ PendingOwned'
  BY <1>0, <1>1 DEF AskedOK, ConnsOK, PendingOwned
<1> QED
  BY <1>5, <1>6, <1>7, <1>8 DEF IInv

\* The one that took the old tunnel goes on when it is closed.
LEMMA EvictDone ==
    ASSUME IInv, NEW s \in Sessions, handler[s] = "evict", life[existing[s]] = "closed",
           handler' = [handler EXCEPT ![s] = "listen"], existing' = [existing EXCEPT ![s] = None],
           UNCHANGED <<serverVars, asked, port, life, reply, clientVars, connVars, drops>>
    PROVE  IInv'
<1> USE NoneAssumption
<1>0. TypeOK /\ SessionsOK /\ AskedOK /\ ConnsOK /\ ListenersOwned /\ PendingOwned
  BY DEF IInv
<1>1. UNCHANGED <<phase, queue, tunnel, asked, port, life, reply, link, publicPort, accepting,
                 home, pending, timer, opening, found, fate, drops>>
  BY DEF serverVars, clientVars, connVars
<1>2. /\ handler[s] = "evict" /\ life[existing[s]] = "closed"
  OBVIOUS
<1>3. /\ handler' \in [Sessions -> HandlerStates]
      /\ \A t \in Sessions : handler'[t] = IF t = s THEN "listen" ELSE handler[t]
  BY <1>0 DEF TypeOK, HandlerStates
<1>4. /\ existing' \in [Sessions -> Sessions \cup {None}]
      /\ \A t \in Sessions : existing'[t] = IF t = s THEN None ELSE existing[t]
  BY <1>0 DEF TypeOK
<1>5. TypeOK'
  BY <1>0, <1>1, <1>2, <1>3, <1>4 DEF TypeOK, HandlerStates
<1>6. SessionsOK'
  BY <1>0, <1>1, <1>2, <1>3, <1>4, Ranges DEF SessionsOK
<1>7. ListenersOwned'
  <2>1. ASSUME NEW t \in Sessions, handler'[t] \in {"ack", "serve"}, life'[t] = "open", tunnel' # t
        PROVE  \E u \in Sessions : handler'[u] = "evict" /\ existing'[u] = t
    BY <1>0, <1>1, <1>2, <1>3, <1>4, <2>1, Ranges DEF ListenersOwned, SessionsOK
  <2>2. ASSUME NEW t \in Sessions, port'[t] # 0
        PROVE  handler'[t] \in {"insert", "ack", "serve", "leave", "close"}
    BY <1>0, <1>1, <1>2, <1>3, <1>4, <2>2, Ranges DEF ListenersOwned, SessionsOK
  <2> QED
    BY <2>1, <2>2 DEF ListenersOwned
<1>8. AskedOK' /\ ConnsOK' /\ PendingOwned'
  BY <1>0, <1>1 DEF AskedOK, ConnsOK, PendingOwned
<1> QED
  BY <1>5, <1>6, <1>7, <1>8 DEF IInv

\* A handler returns when its tunnel is closed.
LEMMA CloseDone ==
    ASSUME IInv, NEW s \in Sessions, handler[s] = "close", life[s] = "closed",
           handler' = [handler EXCEPT ![s] = "idle"],
           UNCHANGED <<serverVars, existing, asked, port, life, reply, clientVars, connVars, drops>>
    PROVE  IInv'
<1> USE NoneAssumption
<1>0. TypeOK /\ SessionsOK /\ AskedOK /\ ConnsOK /\ ListenersOwned /\ PendingOwned
  BY DEF IInv
<1>1. UNCHANGED <<phase, queue, tunnel, existing, asked, port, life, reply, link, publicPort,
                 accepting, home, pending, timer, opening, found, fate, drops>>
  BY DEF serverVars, clientVars, connVars
<1>2. /\ handler[s] = "close" /\ life[s] = "closed"
  OBVIOUS
<1>3. /\ handler' \in [Sessions -> HandlerStates]
      /\ \A t \in Sessions : handler'[t] = IF t = s THEN "idle" ELSE handler[t]
  BY <1>0 DEF TypeOK, HandlerStates
<1>4. TypeOK'
  BY <1>0, <1>1, <1>2, <1>3 DEF TypeOK, HandlerStates
<1>5. SessionsOK'
  BY <1>0, <1>1, <1>2, <1>3, Ranges DEF SessionsOK
<1>6. ListenersOwned'
  <2>1. ASSUME NEW t \in Sessions, handler'[t] \in {"ack", "serve"}, life'[t] = "open", tunnel' # t
        PROVE  \E u \in Sessions : handler'[u] = "evict" /\ existing'[u] = t
    BY <1>0, <1>1, <1>2, <1>3, <2>1, Ranges DEF ListenersOwned, SessionsOK
  <2>2. ASSUME NEW t \in Sessions, port'[t] # 0
        PROVE  handler'[t] \in {"insert", "ack", "serve", "leave", "close"}
    BY <1>0, <1>1, <1>2, <1>3, <2>2, Ranges DEF ListenersOwned, SessionsOK
  <2> QED
    BY <2>1, <2>2 DEF ListenersOwned
<1>7. AskedOK' /\ ConnsOK' /\ PendingOwned'
  BY <1>0, <1>1 DEF AskedOK, ConnsOK, PendingOwned
<1> QED
  BY <1>4, <1>5, <1>6, <1>7 DEF IInv

\* close() goes on when a captured tunnel is closed.
LEMMA CaptureDone ==
    ASSUME IInv, NEW s \in Sessions, queue' = queue \ {s},
           UNCHANGED <<phase, tunnel, sessVars, clientVars, connVars, drops>>
    PROVE  IInv'
<1> USE NoneAssumption
<1>0. TypeOK /\ SessionsOK /\ AskedOK /\ ConnsOK /\ ListenersOwned /\ PendingOwned
  BY DEF IInv
<1>1. UNCHANGED <<phase, tunnel, handler, existing, asked, port, life, reply, link, publicPort,
                 accepting, home, pending, timer, opening, found, fate, drops>>
  BY DEF sessVars, clientVars, connVars
<1>2. queue' = queue \ {s}
  OBVIOUS
<1>3. TypeOK'
  BY <1>0, <1>1, <1>2 DEF TypeOK, HandlerStates
<1>4. SessionsOK'
  BY <1>0, <1>1, <1>2, Ranges DEF SessionsOK
<1>5. AskedOK' /\ ConnsOK' /\ ListenersOwned' /\ PendingOwned'
  BY <1>0, <1>1 DEF AskedOK, ConnsOK, ListenersOwned, PendingOwned
<1> QED
  BY <1>3, <1>4, <1>5 DEF IInv

\* The listener that is opened has a handler; a client that asked for a port gets no other.
LEMMA ListenStep ==
    ASSUME IInv, NEW s \in Sessions, Listen(s)
    PROVE  IInv'
<1> USE NoneAssumption
<1>0. TypeOK /\ SessionsOK /\ AskedOK /\ ConnsOK /\ ListenersOwned /\ PendingOwned
  BY DEF IInv
<1>1. UNCHANGED <<phase, queue, tunnel, existing, life, link, publicPort, accepting, home,
                 pending, timer, opening, found, fate, drops>>
  BY DEF Listen, serverVars, sessVars, clientVars, connVars
<1>2. handler[s] = "listen"
  BY DEF Listen
<1>3. /\ port' \in [Sessions -> 0..MaxPort] /\ asked' \in [Sessions -> 0..MaxPort]
      /\ handler' \in [Sessions -> HandlerStates] /\ reply' \in [Sessions -> {"none", "ok", "no"}]
      /\ \A t \in Sessions : t # s =>
           port'[t] = port[t] /\ asked'[t] = asked[t] /\ handler'[t] = handler[t]
      /\ asked[s] # 0 => asked'[s] = asked[s]
      /\ \/ handler'[s] = "insert"
         \/ handler'[s] = "idle" /\ port'[s] = port[s]
  <2>1. CASE handler' = [handler EXCEPT ![s] = "insert"]
    <3>1. PICK p \in Ports : /\ port' = [port EXCEPT ![s] = p] /\ asked' = [asked EXCEPT ![s] = p]
                             /\ asked[s] # 0 => p = asked[s]
                             /\ UNCHANGED reply
      BY <1>0, <1>2, <2>1 DEF Listen, Refuse, TypeOK, HandlerStates
    <3>2. p \in 0..MaxPort
      BY NumberAssumption DEF Ports
    <3> QED
      BY <1>0, <2>1, <3>1, <3>2 DEF TypeOK, HandlerStates
  <2>2. CASE Refuse(s) /\ UNCHANGED <<port, asked>>
    <3>1. reply' \in [Sessions -> {"none", "ok", "no"}]
      BY <1>0, <2>2, RespondType DEF Refuse
    <3> QED
      BY <1>0, <2>2, <3>1 DEF Refuse, TypeOK, HandlerStates
  <2> QED
    BY <2>1, <2>2 DEF Listen
<1>4. TypeOK'
  BY <1>0, <1>1, <1>2, <1>3 DEF TypeOK, HandlerStates
<1>5. SessionsOK'
  BY <1>0, <1>1, <1>2, <1>3, Ranges DEF SessionsOK
<1>6. AskedOK'
  BY <1>0, <1>1, <1>2, <1>3, Ranges DEF AskedOK
<1>7. ListenersOwned'
  <2>1. ASSUME NEW t \in Sessions, handler'[t] \in {"ack", "serve"}, life'[t] = "open", tunnel' # t
        PROVE  \E u \in Sessions : handler'[u] = "evict" /\ existing'[u] = t
    BY <1>0, <1>1, <1>2, <1>3, <2>1, Ranges DEF ListenersOwned, SessionsOK
  <2>2. ASSUME NEW t \in Sessions, port'[t] # 0
        PROVE  handler'[t] \in {"insert", "ack", "serve", "leave", "close"}
    BY <1>0, <1>1, <1>2, <1>3, <2>2, Ranges DEF ListenersOwned, SessionsOK
  <2> QED
    BY <2>1, <2>2 DEF ListenersOwned
<1>8. ConnsOK' /\ PendingOwned'
  BY <1>0, <1>1 DEF ConnsOK, PendingOwned
<1> QED
  BY <1>4, <1>5, <1>6, <1>7, <1>8 DEF IInv

\* The tunnel enters the map only when the name is free.
LEMMA InsertStep ==
    ASSUME IInv, NEW s \in Sessions, Insert(s)
    PROVE  IInv'
<1> USE NoneAssumption
<1>0. TypeOK /\ SessionsOK /\ AskedOK /\ ConnsOK /\ ListenersOwned /\ PendingOwned
  BY DEF IInv
<1>1. UNCHANGED <<phase, queue, existing, asked, life, link, publicPort, accepting, home,
                 pending, timer, opening, found, fate, drops>>
  BY DEF Insert, serverVars, sessVars, clientVars, connVars
<1>2. handler[s] = "insert"
  BY DEF Insert
<1>3. /\ port' \in [Sessions -> 0..MaxPort] /\ handler' \in [Sessions -> HandlerStates]
      /\ reply' \in [Sessions -> {"none", "ok", "no"}]
      /\ \A t \in Sessions : t # s => port'[t] = port[t] /\ handler'[t] = handler[t]
      /\ \/ handler'[s] = "idle" /\ port'[s] = 0 /\ tunnel' = tunnel
         \/ handler'[s] = "ack" /\ port'[s] = port[s] /\ tunnel = None /\ tunnel' = s
  <2>1. CASE tunnel # None
    <3>1. reply' \in [Sessions -> {"none", "ok", "no"}]
      BY <1>0, <2>1, RespondType DEF Insert, Refuse
    <3> QED
      BY <1>0, <2>1, <3>1, NumberAssumption DEF Insert, Refuse, TypeOK, HandlerStates
  <2>2. CASE tunnel = None
    BY <1>0, <2>2 DEF Insert, TypeOK, HandlerStates
  <2> QED
    BY <2>1, <2>2
<1>4. TypeOK'
  BY <1>0, <1>1, <1>2, <1>3 DEF TypeOK, HandlerStates
<1>5. SessionsOK'
  BY <1>0, <1>1, <1>2, <1>3, Ranges DEF SessionsOK
<1>6. ListenersOwned'
  <2>1. ASSUME NEW t \in Sessions, handler'[t] \in {"ack", "serve"}, life'[t] = "open", tunnel' # t
        PROVE  \E u \in Sessions : handler'[u] = "evict" /\ existing'[u] = t
    BY <1>0, <1>1, <1>2, <1>3, <2>1, Ranges DEF ListenersOwned, SessionsOK
  <2>2. ASSUME NEW t \in Sessions, port'[t] # 0
        PROVE  handler'[t] \in {"insert", "ack", "serve", "leave", "close"}
    BY <1>0, <1>1, <1>2, <1>3, <2>2, Ranges DEF ListenersOwned, SessionsOK
  <2> QED
    BY <2>1, <2>2 DEF ListenersOwned
<1>7. AskedOK' /\ ConnsOK' /\ PendingOwned'
  BY <1>0, <1>1 DEF AskedOK, ConnsOK, PendingOwned
<1> QED
  BY <1>4, <1>5, <1>6, <1>7 DEF IInv

\* A registered handler serves or leaves.
LEMMA AckStep ==
    ASSUME IInv, NEW s \in Sessions, Ack(s)
    PROVE  IInv'
<1> USE NoneAssumption
<1>0. TypeOK /\ SessionsOK /\ AskedOK /\ ConnsOK /\ ListenersOwned /\ PendingOwned
  BY DEF IInv
<1>1. UNCHANGED <<phase, queue, tunnel, existing, asked, port, life, link, publicPort, accepting,
                 home, pending, timer, opening, found, fate, drops>>
  BY DEF Ack, serverVars, sessVars, clientVars, connVars
<1>2. handler[s] = "ack"
  BY DEF Ack
<1>3. /\ handler' \in [Sessions -> HandlerStates] /\ handler'[s] \in {"serve", "leave"}
      /\ \A t \in Sessions : t # s => handler'[t] = handler[t]
  BY <1>0 DEF Ack, TypeOK, HandlerStates
<1>4. reply' \in [Sessions -> {"none", "ok", "no"}]
  BY <1>0, RespondType DEF Ack, TypeOK
<1>5. TypeOK'
  BY <1>0, <1>1, <1>2, <1>3, <1>4 DEF TypeOK, HandlerStates
<1>6. SessionsOK'
  BY <1>0, <1>1, <1>2, <1>3, <1>4, Ranges DEF SessionsOK
<1>7. ListenersOwned'
  <2>1. ASSUME NEW t \in Sessions, handler'[t] \in {"ack", "serve"}, life'[t] = "open", tunnel' # t
        PROVE  \E u \in Sessions : handler'[u] = "evict" /\ existing'[u] = t
    BY <1>0, <1>1, <1>2, <1>3, <1>4, <2>1, Ranges DEF ListenersOwned, SessionsOK
  <2>2. ASSUME NEW t \in Sessions, port'[t] # 0
        PROVE  handler'[t] \in {"insert", "ack", "serve", "leave", "close"}
    BY <1>0, <1>1, <1>2, <1>3, <1>4, <2>2, Ranges DEF ListenersOwned, SessionsOK
  <2> QED
    BY <2>1, <2>2 DEF ListenersOwned
<1>8. AskedOK' /\ ConnsOK' /\ PendingOwned'
  BY <1>0, <1>1 DEF AskedOK, ConnsOK, PendingOwned
<1> QED
  BY <1>5, <1>6, <1>7, <1>8 DEF IInv

\* A handler that lost its connection leaves.
LEMMA ReadFailsStep ==
    ASSUME IInv, NEW s \in Sessions, ReadFails(s)
    PROVE  IInv'
<1> USE NoneAssumption
<1>0. TypeOK /\ SessionsOK /\ AskedOK /\ ConnsOK /\ ListenersOwned /\ PendingOwned
  BY DEF IInv
<1>1. UNCHANGED <<phase, queue, tunnel, existing, asked, port, life, reply, link, publicPort,
                 accepting, home, pending, timer, opening, found, fate, drops>>
  BY DEF ReadFails, serverVars, sessVars, clientVars, connVars
<1>2. handler[s] = "serve"
  BY DEF ReadFails
<1>3. /\ handler' \in [Sessions -> HandlerStates]
      /\ \A t \in Sessions : handler'[t] = IF t = s THEN "leave" ELSE handler[t]
  BY <1>0 DEF ReadFails, TypeOK, HandlerStates
<1>4. TypeOK'
  BY <1>0, <1>1, <1>2, <1>3 DEF TypeOK, HandlerStates
<1>5. SessionsOK'
  BY <1>0, <1>1, <1>2, <1>3, Ranges DEF SessionsOK
<1>6. ListenersOwned'
  <2>1. ASSUME NEW t \in Sessions, handler'[t] \in {"ack", "serve"}, life'[t] = "open", tunnel' # t
        PROVE  \E u \in Sessions : handler'[u] = "evict" /\ existing'[u] = t
    BY <1>0, <1>1, <1>2, <1>3, <2>1, Ranges DEF ListenersOwned, SessionsOK
  <2>2. ASSUME NEW t \in Sessions, port'[t] # 0
        PROVE  handler'[t] \in {"insert", "ack", "serve", "leave", "close"}
    BY <1>0, <1>1, <1>2, <1>3, <2>2, Ranges DEF ListenersOwned, SessionsOK
  <2> QED
    BY <2>1, <2>2 DEF ListenersOwned
<1>7. AskedOK' /\ ConnsOK' /\ PendingOwned'
  BY <1>0, <1>1 DEF AskedOK, ConnsOK, PendingOwned
<1> QED
  BY <1>4, <1>5, <1>6, <1>7 DEF IInv

\* Only the handler of the tunnel that has the name gives it up.
LEMMA UnregisterStep ==
    ASSUME IInv, NEW s \in Sessions, Unregister(s)
    PROVE  IInv'
<1> USE NoneAssumption
<1>0. TypeOK /\ SessionsOK /\ AskedOK /\ ConnsOK /\ ListenersOwned /\ PendingOwned
  BY DEF IInv
<1>1. UNCHANGED <<phase, queue, existing, asked, port, life, reply, link, publicPort, accepting,
                 home, pending, timer, opening, found, fate, drops>>
  BY DEF Unregister, serverVars, sessVars, clientVars, connVars
<1>2. handler[s] = "leave"
  BY DEF Unregister
<1>3. /\ handler' \in [Sessions -> HandlerStates]
      /\ \A t \in Sessions : handler'[t] = IF t = s THEN "close" ELSE handler[t]
  BY <1>0 DEF Unregister, TypeOK, HandlerStates
<1>4. tunnel' = IF tunnel = s THEN None ELSE tunnel
  BY DEF Unregister
<1>5. TypeOK'
  BY <1>0, <1>1, <1>2, <1>3, <1>4 DEF TypeOK, HandlerStates
<1>6. SessionsOK'
  BY <1>0, <1>1, <1>2, <1>3, <1>4, Ranges DEF SessionsOK
<1>7. ListenersOwned'
  <2>1. ASSUME NEW t \in Sessions, handler'[t] \in {"ack", "serve"}, life'[t] = "open", tunnel' # t
        PROVE  \E u \in Sessions : handler'[u] = "evict" /\ existing'[u] = t
    BY <1>0, <1>1, <1>2, <1>3, <1>4, <2>1, Ranges DEF ListenersOwned, SessionsOK
  <2>2. ASSUME NEW t \in Sessions, port'[t] # 0
        PROVE  handler'[t] \in {"insert", "ack", "serve", "leave", "close"}
    BY <1>0, <1>1, <1>2, <1>3, <1>4, <2>2, Ranges DEF ListenersOwned, SessionsOK
  <2> QED
    BY <2>1, <2>2 DEF ListenersOwned
<1>8. AskedOK' /\ ConnsOK' /\ PendingOwned'
  BY <1>0, <1>1 DEF AskedOK, ConnsOK, PendingOwned
<1> QED
  BY <1>5, <1>6, <1>7, <1>8 DEF IInv

\* close() captures a registered tunnel.
LEMMA CaptureTunnelsStep ==
    ASSUME IInv, CaptureTunnels
    PROVE  IInv'
<1> USE NoneAssumption
<1>0. TypeOK /\ SessionsOK /\ AskedOK /\ ConnsOK /\ ListenersOwned /\ PendingOwned
  BY DEF IInv
<1>1. UNCHANGED <<tunnel, handler, existing, asked, port, life, reply, link, publicPort,
                 accepting, home, pending, timer, opening, found, fate, drops>>
  BY DEF CaptureTunnels, serverVars, sessVars, clientVars, connVars
<1>2. phase' = "closing" /\ queue' = {tunnel} \ {None}
  BY DEF CaptureTunnels
<1>3. TypeOK'
  BY <1>0, <1>1, <1>2 DEF TypeOK, HandlerStates
<1>4. SessionsOK'
  BY <1>0, <1>1, <1>2, Ranges DEF SessionsOK
<1>5. AskedOK' /\ ConnsOK' /\ ListenersOwned' /\ PendingOwned'
  BY <1>0, <1>1 DEF AskedOK, ConnsOK, ListenersOwned, PendingOwned
<1> QED
  BY <1>3, <1>4, <1>5 DEF IInv

\* close() returns.
LEMMA CloseReturnsStep ==
    ASSUME IInv, CloseReturns
    PROVE  IInv'
<1> USE NoneAssumption
<1>0. TypeOK /\ SessionsOK /\ AskedOK /\ ConnsOK /\ ListenersOwned /\ PendingOwned
  BY DEF IInv
<1>1. UNCHANGED <<queue, tunnel, handler, existing, asked, port, life, reply, link, publicPort,
                 accepting, home, pending, timer, opening, found, fate, drops>>
  BY DEF CloseReturns, serverVars, sessVars, clientVars, connVars
<1>2. phase' = "closed"
  BY DEF CloseReturns
<1>3. TypeOK'
  BY <1>0, <1>1, <1>2 DEF TypeOK, HandlerStates
<1>4. SessionsOK' /\ AskedOK' /\ ConnsOK' /\ ListenersOwned' /\ PendingOwned'
  BY <1>0, <1>1 DEF SessionsOK, AskedOK, ConnsOK, ListenersOwned, PendingOwned
<1> QED
  BY <1>3, <1>4 DEF IInv

\* close() takes the pending connections out of the map and closes them.
LEMMA SweepStep ==
    ASSUME IInv, NEW s \in Sessions, Sweep(s)
    PROVE  IInv'
<1> USE NoneAssumption
<1>0. TypeOK /\ SessionsOK /\ AskedOK /\ ConnsOK /\ ListenersOwned /\ PendingOwned
  BY DEF IInv
<1>1. UNCHANGED <<phase, queue, tunnel, handler, existing, asked, port, reply, link, publicPort,
                 accepting, home, timer, opening, found, drops>>
  BY DEF Sweep, serverVars, sessVars, clientVars, connVars
<1>2. life[s] = "sweep"
  BY DEF Sweep
<1>3. /\ life' \in [Sessions -> {"open", "sweep", "closed"}]
      /\ \A t \in Sessions : life'[t] = IF t = s THEN "closed" ELSE life[t]
  BY <1>0 DEF Sweep, TypeOK, Fates, AcceptStates, OpenStates
<1>4. /\ pending' \in [Conns -> BOOLEAN] /\ fate' \in [Conns -> Fates]
      /\ \A c \in Conns : \/ pending'[c] = pending[c] /\ fate'[c] = fate[c]
                          \/ pending[c] /\ ~pending'[c] /\ fate'[c] = "closed"
  BY <1>0 DEF Sweep, TypeOK, Fates, AcceptStates, OpenStates
<1>5. TypeOK'
  BY <1>0, <1>1, <1>2, <1>3, <1>4 DEF TypeOK, Fates, AcceptStates, OpenStates
<1>6. SessionsOK'
  BY <1>0, <1>1, <1>2, <1>3, <1>4, Ranges DEF SessionsOK
<1>7. ConnsOK'
  BY <1>0, <1>1, <1>2, <1>3, <1>4, Ranges DEF ConnsOK
<1>8. ListenersOwned'
  <2>1. ASSUME NEW t \in Sessions, handler'[t] \in {"ack", "serve"}, life'[t] = "open", tunnel' # t
        PROVE  \E u \in Sessions : handler'[u] = "evict" /\ existing'[u] = t
    BY <1>0, <1>1, <1>2, <1>3, <1>4, <2>1, Ranges DEF ListenersOwned, SessionsOK
  <2>2. ASSUME NEW t \in Sessions, port'[t] # 0
        PROVE  handler'[t] \in {"insert", "ack", "serve", "leave", "close"}
    BY <1>0, <1>1, <1>2, <1>3, <1>4, <2>2, Ranges DEF ListenersOwned, SessionsOK
  <2> QED
    BY <2>1, <2>2 DEF ListenersOwned
<1>9. PendingOwned'
  BY <1>0, <1>1, <1>2, <1>3, <1>4, Ranges DEF PendingOwned
<1>10. AskedOK'
  BY <1>0, <1>1 DEF AskedOK
<1> QED
  BY <1>5, <1>6, <1>7, <1>8, <1>9, <1>10 DEF IInv

\* A new connection is with its accept loop.
LEMMA AcceptStep ==
    ASSUME IInv, NEW c \in Conns, Accept(c)
    PROVE  IInv'
<1> USE NoneAssumption
<1>0. TypeOK /\ SessionsOK /\ AskedOK /\ ConnsOK /\ ListenersOwned /\ PendingOwned
  BY DEF IInv
<1>1. UNCHANGED <<phase, queue, tunnel, handler, existing, asked, port, life, reply, link,
                 publicPort, pending, timer, opening, found, drops>>
  BY DEF Accept, serverVars, sessVars, clientVars, connVars
<1>2. fate[c] = "none"
  BY DEF Accept
<1>3. home' \in [Conns -> Sessions \cup {None}]
  BY <1>0 DEF Accept, TypeOK, Fates, AcceptStates, OpenStates
<1>4. /\ fate' \in [Conns -> Fates]
      /\ \A t \in Conns : fate'[t] = IF t = c THEN "held" ELSE fate[t]
  BY <1>0 DEF Accept, TypeOK, Fates, AcceptStates, OpenStates
<1>5. /\ accepting' \in [Conns -> AcceptStates]
      /\ \A t \in Conns : accepting'[t] = IF t = c THEN "check" ELSE accepting[t]
  BY <1>0 DEF Accept, TypeOK, Fates, AcceptStates, OpenStates
<1>6. TypeOK'
  BY <1>0, <1>1, <1>2, <1>3, <1>4, <1>5 DEF TypeOK, Fates, AcceptStates, OpenStates
<1>7. ConnsOK'
  <2>1. ASSUME NEW d \in Conns
        PROVE  /\ fate'[d] = "none" => accepting'[d] = "no" /\ opening'[d] = "no" /\ ~timer'[d]
               /\ accepting'[d] # "no" => ~timer'[d] /\ opening'[d] = "no"
               /\ accepting'[d] \in {"check", "insert"} => fate'[d] = "held" /\ ~pending'[d]
               /\ accepting'[d] = "write" => pending'[d] \/ fate'[d] = "closed"
               /\ opening'[d] = "answer" => fate'[d] = "held" /\ ~pending'[d]
    <3>1. CASE d = c
      BY <1>0, <1>1, <1>2, <1>3, <1>4, <1>5, <2>1, <3>1, Ranges DEF ConnsOK, PendingOwned
    <3>2. CASE d # c
      BY <1>0, <1>1, <1>2, <1>3, <1>4, <1>5, <2>1, <3>2 DEF ConnsOK
    <3> QED
      BY <3>1, <3>2
  <2> QED
    BY <2>1 DEF ConnsOK
<1>8. PendingOwned'
  <2>1. ASSUME NEW d \in Conns
        PROVE  /\ pending'[d] => fate'[d] = "held" /\ (timer'[d] \/ accepting'[d] = "write")
               /\ fate'[d] = "held" /\ ~pending'[d] =>
                    accepting'[d] # "no" \/ opening'[d] = "answer"
    <3>1. CASE d = c
      BY <1>0, <1>1, <1>2, <1>3, <1>4, <1>5, <2>1, <3>1, Ranges DEF ConnsOK, PendingOwned
    <3>2. CASE d # c
      BY <1>0, <1>1, <1>2, <1>3, <1>4, <1>5, <2>1, <3>2 DEF PendingOwned
    <3> QED
      BY <3>1, <3>2
  <2> QED
    BY <2>1 DEF PendingOwned
<1>9. SessionsOK' /\ AskedOK' /\ ListenersOwned'
  BY <1>0, <1>1 DEF SessionsOK, AskedOK, ListenersOwned
<1> QED
  BY <1>6, <1>7, <1>8, <1>9 DEF IInv

\* A connection without room is closed.
LEMMA CheckLimitStep ==
    ASSUME IInv, NEW c \in Conns, CheckLimit(c)
    PROVE  IInv'
<1> USE NoneAssumption
<1>0. TypeOK /\ SessionsOK /\ AskedOK /\ ConnsOK /\ ListenersOwned /\ PendingOwned
  BY DEF IInv
<1>1. UNCHANGED <<phase, queue, tunnel, handler, existing, asked, port, life, reply, link,
                 publicPort, home, pending, timer, opening, found, drops>>
  BY DEF CheckLimit, serverVars, sessVars, clientVars, connVars
<1>2. accepting[c] = "check"
  BY DEF CheckLimit
<1>3. /\ accepting' \in [Conns -> AcceptStates] /\ fate' \in [Conns -> Fates]
      /\ \A d \in Conns : d # c => accepting'[d] = accepting[d] /\ fate'[d] = fate[d]
      /\ \/ accepting'[c] = "no" /\ fate'[c] = "closed"
         \/ accepting'[c] = "insert" /\ fate'[c] = fate[c]
  BY <1>0 DEF CheckLimit, TypeOK, Fates, AcceptStates, OpenStates
<1>4. TypeOK'
  BY <1>0, <1>1, <1>2, <1>3 DEF TypeOK, Fates, AcceptStates, OpenStates
<1>5. ConnsOK'
  <2>1. ASSUME NEW d \in Conns
        PROVE  /\ fate'[d] = "none" => accepting'[d] = "no" /\ opening'[d] = "no" /\ ~timer'[d]
               /\ accepting'[d] # "no" => ~timer'[d] /\ opening'[d] = "no"
               /\ accepting'[d] \in {"check", "insert"} => fate'[d] = "held" /\ ~pending'[d]
               /\ accepting'[d] = "write" => pending'[d] \/ fate'[d] = "closed"
               /\ opening'[d] = "answer" => fate'[d] = "held" /\ ~pending'[d]
    <3>1. CASE d = c
      BY <1>0, <1>1, <1>2, <1>3, <2>1, <3>1, Ranges DEF ConnsOK, PendingOwned
    <3>2. CASE d # c
      BY <1>0, <1>1, <1>2, <1>3, <2>1, <3>2 DEF ConnsOK
    <3> QED
      BY <3>1, <3>2
  <2> QED
    BY <2>1 DEF ConnsOK
<1>6. PendingOwned'
  <2>1. ASSUME NEW d \in Conns
        PROVE  /\ pending'[d] => fate'[d] = "held" /\ (timer'[d] \/ accepting'[d] = "write")
               /\ fate'[d] = "held" /\ ~pending'[d] =>
                    accepting'[d] # "no" \/ opening'[d] = "answer"
    <3>1. CASE d = c
      BY <1>0, <1>1, <1>2, <1>3, <2>1, <3>1, Ranges DEF ConnsOK, PendingOwned
    <3>2. CASE d # c
      BY <1>0, <1>1, <1>2, <1>3, <2>1, <3>2 DEF PendingOwned
    <3> QED
      BY <3>1, <3>2
  <2> QED
    BY <2>1 DEF PendingOwned
<1>7. SessionsOK' /\ AskedOK' /\ ListenersOwned'
  BY <1>0, <1>1 DEF SessionsOK, AskedOK, ListenersOwned
<1> QED
  BY <1>4, <1>5, <1>6, <1>7 DEF IInv

\* A connection that is entered has no timer yet; its accept loop will start one or remove it.
LEMMA InsertPendingStep ==
    ASSUME IInv, NEW c \in Conns, InsertPending(c)
    PROVE  IInv'
<1> USE NoneAssumption
<1>0. TypeOK /\ SessionsOK /\ AskedOK /\ ConnsOK /\ ListenersOwned /\ PendingOwned
  BY DEF IInv
<1>1. UNCHANGED <<phase, queue, tunnel, handler, existing, asked, port, life, reply, link,
                 publicPort, home, timer, opening, found, fate, drops>>
  BY DEF InsertPending, serverVars, sessVars, clientVars, connVars
<1>2. accepting[c] = "insert"
  BY DEF InsertPending
<1>3. /\ pending' \in [Conns -> BOOLEAN]
      /\ \A t \in Conns : pending'[t] = IF t = c THEN TRUE ELSE pending[t]
  BY <1>0 DEF InsertPending, TypeOK, Fates, AcceptStates, OpenStates
<1>4. /\ accepting' \in [Conns -> AcceptStates]
      /\ \A t \in Conns : accepting'[t] = IF t = c THEN "write" ELSE accepting[t]
  BY <1>0 DEF InsertPending, TypeOK, Fates, AcceptStates, OpenStates
<1>5. TypeOK'
  BY <1>0, <1>1, <1>2, <1>3, <1>4 DEF TypeOK, Fates, AcceptStates, OpenStates
<1>6. ConnsOK'
  <2>1. ASSUME NEW d \in Conns
        PROVE  /\ fate'[d] = "none" => accepting'[d] = "no" /\ opening'[d] = "no" /\ ~timer'[d]
               /\ accepting'[d] # "no" => ~timer'[d] /\ opening'[d] = "no"
               /\ accepting'[d] \in {"check", "insert"} => fate'[d] = "held" /\ ~pending'[d]
               /\ accepting'[d] = "write" => pending'[d] \/ fate'[d] = "closed"
               /\ opening'[d] = "answer" => fate'[d] = "held" /\ ~pending'[d]
    <3>1. CASE d = c
      BY <1>0, <1>1, <1>2, <1>3, <1>4, <2>1, <3>1, Ranges DEF ConnsOK, PendingOwned
    <3>2. CASE d # c
      BY <1>0, <1>1, <1>2, <1>3, <1>4, <2>1, <3>2 DEF ConnsOK
    <3> QED
      BY <3>1, <3>2
  <2> QED
    BY <2>1 DEF ConnsOK
<1>7. PendingOwned'
  <2>1. ASSUME NEW d \in Conns
        PROVE  /\ pending'[d] => fate'[d] = "held" /\ (timer'[d] \/ accepting'[d] = "write")
               /\ fate'[d] = "held" /\ ~pending'[d] =>
                    accepting'[d] # "no" \/ opening'[d] = "answer"
    <3>1. CASE d = c
      BY <1>0, <1>1, <1>2, <1>3, <1>4, <2>1, <3>1, Ranges DEF ConnsOK, PendingOwned
    <3>2. CASE d # c
      BY <1>0, <1>1, <1>2, <1>3, <1>4, <2>1, <3>2 DEF PendingOwned
    <3> QED
      BY <3>1, <3>2
  <2> QED
    BY <2>1 DEF PendingOwned
<1>8. SessionsOK' /\ AskedOK' /\ ListenersOwned'
  BY <1>0, <1>1 DEF SessionsOK, AskedOK, ListenersOwned
<1> QED
  BY <1>5, <1>6, <1>7, <1>8 DEF IInv

\* The accept loop starts the timer or removes the connection.
LEMMA WriteOpenStep ==
    ASSUME IInv, NEW c \in Conns, WriteOpen(c)
    PROVE  IInv'
<1> USE NoneAssumption
<1>0. TypeOK /\ SessionsOK /\ AskedOK /\ ConnsOK /\ ListenersOwned /\ PendingOwned
  BY DEF IInv
<1>1. UNCHANGED <<phase, queue, tunnel, handler, existing, asked, port, life, link, publicPort,
                 home, found, drops>>
  BY DEF WriteOpen, serverVars, sessVars, clientVars, connVars
<1>2. accepting[c] = "write"
  BY DEF WriteOpen
<1>3. /\ accepting' \in [Conns -> AcceptStates]
      /\ \A t \in Conns : accepting'[t] = IF t = c THEN "no" ELSE accepting[t]
  BY <1>0 DEF WriteOpen, TypeOK, Fates, AcceptStates, OpenStates
<1>4. /\ timer' \in [Conns -> BOOLEAN] /\ pending' \in [Conns -> BOOLEAN]
      /\ opening' \in [Conns -> OpenStates]
      /\ fate' \in [Conns -> Fates]
      /\ \A d \in Conns : d # c => /\ timer'[d] = timer[d] /\ opening'[d] = opening[d]
                                   /\ pending'[d] = pending[d] /\ fate'[d] = fate[d]
      /\ \/ /\ timer'[c] /\ opening'[c] \in {"sent", opening[c]}
            /\ pending'[c] = pending[c] /\ fate'[c] = fate[c]
         \/ /\ ~pending'[c] /\ fate'[c] = "closed"
            /\ timer'[c] = timer[c] /\ opening'[c] = opening[c]
  <2>1. CASE /\ timer' = [timer EXCEPT ![c] = TRUE]
             /\ opening' = [opening EXCEPT ![c] = IF ReadsOpen(home[c]) THEN "sent" ELSE @]
             /\ UNCHANGED <<pending, fate>>
    BY <1>0, <2>1 DEF TypeOK, OpenStates, Fates
  <2>2. CASE /\ pending' = [pending EXCEPT ![c] = FALSE] /\ fate' = [fate EXCEPT ![c] = "closed"]
             /\ UNCHANGED <<timer, opening>>
    BY <1>0, <2>2 DEF TypeOK, OpenStates, Fates
  <2> QED
    BY <2>1, <2>2 DEF WriteOpen
<1>5. TypeOK'
  <2>1. reply' \in [Sessions -> {"none", "ok", "no"}]
    <3>1. CASE handler[home[c]] = "ack" /\ Respond(home[c], "no")
      <4>1. home[c] \in Sessions \/ reply' = reply
        BY <1>0, <3>1 DEF Respond, TypeOK
      <4>2. CASE home[c] \in Sessions
        BY <1>0, <3>1, <4>2, RespondType
      <4> QED
        BY <1>0, <4>1, <4>2 DEF TypeOK
    <3>2. CASE UNCHANGED reply
      BY <1>0, <3>2 DEF TypeOK
    <3> QED
      BY <3>1, <3>2 DEF WriteOpen
  <2> QED
    BY <1>0, <1>1, <1>2, <1>3, <1>4, <2>1 DEF TypeOK, Fates, AcceptStates, OpenStates
<1>6. ConnsOK'
  <2>1. ASSUME NEW d \in Conns
        PROVE  /\ fate'[d] = "none" => accepting'[d] = "no" /\ opening'[d] = "no" /\ ~timer'[d]
               /\ accepting'[d] # "no" => ~timer'[d] /\ opening'[d] = "no"
               /\ accepting'[d] \in {"check", "insert"} => fate'[d] = "held" /\ ~pending'[d]
               /\ accepting'[d] = "write" => pending'[d] \/ fate'[d] = "closed"
               /\ opening'[d] = "answer" => fate'[d] = "held" /\ ~pending'[d]
    <3>1. CASE d = c
      BY <1>0, <1>1, <1>2, <1>3, <1>4, <2>1, <3>1, Ranges DEF ConnsOK, PendingOwned
    <3>2. CASE d # c
      BY <1>0, <1>1, <1>2, <1>3, <1>4, <2>1, <3>2 DEF ConnsOK
    <3> QED
      BY <3>1, <3>2
  <2> QED
    BY <2>1 DEF ConnsOK
<1>7. PendingOwned'
  <2>1. ASSUME NEW d \in Conns
        PROVE  /\ pending'[d] => fate'[d] = "held" /\ (timer'[d] \/ accepting'[d] = "write")
               /\ fate'[d] = "held" /\ ~pending'[d] =>
                    accepting'[d] # "no" \/ opening'[d] = "answer"
    <3>1. CASE d = c
      BY <1>0, <1>1, <1>2, <1>3, <1>4, <2>1, <3>1, Ranges DEF ConnsOK, PendingOwned
    <3>2. CASE d # c
      BY <1>0, <1>1, <1>2, <1>3, <1>4, <2>1, <3>2 DEF PendingOwned
    <3> QED
      BY <3>1, <3>2
  <2> QED
    BY <2>1 DEF PendingOwned
<1>8. SessionsOK' /\ AskedOK' /\ ListenersOwned'
  BY <1>0, <1>1 DEF SessionsOK, AskedOK, ListenersOwned
<1> QED
  BY <1>5, <1>6, <1>7, <1>8 DEF IInv

\* The timer closes the connection if it is still pending.
LEMMA ExpireStep ==
    ASSUME IInv, NEW c \in Conns, Expire(c)
    PROVE  IInv'
<1> USE NoneAssumption
<1>0. TypeOK /\ SessionsOK /\ AskedOK /\ ConnsOK /\ ListenersOwned /\ PendingOwned
  BY DEF IInv
<1>1. UNCHANGED <<phase, queue, tunnel, handler, existing, asked, port, life, reply, link,
                 publicPort, accepting, home, opening, found, drops>>
  BY DEF Expire, serverVars, sessVars, clientVars, connVars
<1>2. timer[c]
  BY DEF Expire
<1>3. /\ timer' \in [Conns -> BOOLEAN]
      /\ \A t \in Conns : timer'[t] = IF t = c THEN FALSE ELSE timer[t]
  BY <1>0 DEF Expire, TypeOK, Fates, AcceptStates, OpenStates
<1>4. /\ pending' \in [Conns -> BOOLEAN]
      /\ \A t \in Conns : pending'[t] = IF t = c THEN FALSE ELSE pending[t]
  BY <1>0 DEF Expire, TypeOK, Fates, AcceptStates, OpenStates
<1>5. /\ fate' \in [Conns -> Fates]
      /\ \A d \in Conns : d # c => fate'[d] = fate[d]
      /\ \/ pending[c] /\ fate'[c] = "closed"
         \/ ~pending[c] /\ fate'[c] = fate[c]
  BY <1>0 DEF Expire, TypeOK, Fates, AcceptStates, OpenStates
<1>6. TypeOK'
  BY <1>0, <1>1, <1>2, <1>3, <1>4, <1>5 DEF TypeOK, Fates, AcceptStates, OpenStates
<1>7. ConnsOK'
  <2>1. ASSUME NEW d \in Conns
        PROVE  /\ fate'[d] = "none" => accepting'[d] = "no" /\ opening'[d] = "no" /\ ~timer'[d]
               /\ accepting'[d] # "no" => ~timer'[d] /\ opening'[d] = "no"
               /\ accepting'[d] \in {"check", "insert"} => fate'[d] = "held" /\ ~pending'[d]
               /\ accepting'[d] = "write" => pending'[d] \/ fate'[d] = "closed"
               /\ opening'[d] = "answer" => fate'[d] = "held" /\ ~pending'[d]
    <3>1. CASE d = c
      BY <1>0, <1>1, <1>2, <1>3, <1>4, <1>5, <2>1, <3>1, Ranges DEF ConnsOK, PendingOwned
    <3>2. CASE d # c
      BY <1>0, <1>1, <1>2, <1>3, <1>4, <1>5, <2>1, <3>2 DEF ConnsOK
    <3> QED
      BY <3>1, <3>2
  <2> QED
    BY <2>1 DEF ConnsOK
<1>8. PendingOwned'
  <2>1. ASSUME NEW d \in Conns
        PROVE  /\ pending'[d] => fate'[d] = "held" /\ (timer'[d] \/ accepting'[d] = "write")
               /\ fate'[d] = "held" /\ ~pending'[d] =>
                    accepting'[d] # "no" \/ opening'[d] = "answer"
    <3>1. CASE d = c
      BY <1>0, <1>1, <1>2, <1>3, <1>4, <1>5, <2>1, <3>1, Ranges DEF ConnsOK, PendingOwned
    <3>2. CASE d # c
      BY <1>0, <1>1, <1>2, <1>3, <1>4, <1>5, <2>1, <3>2 DEF PendingOwned
    <3> QED
      BY <3>1, <3>2
  <2> QED
    BY <2>1 DEF PendingOwned
<1>9. SessionsOK' /\ AskedOK' /\ ListenersOwned'
  BY <1>0, <1>1 DEF SessionsOK, AskedOK, ListenersOwned
<1> QED
  BY <1>6, <1>7, <1>8, <1>9 DEF IInv

\* The client answers the open message, or fails to.
LEMMA HandleOpenStep ==
    ASSUME IInv, NEW c \in Conns, HandleOpen(c)
    PROVE  IInv'
<1> USE NoneAssumption
<1>0. TypeOK /\ SessionsOK /\ AskedOK /\ ConnsOK /\ ListenersOwned /\ PendingOwned
  BY DEF IInv
<1>1. UNCHANGED <<phase, queue, tunnel, handler, existing, asked, port, life, reply, link,
                 publicPort, accepting, home, pending, timer, found, fate, drops>>
  BY DEF HandleOpen, serverVars, sessVars, clientVars, connVars
<1>2. opening[c] = "sent"
  BY DEF HandleOpen
<1>3. /\ opening' \in [Conns -> OpenStates] /\ opening'[c] \in {"lookup", "no"}
      /\ \A d \in Conns : d # c => opening'[d] = opening[d]
  BY <1>0 DEF HandleOpen, TypeOK, Fates, AcceptStates, OpenStates
<1>4. TypeOK'
  BY <1>0, <1>1, <1>2, <1>3 DEF TypeOK, Fates, AcceptStates, OpenStates
<1>5. ConnsOK'
  <2>1. ASSUME NEW d \in Conns
        PROVE  /\ fate'[d] = "none" => accepting'[d] = "no" /\ opening'[d] = "no" /\ ~timer'[d]
               /\ accepting'[d] # "no" => ~timer'[d] /\ opening'[d] = "no"
               /\ accepting'[d] \in {"check", "insert"} => fate'[d] = "held" /\ ~pending'[d]
               /\ accepting'[d] = "write" => pending'[d] \/ fate'[d] = "closed"
               /\ opening'[d] = "answer" => fate'[d] = "held" /\ ~pending'[d]
    <3>1. CASE d = c
      BY <1>0, <1>1, <1>2, <1>3, <2>1, <3>1, Ranges DEF ConnsOK, PendingOwned
    <3>2. CASE d # c
      BY <1>0, <1>1, <1>2, <1>3, <2>1, <3>2 DEF ConnsOK
    <3> QED
      BY <3>1, <3>2
  <2> QED
    BY <2>1 DEF ConnsOK
<1>6. PendingOwned'
  <2>1. ASSUME NEW d \in Conns
        PROVE  /\ pending'[d] => fate'[d] = "held" /\ (timer'[d] \/ accepting'[d] = "write")
               /\ fate'[d] = "held" /\ ~pending'[d] =>
                    accepting'[d] # "no" \/ opening'[d] = "answer"
    <3>1. CASE d = c
      BY <1>0, <1>1, <1>2, <1>3, <2>1, <3>1, Ranges DEF ConnsOK, PendingOwned
    <3>2. CASE d # c
      BY <1>0, <1>1, <1>2, <1>3, <2>1, <3>2 DEF PendingOwned
    <3> QED
      BY <3>1, <3>2
  <2> QED
    BY <2>1 DEF PendingOwned
<1>7. SessionsOK' /\ AskedOK' /\ ListenersOwned'
  BY <1>0, <1>1 DEF SessionsOK, AskedOK, ListenersOwned
<1> QED
  BY <1>4, <1>5, <1>6, <1>7 DEF IInv

\* The data handler looks the tunnel up.
LEMMA GetTunnelStep ==
    ASSUME IInv, NEW c \in Conns, GetTunnel(c)
    PROVE  IInv'
<1> USE NoneAssumption
<1>0. TypeOK /\ SessionsOK /\ AskedOK /\ ConnsOK /\ ListenersOwned /\ PendingOwned
  BY DEF IInv
<1>1. UNCHANGED <<phase, queue, tunnel, handler, existing, asked, port, life, reply, link,
                 publicPort, accepting, home, pending, timer, fate, drops>>
  BY DEF GetTunnel, serverVars, sessVars, clientVars, connVars
<1>2. opening[c] = "lookup"
  BY DEF GetTunnel
<1>3. found' \in [Conns -> Sessions \cup {None}]
  BY <1>0 DEF GetTunnel, TypeOK, Fates, AcceptStates, OpenStates
<1>4. /\ opening' \in [Conns -> OpenStates] /\ opening'[c] \in {"take", "no"}
      /\ \A d \in Conns : d # c => opening'[d] = opening[d]
  BY <1>0 DEF GetTunnel, TypeOK, Fates, AcceptStates, OpenStates
<1>5. TypeOK'
  BY <1>0, <1>1, <1>2, <1>3, <1>4 DEF TypeOK, Fates, AcceptStates, OpenStates
<1>6. ConnsOK'
  <2>1. ASSUME NEW d \in Conns
        PROVE  /\ fate'[d] = "none" => accepting'[d] = "no" /\ opening'[d] = "no" /\ ~timer'[d]
               /\ accepting'[d] # "no" => ~timer'[d] /\ opening'[d] = "no"
               /\ accepting'[d] \in {"check", "insert"} => fate'[d] = "held" /\ ~pending'[d]
               /\ accepting'[d] = "write" => pending'[d] \/ fate'[d] = "closed"
               /\ opening'[d] = "answer" => fate'[d] = "held" /\ ~pending'[d]
    <3>1. CASE d = c
      BY <1>0, <1>1, <1>2, <1>3, <1>4, <2>1, <3>1, Ranges DEF ConnsOK, PendingOwned
    <3>2. CASE d # c
      BY <1>0, <1>1, <1>2, <1>3, <1>4, <2>1, <3>2 DEF ConnsOK
    <3> QED
      BY <3>1, <3>2
  <2> QED
    BY <2>1 DEF ConnsOK
<1>7. PendingOwned'
  <2>1. ASSUME NEW d \in Conns
        PROVE  /\ pending'[d] => fate'[d] = "held" /\ (timer'[d] \/ accepting'[d] = "write")
               /\ fate'[d] = "held" /\ ~pending'[d] =>
                    accepting'[d] # "no" \/ opening'[d] = "answer"
    <3>1. CASE d = c
      BY <1>0, <1>1, <1>2, <1>3, <1>4, <2>1, <3>1, Ranges DEF ConnsOK, PendingOwned
    <3>2. CASE d # c
      BY <1>0, <1>1, <1>2, <1>3, <1>4, <2>1, <3>2 DEF PendingOwned
    <3> QED
      BY <3>1, <3>2
  <2> QED
    BY <2>1 DEF PendingOwned
<1>8. SessionsOK' /\ AskedOK' /\ ListenersOwned'
  BY <1>0, <1>1 DEF SessionsOK, AskedOK, ListenersOwned
<1> QED
  BY <1>5, <1>6, <1>7, <1>8 DEF IInv

\* Who takes a pending connection has it alone.
LEMMA TakePendingStep ==
    ASSUME IInv, NEW c \in Conns, TakePending(c)
    PROVE  IInv'
<1> USE NoneAssumption
<1>0. TypeOK /\ SessionsOK /\ AskedOK /\ ConnsOK /\ ListenersOwned /\ PendingOwned
  BY DEF IInv
<1>1. UNCHANGED <<phase, queue, tunnel, handler, existing, asked, port, life, reply, link,
                 publicPort, accepting, home, timer, fate, drops>>
  BY DEF TakePending, serverVars, sessVars, clientVars, connVars
<1>2. opening[c] = "take"
  BY DEF TakePending
<1>3. found' \in [Conns -> Sessions \cup {None}]
  BY <1>0 DEF TakePending, TypeOK, Fates, AcceptStates, OpenStates
<1>4. /\ pending' \in [Conns -> BOOLEAN] /\ opening' \in [Conns -> OpenStates]
      /\ \A d \in Conns : d # c => pending'[d] = pending[d] /\ opening'[d] = opening[d]
      /\ \/ pending[c] /\ ~pending'[c] /\ opening'[c] = "answer"
         \/ pending'[c] = pending[c] /\ opening'[c] = "no"
  BY <1>0 DEF TakePending, TypeOK, Fates, AcceptStates, OpenStates
<1>5. TypeOK'
  BY <1>0, <1>1, <1>2, <1>3, <1>4 DEF TypeOK, Fates, AcceptStates, OpenStates
<1>6. ConnsOK'
  <2>1. ASSUME NEW d \in Conns
        PROVE  /\ fate'[d] = "none" => accepting'[d] = "no" /\ opening'[d] = "no" /\ ~timer'[d]
               /\ accepting'[d] # "no" => ~timer'[d] /\ opening'[d] = "no"
               /\ accepting'[d] \in {"check", "insert"} => fate'[d] = "held" /\ ~pending'[d]
               /\ accepting'[d] = "write" => pending'[d] \/ fate'[d] = "closed"
               /\ opening'[d] = "answer" => fate'[d] = "held" /\ ~pending'[d]
    <3>1. CASE d = c
      BY <1>0, <1>1, <1>2, <1>3, <1>4, <2>1, <3>1, Ranges DEF ConnsOK, PendingOwned
    <3>2. CASE d # c
      BY <1>0, <1>1, <1>2, <1>3, <1>4, <2>1, <3>2 DEF ConnsOK
    <3> QED
      BY <3>1, <3>2
  <2> QED
    BY <2>1 DEF ConnsOK
<1>7. PendingOwned'
  <2>1. ASSUME NEW d \in Conns
        PROVE  /\ pending'[d] => fate'[d] = "held" /\ (timer'[d] \/ accepting'[d] = "write")
               /\ fate'[d] = "held" /\ ~pending'[d] =>
                    accepting'[d] # "no" \/ opening'[d] = "answer"
    <3>1. CASE d = c
      BY <1>0, <1>1, <1>2, <1>3, <1>4, <2>1, <3>1, Ranges DEF ConnsOK, PendingOwned
    <3>2. CASE d # c
      BY <1>0, <1>1, <1>2, <1>3, <1>4, <2>1, <3>2 DEF PendingOwned
    <3> QED
      BY <3>1, <3>2
  <2> QED
    BY <2>1 DEF PendingOwned
<1>8. SessionsOK' /\ AskedOK' /\ ListenersOwned'
  BY <1>0, <1>1 DEF SessionsOK, AskedOK, ListenersOwned
<1> QED
  BY <1>5, <1>6, <1>7, <1>8 DEF IInv

\* The connection is relayed, or closed when the answer fails.
LEMMA AnswerDataStep ==
    ASSUME IInv, NEW c \in Conns, AnswerData(c)
    PROVE  IInv'
<1> USE NoneAssumption
<1>0. TypeOK /\ SessionsOK /\ AskedOK /\ ConnsOK /\ ListenersOwned /\ PendingOwned
  BY DEF IInv
<1>1. UNCHANGED <<phase, queue, tunnel, handler, existing, asked, port, life, reply, link,
                 publicPort, accepting, home, pending, timer, found, drops>>
  BY DEF AnswerData, serverVars, sessVars, clientVars, connVars
<1>2. opening[c] = "answer"
  BY DEF AnswerData
<1>3. /\ opening' \in [Conns -> OpenStates]
      /\ \A t \in Conns : opening'[t] = IF t = c THEN "no" ELSE opening[t]
  BY <1>0 DEF AnswerData, TypeOK, Fates, AcceptStates, OpenStates
<1>4. /\ fate' \in [Conns -> Fates] /\ fate'[c] \in {"relayed", "closed"}
      /\ \A d \in Conns : d # c => fate'[d] = fate[d]
  BY <1>0 DEF AnswerData, TypeOK, Fates, AcceptStates, OpenStates
<1>5. TypeOK'
  BY <1>0, <1>1, <1>2, <1>3, <1>4 DEF TypeOK, Fates, AcceptStates, OpenStates
<1>6. ConnsOK'
  <2>1. ASSUME NEW d \in Conns
        PROVE  /\ fate'[d] = "none" => accepting'[d] = "no" /\ opening'[d] = "no" /\ ~timer'[d]
               /\ accepting'[d] # "no" => ~timer'[d] /\ opening'[d] = "no"
               /\ accepting'[d] \in {"check", "insert"} => fate'[d] = "held" /\ ~pending'[d]
               /\ accepting'[d] = "write" => pending'[d] \/ fate'[d] = "closed"
               /\ opening'[d] = "answer" => fate'[d] = "held" /\ ~pending'[d]
    <3>1. CASE d = c
      BY <1>0, <1>1, <1>2, <1>3, <1>4, <2>1, <3>1, Ranges DEF ConnsOK, PendingOwned
    <3>2. CASE d # c
      BY <1>0, <1>1, <1>2, <1>3, <1>4, <2>1, <3>2 DEF ConnsOK
    <3> QED
      BY <3>1, <3>2
  <2> QED
    BY <2>1 DEF ConnsOK
<1>7. PendingOwned'
  <2>1. ASSUME NEW d \in Conns
        PROVE  /\ pending'[d] => fate'[d] = "held" /\ (timer'[d] \/ accepting'[d] = "write")
               /\ fate'[d] = "held" /\ ~pending'[d] =>
                    accepting'[d] # "no" \/ opening'[d] = "answer"
    <3>1. CASE d = c
      BY <1>0, <1>1, <1>2, <1>3, <1>4, <2>1, <3>1, Ranges DEF ConnsOK, PendingOwned
    <3>2. CASE d # c
      BY <1>0, <1>1, <1>2, <1>3, <1>4, <2>1, <3>2 DEF PendingOwned
    <3> QED
      BY <3>1, <3>2
  <2> QED
    BY <2>1 DEF PendingOwned
<1>8. SessionsOK' /\ AskedOK' /\ ListenersOwned'
  BY <1>0, <1>1 DEF SessionsOK, AskedOK, ListenersOwned
<1> QED
  BY <1>5, <1>6, <1>7, <1>8 DEF IInv

\* Nobody holds a connection that is over.
LEMMA RecycleStep ==
    ASSUME IInv, NEW c \in Conns, Recycle(c)
    PROVE  IInv'
<1> USE NoneAssumption
<1>0. TypeOK /\ SessionsOK /\ AskedOK /\ ConnsOK /\ ListenersOwned /\ PendingOwned
  BY DEF IInv
<1>1. UNCHANGED <<phase, queue, tunnel, handler, existing, asked, port, life, reply, link,
                 publicPort, accepting, pending, timer, opening, found, drops>>
  BY DEF Recycle, serverVars, sessVars, clientVars, connVars
<1>2. /\ fate[c] \in {"relayed", "closed"} /\ accepting[c] = "no" /\ ~timer[c] /\ opening[c] = "no"
  BY DEF Recycle
<1>3. home' \in [Conns -> Sessions \cup {None}]
  BY <1>0 DEF Recycle, TypeOK, Fates, AcceptStates, OpenStates
<1>4. /\ fate' \in [Conns -> Fates]
      /\ \A t \in Conns : fate'[t] = IF t = c THEN "none" ELSE fate[t]
  BY <1>0 DEF Recycle, TypeOK, Fates, AcceptStates, OpenStates
<1>5. TypeOK'
  BY <1>0, <1>1, <1>2, <1>3, <1>4 DEF TypeOK, Fates, AcceptStates, OpenStates
<1>6. ConnsOK'
  <2>1. ASSUME NEW d \in Conns
        PROVE  /\ fate'[d] = "none" => accepting'[d] = "no" /\ opening'[d] = "no" /\ ~timer'[d]
               /\ accepting'[d] # "no" => ~timer'[d] /\ opening'[d] = "no"
               /\ accepting'[d] \in {"check", "insert"} => fate'[d] = "held" /\ ~pending'[d]
               /\ accepting'[d] = "write" => pending'[d] \/ fate'[d] = "closed"
               /\ opening'[d] = "answer" => fate'[d] = "held" /\ ~pending'[d]
    <3>1. CASE d = c
      BY <1>0, <1>1, <1>2, <1>3, <1>4, <2>1, <3>1, Ranges DEF ConnsOK, PendingOwned
    <3>2. CASE d # c
      BY <1>0, <1>1, <1>2, <1>3, <1>4, <2>1, <3>2 DEF ConnsOK
    <3> QED
      BY <3>1, <3>2
  <2> QED
    BY <2>1 DEF ConnsOK
<1>7. PendingOwned'
  <2>1. ASSUME NEW d \in Conns
        PROVE  /\ pending'[d] => fate'[d] = "held" /\ (timer'[d] \/ accepting'[d] = "write")
               /\ fate'[d] = "held" /\ ~pending'[d] =>
                    accepting'[d] # "no" \/ opening'[d] = "answer"
    <3>1. CASE d = c
      BY <1>0, <1>1, <1>2, <1>3, <1>4, <2>1, <3>1, Ranges DEF ConnsOK, PendingOwned
    <3>2. CASE d # c
      BY <1>0, <1>1, <1>2, <1>3, <1>4, <2>1, <3>2 DEF PendingOwned
    <3> QED
      BY <3>1, <3>2
  <2> QED
    BY <2>1 DEF PendingOwned
<1>8. SessionsOK' /\ AskedOK' /\ ListenersOwned'
  BY <1>0, <1>1 DEF SessionsOK, AskedOK, ListenersOwned
<1> QED
  BY <1>5, <1>6, <1>7, <1>8 DEF IInv
-----------------------------------------------------------------------------
(* The actions that call close() *)

\* A call of close() begins it, or finds it finished.
LEMMA CloseCalled ==
    ASSUME TypeOK, NEW s \in Sessions, NEW done \in BOOLEAN, CloseTunnel(s, done)
    PROVE  \/ ~done /\ BeginClose(s)
           \/ done /\ life[s] = "closed" /\ UNCHANGED <<life, port>>
BY DEF CloseTunnel

\* The handler that took the old tunnel closes it.
LEMMA CloseExistingStep ==
    ASSUME IInv, NEW s \in Sessions, CloseExisting(s)
    PROVE  IInv'
<1>0. TypeOK /\ SessionsOK
  BY DEF IInv
<1>1. PICK done \in BOOLEAN :
         /\ CloseTunnel(existing[s], done)
         /\ IF done THEN /\ handler' = [handler EXCEPT ![s] = "listen"]
                         /\ existing' = [existing EXCEPT ![s] = None]
                    ELSE UNCHANGED <<handler, existing>>
  BY DEF CloseExisting
<1>2. /\ handler[s] = "evict"
      /\ UNCHANGED <<serverVars, asked, reply, clientVars, connVars, drops>>
  BY DEF CloseExisting
<1>3. CASE done
  <2>1. life[existing[s]] = "closed" /\ UNCHANGED <<life, port>>
    BY <1>1, <1>3 DEF CloseTunnel
  <2>2. /\ handler' = [handler EXCEPT ![s] = "listen"]
        /\ existing' = [existing EXCEPT ![s] = None]
    BY <1>1, <1>3
  <2> QED
    BY <1>2, <2>1, <2>2, EvictDone
<1>4. CASE ~done
  <2>1. BeginClose(existing[s]) /\ UNCHANGED <<handler, existing>>
    BY <1>1, <1>4 DEF CloseTunnel
  <2>2. CASE existing[s] \in Sessions
    <3>1. handler[existing[s]] \notin {"hello", "evict", "listen", "insert"}
      BY <1>0, <2>2 DEF SessionsOK
    <3> QED
      BY <1>2, <2>1, <2>2, <3>1, BeginCloseOf
  <2>3. CASE existing[s] \notin Sessions
    <3>1. life' = life /\ port' = port
      BY <1>0, <2>1, <2>3 DEF BeginClose, TypeOK
    <3> QED
      BY <1>2, <2>1, <3>1, NothingChanges
  <2> QED
    BY <2>2, <2>3
<1> QED
  BY <1>3, <1>4

\* A handler closes its own tunnel.
LEMMA CloseOwnStep ==
    ASSUME IInv, NEW s \in Sessions, CloseOwn(s)
    PROVE  IInv'
<1>0. TypeOK
  BY DEF IInv
<1>1. PICK done \in BOOLEAN :
         /\ CloseTunnel(s, done)
         /\ handler' = [handler EXCEPT ![s] = IF done THEN "idle" ELSE @]
  BY DEF CloseOwn
<1>2. /\ handler[s] = "close"
      /\ UNCHANGED <<serverVars, existing, asked, reply, clientVars, connVars, drops>>
  BY DEF CloseOwn
<1>3. CASE done
  <2>1. life[s] = "closed" /\ UNCHANGED <<life, port>> /\ handler' = [handler EXCEPT ![s] = "idle"]
    BY <1>1, <1>3 DEF CloseTunnel
  <2> QED
    BY <1>2, <2>1, CloseDone
<1>4. CASE ~done
  <2>1. BeginClose(s) /\ handler' = handler
    BY <1>0, <1>1, <1>2, <1>4 DEF CloseTunnel, TypeOK
  <2> QED
    BY <1>2, <2>1, BeginCloseOf
<1> QED
  BY <1>3, <1>4

\* Server.close() closes a tunnel it captured.
LEMMA CloseCapturedStep ==
    ASSUME IInv, CloseCaptured
    PROVE  IInv'
<1>0. TypeOK /\ SessionsOK
  BY DEF IInv
<1>1. PICK s \in queue, done \in BOOLEAN :
         CloseTunnel(s, done) /\ queue' = IF done THEN queue \ {s} ELSE queue
  BY DEF CloseCaptured
<1>2. UNCHANGED <<phase, tunnel, handler, existing, asked, reply, clientVars, connVars, drops>>
  BY DEF CloseCaptured
<1>3. s \in Sessions /\ handler[s] \notin {"hello", "evict", "listen", "insert"}
  BY <1>0 DEF TypeOK, SessionsOK
<1>4. CASE done
  <2>1. UNCHANGED <<life, port>> /\ queue' = queue \ {s}
    BY <1>1, <1>4 DEF CloseTunnel
  <2> QED
    BY <1>2, <1>3, <2>1, CaptureDone DEF sessVars
<1>5. CASE ~done
  <2>1. BeginClose(s) /\ queue' = queue
    BY <1>1, <1>5 DEF CloseTunnel
  <2> QED
    BY <1>2, <1>3, <2>1, BeginCloseOf DEF serverVars
<1> QED
  BY <1>4, <1>5

-----------------------------------------------------------------------------
(* The invariant *)

\* The invariant holds when the server is started.
LEMMA InitIInv == Init => IInv
<1> SUFFICES ASSUME Init PROVE IInv
  OBVIOUS
<1> USE NoneAssumption, NumberAssumption, ConfiguredAssumption DEF Init
<1>1. TypeOK
  BY DEF TypeOK
<1>2. SessionsOK /\ AskedOK /\ ConnsOK
  BY DEF SessionsOK, AskedOK, ConnsOK
<1>3. ListenersOwned /\ PendingOwned
  BY DEF ListenersOwned, PendingOwned
<1> QED
  BY <1>1, <1>2, <1>3 DEF IInv

\* Every step keeps it.
LEMMA NextIInv == IInv /\ [Next]_vars => IInv'
<1> SUFFICES ASSUME IInv, [Next]_vars PROVE IInv'
  OBVIOUS
<1>1. ASSUME NEW s \in Sessions, Handler(s) \/ RejectHello(s) \/ ReadFails(s) \/ Sweep(s)
      PROVE  IInv'
  BY <1>1, TakeNameStep, CloseExistingStep, ListenStep, InsertStep, AckStep, UnregisterStep,
     CloseOwnStep, RejectHelloStep, ReadFailsStep, SweepStep DEF Handler
<1>2. ASSUME NEW c \in Conns,
             Accept(c) \/ Accepting(c) \/ Expire(c) \/ Opening(c) \/ Recycle(c)
      PROVE  IInv'
  BY <1>2, AcceptStep, CheckLimitStep, InsertPendingStep, WriteOpenStep, ExpireStep,
     HandleOpenStep, GetTunnelStep, TakePendingStep, AnswerDataStep, RecycleStep
     DEF Accepting, Opening
<1>3. CASE UNCHANGED vars
  BY <1>3, NothingChanges DEF vars, serverVars, sessVars, clientVars
<1> QED
  BY <1>1, <1>2, <1>3, ConnectStep, ReadResponseStep, DisconnectedStep, DropStep,
     CaptureTunnelsStep, CloseCapturedStep, CloseReturnsStep DEF Next, Client

\* The invariant holds in every state the tunnel can be in.
THEOREM InductiveInvariant == Spec => []IInv
BY InitIInv, NextIInv, PTL DEF Spec

\* At all times an open public listener has a handler that will close it, a tunnel that
\* is open without having the name has somebody who will close it, and a public
\* connection is pending with a timer, in somebody's hands, relayed or closed.
THEOREM LegacyTunnelIsSafe == Spec => []LegacySafe
<1>1. IInv => LegacySafe
  BY DEF IInv, LegacySafe
<1> QED
  BY <1>1, InductiveInvariant, PTL

-----------------------------------------------------------------------------
(* The port of the client *)

\* The port the server confirms is the one the client asked for, so that a client that
\* has one keeps it through every reconnection.
LEMMA PortStep == IInv /\ [Next]_vars => (publicPort # 0 => publicPort' = publicPort)
<1> SUFFICES ASSUME IInv, [Next]_vars, publicPort # 0 PROVE publicPort' = publicPort
  OBVIOUS
<1>1. CASE ReadResponse
  <2>1. asked[link] = publicPort
    BY <1>1 DEF IInv, AskedOK, ReadResponse
  <2> QED
    BY <1>1, <2>1 DEF ReadResponse
<1>2. CASE UNCHANGED vars
  BY <1>2 DEF vars, clientVars
<1>3. ASSUME NEW s \in Sessions, Handler(s) \/ RejectHello(s) \/ ReadFails(s) \/ Sweep(s)
      PROVE  publicPort' = publicPort
  <2> USE DEF clientVars
  <2>1. ASSUME Handler(s) PROVE publicPort' = publicPort
    <3>1. CASE TakeName(s) \/ CloseExisting(s) \/ Listen(s)
      BY <3>1 DEF TakeName, CloseExisting, Listen
    <3>2. CASE Insert(s) \/ Ack(s) \/ Unregister(s) \/ CloseOwn(s)
      BY <3>2 DEF Insert, Ack, Unregister, CloseOwn
    <3> QED
      BY <2>1, <3>1, <3>2 DEF Handler
  <2>2. CASE RejectHello(s) \/ ReadFails(s) \/ Sweep(s)
    BY <2>2 DEF RejectHello, ReadFails, Sweep
  <2> QED
    BY <1>3, <2>1, <2>2
<1>4. ASSUME NEW c \in Conns,
             Accept(c) \/ Accepting(c) \/ Expire(c) \/ Opening(c) \/ Recycle(c)
      PROVE  publicPort' = publicPort
  <2> USE DEF clientVars
  <2>1. CASE Accept(c) \/ Accepting(c)
    BY <2>1 DEF Accept, Accepting, CheckLimit, InsertPending, WriteOpen
  <2>2. CASE Opening(c)
    BY <2>2 DEF Opening, HandleOpen, GetTunnel, TakePending, AnswerData
  <2>3. CASE Expire(c) \/ Recycle(c)
    BY <2>3 DEF Expire, Recycle
  <2> QED
    BY <1>4, <2>1, <2>2, <2>3
<1>5. CASE Connect \/ Disconnected \/ Drop \/ CaptureTunnels \/ CloseCaptured \/ CloseReturns
  BY <1>5 DEF Connect, Disconnected, Drop, CaptureTunnels, CloseCaptured, CloseReturns, clientVars
<1> QED
  BY <1>1, <1>2, <1>3, <1>4, <1>5 DEF Next, Client

\* A client that was once assigned a port never gets another one instead.
THEOREM PortIsKept == Spec => KeepsPort
<1>1. IInv /\ [Next]_vars => [publicPort # 0 => publicPort' = publicPort]_vars
  BY PortStep
<1> QED
  BY <1>1, InductiveInvariant, PTL DEF Spec, KeepsPort

-----------------------------------------------------------------------------
(* The common specification of the engines *)

\* A server that has not registered anybody: no name has an owner.
LEMMA InitRegistry == Init => Registry!Init
BY DEF Init, Registry!Init

\* The entry of a tunnel into the map is a Take, the end of a registered handler a Leave
\* or an End, the removal of the old tunnel an Evict; nothing else touches the name.
LEMMA NextRegistry == IInv /\ [Next]_vars => [Registry!Next]_(Registry!vars)
<1> SUFFICES ASSUME IInv, [Next]_vars
             PROVE  Registry!Next \/ UNCHANGED Registry!vars
  OBVIOUS
<1>0. TypeOK /\ SessionsOK
  BY DEF IInv
<1> DEFINE owner == [n \in {None} |-> tunnel]
           servingNow == {s \in Sessions : handler[s] \in {"ack", "serve", "leave"}}
<1>1. ASSUME tunnel' = tunnel, servingNow' = servingNow
      PROVE  UNCHANGED Registry!vars
  BY <1>1 DEF Registry!vars
<1>2. ASSUME NEW s \in Sessions, Handler(s) \/ RejectHello(s) \/ ReadFails(s) \/ Sweep(s)
      PROVE  Registry!Next \/ UNCHANGED Registry!vars
  <2>1. CASE TakeName(s)
    <3>1. servingNow' = servingNow
      BY <1>0, <2>1 DEF TakeName, TypeOK
    <3>2. owner' = [n \in {None} |-> IF n \in {None} THEN None ELSE owner[n]]
      BY <2>1 DEF TakeName
    <3>3. Registry!Evict
      BY <3>1, <3>2 DEF Registry!Evict
    <3> QED
      BY <3>3 DEF Registry!Next
  <2>2. CASE Insert(s)
    <3>1. CASE tunnel # None
      <4>1. servingNow' = servingNow /\ tunnel' = tunnel
        BY <1>0, <2>2, <3>1 DEF Insert, Refuse, TypeOK
      <4> QED
        BY <1>1, <4>1
    <3>2. CASE tunnel = None
      <4>1. s \notin servingNow /\ servingNow' = servingNow \cup {s}
        BY <1>0, <2>2, <3>2 DEF Insert, TypeOK
      <4>2. owner' = [owner EXCEPT ![None] = s]
        BY <2>2, <3>2 DEF Insert
      <4>3. Registry!Take(s)
        BY <4>1, <4>2 DEF Registry!Take
      <4> QED
        BY <4>3 DEF Registry!Next
    <3> QED
      BY <3>1, <3>2
  <2>3. CASE Unregister(s)
    <3>1. s \in servingNow /\ servingNow' = servingNow \ {s}
      BY <1>0, <2>3 DEF Unregister, TypeOK
    <3>2. CASE tunnel = s
      <4>1. owner[None] = s /\ owner' = [owner EXCEPT ![None] = None]
        BY <2>3, <3>2 DEF Unregister
      <4>2. Registry!Leave(s)
        BY <3>1, <4>1 DEF Registry!Leave
      <4> QED
        BY <4>2 DEF Registry!Next
    <3>3. CASE tunnel # s
      <4>1. owner[None] # s /\ owner' = owner
        BY <2>3, <3>3 DEF Unregister
      <4>2. Registry!End(s)
        BY <3>1, <4>1 DEF Registry!End
      <4> QED
        BY <4>2 DEF Registry!Next
    <3> QED
      BY <3>2, <3>3
  <2>4. CASE CloseExisting(s) \/ Listen(s) \/ Ack(s) \/ CloseOwn(s) \/ RejectHello(s)
             \/ ReadFails(s) \/ Sweep(s)
    <3>1. tunnel' = tunnel
      BY <2>4 DEF CloseExisting, Listen, Ack, CloseOwn, RejectHello, ReadFails, Sweep, serverVars
    <3>2. \A t \in Sessions : handler'[t] \in {"ack", "serve", "leave"}
                                <=> handler[t] \in {"ack", "serve", "leave"}
      <4>1. CASE CloseExisting(s) \/ CloseOwn(s)
        BY <1>0, <4>1 DEF CloseExisting, CloseOwn, TypeOK
      <4>2. CASE Listen(s) \/ RejectHello(s)
        BY <1>0, <4>2 DEF Listen, Refuse, RejectHello, TypeOK
      <4>3. CASE Ack(s) \/ ReadFails(s) \/ Sweep(s)
        BY <1>0, <4>3 DEF Ack, ReadFails, Sweep, TypeOK
      <4> QED
        BY <2>4, <4>1, <4>2, <4>3
    <3> QED
      BY <1>1, <3>1, <3>2
  <2> QED
    BY <1>2, <2>1, <2>2, <2>3, <2>4 DEF Handler
<1>3. CASE UNCHANGED <<tunnel, handler>>
  BY <1>1, <1>3
<1>4. ASSUME NEW c \in Conns,
             Accept(c) \/ Accepting(c) \/ Expire(c) \/ Opening(c) \/ Recycle(c)
      PROVE  UNCHANGED <<tunnel, handler>>
  <2> USE DEF serverVars, sessVars
  <2>1. CASE Accept(c) \/ Accepting(c)
    BY <2>1 DEF Accept, Accepting, CheckLimit, InsertPending, WriteOpen
  <2>2. CASE Opening(c)
    BY <2>2 DEF Opening, HandleOpen, GetTunnel, TakePending, AnswerData
  <2>3. CASE Expire(c) \/ Recycle(c)
    BY <2>3 DEF Expire, Recycle
  <2> QED
    BY <1>4, <2>1, <2>2, <2>3
<1>5. CASE Connect
  <2>1. \E s \in Sessions : Unreferenced(s)
    BY <1>5 DEF Connect
  <2>2. FreeSession \in Sessions /\ handler[FreeSession] = "idle"
    BY <2>1 DEF FreeSession, Unreferenced
  <2>3. tunnel' = tunnel /\ servingNow' = servingNow
    BY <1>0, <1>5, <2>2 DEF Connect, TypeOK, serverVars
  <2> QED
    BY <1>1, <2>3
<1>6. CASE ReadResponse \/ Disconnected \/ Drop \/ CaptureTunnels \/ CloseCaptured \/ CloseReturns
  <2>1. UNCHANGED <<tunnel, handler>>
    BY <1>6 DEF ReadResponse, Disconnected, Drop, CaptureTunnels, CloseCaptured, CloseReturns,
       serverVars, sessVars
  <2> QED
    BY <1>1, <2>1
<1>7. CASE UNCHANGED vars
  BY <1>1, <1>7 DEF vars, serverVars, sessVars
<1> QED
  BY <1>2, <1>3, <1>4, <1>5, <1>6, <1>7 DEF Next, Client

\* The registration of the single-route server implements the common specification of
\* the engines: its safety part, step by step.
THEOREM RegistryIsImplemented == Spec => Registry!Safe
BY InitRegistry, NextRegistry, InductiveInvariant, PTL DEF Spec, Registry!Safe
=============================================================================
