------------------------- MODULE TunnelData_proofs -------------------------
(***************************************************************************)
(* The data path of the classic tunnel server keeps track of every public  *)
(* connection, for any number of connections, listeners and data           *)
(* connections.  The argument follows a connection from hand to hand: what *)
(* the accept loop holds was not announced, so that no data handler knows  *)
(* it and no timer runs (InHandOK); what is pending is open and has its    *)
(* timer, or is about to be announced (PendingOK); who takes a connection  *)
(* out of the map, a data handler or the timer, has it alone (OneTaker,    *)
(* TimerOK); and the room found for a connection is not taken by another,  *)
(* because one accept loop serves a listener (RoomKept).                   *)
(***************************************************************************)
EXTENDS TunnelData, FiniteSetTheorems, TLAPS

\* The accept loop has a connection in hand from Accept until it gives it away.
AcceptorsOK ==
    \A l \in Listeners :
        /\ acceptor[l].pc = "accept" <=> acceptor[l].conn = None
        /\ acceptor[l].conn # None => origin[acceptor[l].conn] = l

\* A data handler works on a connection whose open message was sent.
HandlersOK ==
    \A d \in DataConns :
        /\ data[d].pc = "idle" <=> data[d].id = None
        /\ data[d].id # None => data[d].id \in announced
        /\ data[d].pc = "take" => data[d].listener # None

\* A pending connection is open, and its timer runs or is about to be started.
PendingOK ==
    \A l \in Listeners :
       \A c \in pending[l] :
        /\ origin[c] = l
        /\ public[c] = "open"
        /\ timer[c] = "armed" \/ (acceptor[l].pc = "announce" /\ acceptor[l].conn = c)

\* A connection that was not accepted is nowhere; an accepted one has its listener.
UntouchedOK ==
    \A c \in Conns :
        IF public[c] = "none" THEN ~InHand(c) /\ c \notin announced /\ timer[c] = "off"
                              ELSE origin[c] # None

\* What the accept loop holds nobody else knows, except the closer of the listener.
InHandOK ==
    \A l \in Listeners :
        LET c == acceptor[l].conn IN
        c # None =>
           /\ c \notin announced /\ timer[c] = "off"
           /\ acceptor[l].pc \in {"check", "insert"} => public[c] = "open"
           /\ acceptor[l].pc # "announce" => c \notin pending[l]
           /\ acceptor[l].pc = "announce" /\ public[c] = "open" => c \in pending[l]

\* A timer that fired has the connection to itself.
TimerOK ==
    \A c \in Conns :
        /\ timer[c] # "off" => origin[c] # None
        /\ timer[c] = "fired" => public[c] = "open" /\ ~Pending(c) /\ \A d \in DataConns : ~Holds(d, c)

\* There is room for the connection the accept loop is about to enter.
RoomKept ==
    \A l \in Listeners :
        /\ IsFiniteSet(pending[l])
        /\ acceptor[l].pc = "insert" => Cardinality(pending[l]) < MaxPending

\* The inductive invariant.
IInv == TypeOK /\ AcceptorsOK /\ HandlersOK /\ PendingOK /\ UntouchedOK /\ InHandOK /\ TimerOK
        /\ RoomKept /\ PendingBounded /\ NoneForgotten /\ OneTaker /\ TrackedRelays

\* What the types say of the parts of the state.
LEMMA Ranges ==
    TypeOK =>
      /\ \A l \in Listeners : /\ pending[l] \in SUBSET Conns
                              /\ acceptor[l].pc \in AcceptorStates
                              /\ acceptor[l].conn \in Conns \cup {None}
      /\ \A c \in Conns : /\ public[c] \in {"none", "open", "closed"}
                          /\ timer[c] \in TimerStates
                          /\ origin[c] \in Listeners \cup {None}
      /\ \A d \in DataConns : /\ data[d].pc \in DataStates
                              /\ data[d].id \in Conns \cup {None}
                              /\ data[d].listener \in Listeners \cup {None}
<1> SUFFICES ASSUME TypeOK
             PROVE  /\ \A l \in Listeners : /\ pending[l] \in SUBSET Conns
                                            /\ acceptor[l].pc \in AcceptorStates
                                            /\ acceptor[l].conn \in Conns \cup {None}
                    /\ \A c \in Conns : /\ public[c] \in {"none", "open", "closed"}
                                        /\ timer[c] \in TimerStates
                                        /\ origin[c] \in Listeners \cup {None}
                    /\ \A d \in DataConns : /\ data[d].pc \in DataStates
                                            /\ data[d].id \in Conns \cup {None}
                                            /\ data[d].listener \in Listeners \cup {None}
  OBVIOUS
<1>1. ASSUME NEW l \in Listeners
      PROVE  /\ pending[l] \in SUBSET Conns
             /\ acceptor[l].pc \in AcceptorStates
             /\ acceptor[l].conn \in Conns \cup {None}
  BY <1>1 DEF TypeOK, Acceptor
<1>2. ASSUME NEW c \in Conns
      PROVE  /\ public[c] \in {"none", "open", "closed"}
             /\ timer[c] \in TimerStates
             /\ origin[c] \in Listeners \cup {None}
  BY <1>2 DEF TypeOK
<1>3. ASSUME NEW d \in DataConns
      PROVE  /\ data[d].pc \in DataStates
             /\ data[d].id \in Conns \cup {None}
             /\ data[d].listener \in Listeners \cup {None}
  BY <1>3 DEF TypeOK, Data
<1> QED
  BY <1>1, <1>2, <1>3

\* The accept loop of one listener goes on with the connection in hand ...
LEMMA AcceptorMoves ==
    ASSUME TypeOK, NEW l \in Listeners, NEW p \in AcceptorStates,
           acceptor' = [acceptor EXCEPT ![l].pc = p]
    PROVE  /\ acceptor' \in [Listeners -> Acceptor]
           /\ \A k \in Listeners : /\ acceptor'[k].pc = IF k = l THEN p ELSE acceptor[k].pc
                                   /\ acceptor'[k].conn = acceptor[k].conn
BY DEF TypeOK, Acceptor

\* ... or gives it away or takes another.
LEMMA AcceptorIs ==
    ASSUME TypeOK, NEW l \in Listeners, NEW p \in AcceptorStates, NEW i \in Conns \cup {None},
           acceptor' = [acceptor EXCEPT ![l] = [pc |-> p, conn |-> i]]
    PROVE  /\ acceptor' \in [Listeners -> Acceptor]
           /\ \A k \in Listeners : /\ acceptor'[k].pc = IF k = l THEN p ELSE acceptor[k].pc
                                   /\ acceptor'[k].conn = IF k = l THEN i ELSE acceptor[k].conn
BY DEF TypeOK, Acceptor

\* The handler of one data connection goes on ...
LEMMA DataMoves ==
    ASSUME TypeOK, NEW d \in DataConns, NEW p \in DataStates, data' = [data EXCEPT ![d].pc = p]
    PROVE  /\ data' \in [DataConns -> Data]
           /\ \A e \in DataConns : /\ data'[e].pc = IF e = d THEN p ELSE data[e].pc
                                   /\ data'[e].id = data[e].id
                                   /\ data'[e].listener = data[e].listener
BY DEF TypeOK, Data

\* ... or ends.
LEMMA DataEnds ==
    ASSUME TypeOK, NEW d \in DataConns, Reject(d)
    PROVE  /\ data' \in [DataConns -> Data]
           /\ \A e \in DataConns :
                /\ data'[e].pc = IF e = d THEN "idle" ELSE data[e].pc
                /\ data'[e].id = IF e = d THEN None ELSE data[e].id
                /\ data'[e].listener = IF e = d THEN None ELSE data[e].listener
<1>1. NoData \in Data
  BY DEF Data, NoData, DataStates
<1> QED
  BY <1>1 DEF TypeOK, Reject, NoData

\* A connection is closed by one hand.
LEMMA PublicCloses ==
    ASSUME TypeOK, NEW c \in Conns, ClosePublic(c)
    PROVE  /\ public' \in [Conns -> {"none", "open", "closed"}]
           /\ \A x \in Conns : public'[x] = IF x = c THEN "closed" ELSE public[x]
BY DEF TypeOK, ClosePublic

\* A connection is taken out of the pending ones of a listener.
LEMMA PendingLoses ==
    ASSUME TypeOK, NEW l \in Listeners, NEW c, Withdraw(l, c)
    PROVE  /\ pending' \in [Listeners -> SUBSET Conns]
           /\ \A k \in Listeners : pending'[k] = IF k = l THEN pending[k] \ {c} ELSE pending[k]
BY DEF TypeOK, Withdraw

\* Taking connections out keeps the bound on the pending ones.
LEMMA FewerPending ==
    ASSUME RoomKept, PendingBounded, NEW l \in Listeners,
           pending'[l] \subseteq pending[l],
           acceptor'[l].pc = "insert" => acceptor[l].pc = "insert"
    PROVE  /\ IsFiniteSet(pending'[l]) /\ Cardinality(pending'[l]) <= MaxPending
           /\ acceptor'[l].pc = "insert" => Cardinality(pending'[l]) < MaxPending
<1>1. IsFiniteSet(pending[l]) /\ Cardinality(pending[l]) <= MaxPending
  BY DEF RoomKept, PendingBounded
<1>2. /\ IsFiniteSet(pending'[l]) /\ Cardinality(pending'[l]) <= Cardinality(pending[l])
  BY <1>1, FS_Subset
<1>3. Cardinality(pending'[l]) \in Nat /\ Cardinality(pending[l]) \in Nat /\ MaxPending \in Nat
  BY <1>1, <1>2, FS_CardinalityType, MaxPendingAssumption
<1> QED
  BY <1>1, <1>2, <1>3 DEF RoomKept

\* Accept takes a connection nobody has touched.
LEMMA AcceptStep ==
    ASSUME IInv, NEW l \in Listeners, Accept(l)
    PROVE  IInv'
<1> USE NoneAssumption
<1>0. /\ TypeOK /\ AcceptorsOK /\ HandlersOK /\ PendingOK /\ UntouchedOK /\ InHandOK /\ TimerOK
      /\ RoomKept /\ PendingBounded /\ NoneForgotten /\ OneTaker /\ TrackedRelays
  BY DEF IInv
<1>1. PICK c \in Conns :
        /\ acceptor[l].pc = "accept"
        /\ public[c] = "none"
        /\ origin' = [origin EXCEPT ![c] = l]
        /\ \/ ClosePublic(c) /\ UNCHANGED acceptor
           \/ /\ public' = [public EXCEPT ![c] = "open"]
              /\ acceptor' = [acceptor EXCEPT ![l] = [pc |-> "check", conn |-> c]]
  BY DEF Accept
<1>2. UNCHANGED <<registered, sessClosed, route, socket, pending, timer, announced, data, tracked>>
  BY DEF Accept, sessionVars
<1>3. /\ origin' \in [Conns -> Listeners \cup {None}]
      /\ \A x \in Conns : origin'[x] = IF x = c THEN l ELSE origin[x]
  BY <1>0, <1>1 DEF TypeOK
<1>4. /\ public' \in [Conns -> {"none", "open", "closed"}]
      /\ public'[c] \in {"open", "closed"}
      /\ \A x \in Conns : x # c => public'[x] = public[x]
  BY <1>0, <1>1 DEF TypeOK, ClosePublic
<1>5. /\ acceptor' \in [Listeners -> Acceptor]
      /\ \A k \in Listeners : k # l => acceptor'[k] = acceptor[k]
      /\ \/ public'[c] = "closed" /\ acceptor'[l] = acceptor[l]
         \/ public'[c] = "open" /\ acceptor'[l].pc = "check" /\ acceptor'[l].conn = c
  <2>1. CASE ClosePublic(c) /\ UNCHANGED acceptor
    BY <1>0, <2>1 DEF TypeOK, ClosePublic
  <2>2. CASE /\ public' = [public EXCEPT ![c] = "open"]
             /\ acceptor' = [acceptor EXCEPT ![l] = [pc |-> "check", conn |-> c]]
    <3>1. "check" \in AcceptorStates
      BY DEF AcceptorStates
    <3>2. /\ acceptor' \in [Listeners -> Acceptor]
          /\ acceptor'[l].pc = "check" /\ acceptor'[l].conn = c
      BY <1>0, <2>2, <3>1, AcceptorIs
    <3> QED
      BY <1>0, <2>2, <3>2 DEF TypeOK
  <2> QED
    BY <1>1, <2>1, <2>2
<1>6. TypeOK'
  BY <1>0, <1>2, <1>3, <1>4, <1>5 DEF TypeOK
<1>7. /\ acceptor[l].conn = None /\ c # None
      /\ c \notin announced /\ timer[c] = "off"
      /\ \A k \in Listeners : acceptor[k].conn # c /\ c \notin pending[k]
      /\ \A d \in DataConns : data[d].id # c
  BY <1>0, <1>1 DEF UntouchedOK, PendingOK, AcceptorsOK, HandlersOK, InHand
<1>8. AcceptorsOK'
  BY <1>0, <1>3, <1>5, <1>7, Ranges DEF AcceptorsOK
<1>9. PendingOK'
  BY <1>0, <1>2, <1>3, <1>4, <1>5, <1>7, Ranges DEF PendingOK
<1>10. UntouchedOK'
  BY <1>0, <1>2, <1>3, <1>4, <1>5 DEF UntouchedOK, InHand
<1>11. InHandOK'
  BY <1>0, <1>2, <1>4, <1>5, <1>7, Ranges DEF InHandOK
<1>12. TimerOK'
  BY <1>0, <1>2, <1>3, <1>4, <1>7 DEF TimerOK, Pending, Holds
<1>13. RoomKept'
  BY <1>0, <1>2, <1>5 DEF RoomKept
<1>14. NoneForgotten'
  BY <1>0, <1>2, <1>3, <1>4, <1>5, <1>7 DEF NoneForgotten, Pending, Holds, InHand
<1>15. OneTaker'
  BY <1>0, <1>2, <1>3, <1>4, <1>7 DEF OneTaker, Pending, Holds
<1>16. HandlersOK' /\ PendingBounded' /\ TrackedRelays'
  BY <1>0, <1>2 DEF HandlersOK, PendingBounded, TrackedRelays
<1> QED
  BY <1>6, <1>8, <1>9, <1>10, <1>11, <1>12, <1>13, <1>14, <1>15, <1>16 DEF IInv

\* What could not be announced is nobody else's when it is closed.
LEMMA DropStep ==
    ASSUME IInv, NEW l \in Listeners, Drop(l)
    PROVE  IInv'
<1> USE NoneAssumption
<1>0. /\ TypeOK /\ AcceptorsOK /\ HandlersOK /\ PendingOK /\ UntouchedOK /\ InHandOK /\ TimerOK
      /\ RoomKept /\ PendingBounded /\ NoneForgotten /\ OneTaker /\ TrackedRelays
  BY DEF IInv
<1>1. UNCHANGED <<registered, sessClosed, route, socket, pending, origin, timer, announced, data, tracked>>
  BY DEF Drop, sessionVars, connVars
<1>2. /\ acceptor[l].pc = "drop" /\ acceptor[l].conn \in Conns
      /\ acceptor[l].conn # None /\ origin[acceptor[l].conn] = l
  BY <1>0, Ranges DEF Drop, AcceptorsOK
<1>3. /\ acceptor' \in [Listeners -> Acceptor]
      /\ \A k \in Listeners : /\ acceptor'[k].pc = IF k = l THEN "accept" ELSE acceptor[k].pc
                              /\ acceptor'[k].conn = IF k = l THEN None ELSE acceptor[k].conn
  BY <1>0, AcceptorIs DEF Drop, Accepting, AcceptorStates
<1>4. /\ public' \in [Conns -> {"none", "open", "closed"}]
      /\ \A x \in Conns : public'[x] = IF x = acceptor[l].conn THEN "closed" ELSE public[x]
  BY <1>0, <1>2, PublicCloses DEF Drop
<1>5. /\ acceptor[l].conn \notin announced /\ timer[acceptor[l].conn] = "off"
      /\ \A d \in DataConns : data[d].id # acceptor[l].conn
      /\ \A k \in Listeners : /\ acceptor[l].conn \notin pending[k]
                              /\ k # l => acceptor[k].conn # acceptor[l].conn
  BY <1>0, <1>2 DEF InHandOK, HandlersOK, PendingOK, AcceptorsOK
<1>6. TypeOK'
  BY <1>0, <1>1, <1>3, <1>4 DEF TypeOK
<1>7. AcceptorsOK'
  BY <1>0, <1>1, <1>3 DEF AcceptorsOK
<1>8. PendingOK'
  BY <1>0, <1>1, <1>3, <1>4, <1>5, Ranges DEF PendingOK
<1>9. UntouchedOK'
  BY <1>0, <1>1, <1>3, <1>4 DEF UntouchedOK, InHand
<1>10. InHandOK'
  BY <1>0, <1>1, <1>3, <1>4, <1>5, Ranges DEF InHandOK
<1>11. TimerOK'
  BY <1>0, <1>1, <1>4, <1>5 DEF TimerOK, Pending, Holds
<1>12. RoomKept'
  BY <1>0, <1>1, <1>3 DEF RoomKept
<1>13. NoneForgotten'
  BY <1>0, <1>1, <1>3, <1>4 DEF NoneForgotten, Pending, Holds, InHand
<1>14. OneTaker'
  BY <1>0, <1>1, <1>4, <1>5 DEF OneTaker, Pending, Holds
<1>15. HandlersOK' /\ PendingBounded' /\ TrackedRelays'
  BY <1>0, <1>1 DEF HandlersOK, PendingBounded, TrackedRelays
<1> QED
  BY <1>6, <1>7, <1>8, <1>9, <1>10, <1>11, <1>12, <1>13, <1>14, <1>15 DEF IInv

\* What is entered is announced by the same hand; the room that was found is still there,
\* because only this accept loop adds to the pending connections of its listener.
LEMMA InsertPendingStep ==
    ASSUME IInv, NEW l \in Listeners, InsertPending(l)
    PROVE  IInv'
<1> USE NoneAssumption
<1>0. /\ TypeOK /\ AcceptorsOK /\ HandlersOK /\ PendingOK /\ UntouchedOK /\ InHandOK /\ TimerOK
      /\ RoomKept /\ PendingBounded /\ NoneForgotten /\ OneTaker /\ TrackedRelays
  BY DEF IInv
<1>1. UNCHANGED <<registered, sessClosed, route, socket, public, origin, timer, announced, data, tracked>>
  BY DEF InsertPending, sessionVars, connVars
<1>2. /\ acceptor[l].pc = "insert" /\ acceptor[l].conn \in Conns
      /\ acceptor[l].conn # None /\ origin[acceptor[l].conn] = l
  BY <1>0, Ranges DEF InsertPending, AcceptorsOK
<1>3. /\ acceptor' \in [Listeners -> Acceptor]
      /\ \A k \in Listeners : /\ acceptor'[k].pc = IF k = l THEN "announce" ELSE acceptor[k].pc
                              /\ acceptor'[k].conn = acceptor[k].conn
  BY <1>0, AcceptorMoves DEF InsertPending, AcceptorStates
<1>4. /\ pending' \in [Listeners -> SUBSET Conns]
      /\ \A k \in Listeners :
            pending'[k] = IF k = l THEN pending[k] \cup {acceptor[l].conn} ELSE pending[k]
  BY <1>0, <1>2 DEF InsertPending, TypeOK
<1>5. /\ IsFiniteSet(pending'[l]) /\ Cardinality(pending'[l]) <= MaxPending
      /\ \A k \in Listeners : k # l => pending'[k] = pending[k]
  <2>1. IsFiniteSet(pending[l]) /\ Cardinality(pending[l]) < MaxPending
    BY <1>0, <1>2 DEF RoomKept
  <2>2. /\ IsFiniteSet(pending[l] \cup {acceptor[l].conn})
        /\ Cardinality(pending[l] \cup {acceptor[l].conn})
             = IF acceptor[l].conn \in pending[l] THEN Cardinality(pending[l]) ELSE Cardinality(pending[l]) + 1
    BY <2>1, FS_AddElement
  <2>3. Cardinality(pending[l]) \in Nat /\ MaxPending \in Nat
    BY <2>1, FS_CardinalityType, MaxPendingAssumption
  <2>4. Cardinality(pending[l] \cup {acceptor[l].conn}) <= MaxPending
    BY <2>1, <2>2, <2>3
  <2>5. pending'[l] = pending[l] \cup {acceptor[l].conn}
    BY <1>4
  <2> QED
    BY <1>4, <2>2, <2>4, <2>5
<1>6. /\ public[acceptor[l].conn] = "open"
      /\ acceptor[l].conn \notin announced /\ timer[acceptor[l].conn] = "off"
      /\ \A d \in DataConns : data[d].id # acceptor[l].conn
      /\ \A k \in Listeners : /\ acceptor[l].conn \notin pending[k]
                              /\ k # l => acceptor[k].conn # acceptor[l].conn
  BY <1>0, <1>2 DEF InHandOK, HandlersOK, PendingOK, AcceptorsOK
<1>7. \A x \in Conns : public[x] # "none" => origin[x] \in Listeners
  BY <1>0, Ranges DEF UntouchedOK
<1>8. TypeOK'
  BY <1>0, <1>1, <1>3, <1>4 DEF TypeOK
<1>9. AcceptorsOK'
  BY <1>0, <1>1, <1>3, <1>4 DEF AcceptorsOK
<1>10. PendingOK'
  BY <1>0, <1>1, <1>2, <1>3, <1>4, <1>6 DEF PendingOK
<1>11. UntouchedOK'
  BY <1>0, <1>1, <1>3 DEF UntouchedOK, InHand
<1>12. InHandOK'
  BY <1>0, <1>1, <1>3, <1>4 DEF InHandOK
<1>13. TimerOK'
  BY <1>0, <1>1, <1>4, <1>6, Ranges DEF TimerOK, Pending, Holds
<1>14. RoomKept'
  BY <1>0, <1>3, <1>5 DEF RoomKept
<1>15. PendingBounded'
  BY <1>0, <1>5 DEF PendingBounded
<1>16. NoneForgotten'
  BY <1>0, <1>1, <1>3, <1>4, <1>7 DEF NoneForgotten, Pending, Holds, InHand
<1>17. OneTaker'
  BY <1>0, <1>1, <1>4, <1>6, <1>7 DEF OneTaker, Pending, Holds
<1>18. HandlersOK' /\ TrackedRelays'
  BY <1>0, <1>1 DEF HandlersOK, TrackedRelays
<1> QED
  BY <1>8, <1>9, <1>10, <1>11, <1>12, <1>13, <1>14, <1>15, <1>16, <1>17, <1>18 DEF IInv

\* The timer closes what it took out, which nobody else holds.
LEMMA ExpireCloseStep ==
    ASSUME IInv, NEW c \in Conns, ExpireClose(c)
    PROVE  IInv'
<1> USE NoneAssumption
<1>0. /\ TypeOK /\ AcceptorsOK /\ HandlersOK /\ PendingOK /\ UntouchedOK /\ InHandOK /\ TimerOK
      /\ RoomKept /\ PendingBounded /\ NoneForgotten /\ OneTaker /\ TrackedRelays
  BY DEF IInv
<1>1. UNCHANGED <<registered, sessClosed, route, socket, pending, acceptor, origin, announced, data, tracked>>
  BY DEF ExpireClose, sessionVars, connVars
<1>2. timer[c] = "fired"
  BY DEF ExpireClose
<1>3. /\ timer' \in [Conns -> TimerStates]
      /\ \A x \in Conns : timer'[x] = IF x = c THEN "off" ELSE timer[x]
  BY <1>0 DEF ExpireClose, TypeOK, TimerStates
<1>4. /\ public' \in [Conns -> {"none", "open", "closed"}]
      /\ \A x \in Conns : public'[x] = IF x = c THEN "closed" ELSE public[x]
  BY <1>0, PublicCloses DEF ExpireClose
<1>5. /\ c # None
      /\ \A d \in DataConns : ~Holds(d, c)
      /\ \A k \in Listeners : c \notin pending[k] /\ acceptor[k].conn # c
  BY <1>0, <1>2 DEF TimerOK, PendingOK, InHandOK, Pending
<1>6. TypeOK'
  BY <1>0, <1>1, <1>3, <1>4 DEF TypeOK
<1>7. PendingOK'
  BY <1>0, <1>1, <1>3, <1>4, <1>5, Ranges DEF PendingOK
<1>8. UntouchedOK'
  BY <1>0, <1>1, <1>2, <1>3, <1>4 DEF UntouchedOK, InHand
<1>9. InHandOK'
  BY <1>0, <1>1, <1>3, <1>4, <1>5, Ranges DEF InHandOK
<1>10. TimerOK'
  BY <1>0, <1>1, <1>3, <1>4 DEF TimerOK, Pending, Holds
<1>11. NoneForgotten'
  BY <1>0, <1>1, <1>3, <1>4 DEF NoneForgotten, Pending, Holds, InHand
<1>12. OneTaker'
  BY <1>0, <1>1, <1>4, <1>5 DEF OneTaker, Pending, Holds
<1>13. AcceptorsOK' /\ HandlersOK' /\ RoomKept' /\ PendingBounded' /\ TrackedRelays'
  BY <1>0, <1>1 DEF AcceptorsOK, HandlersOK, RoomKept, PendingBounded, TrackedRelays
<1> QED
  BY <1>6, <1>7, <1>8, <1>9, <1>10, <1>11, <1>12, <1>13 DEF IInv

\* The timer takes the connection out, or finds it taken.
LEMMA ExpireStep ==
    ASSUME IInv, NEW c \in Conns, Expire(c)
    PROVE  IInv'
<1> USE NoneAssumption
<1>0. /\ TypeOK /\ AcceptorsOK /\ HandlersOK /\ PendingOK /\ UntouchedOK /\ InHandOK /\ TimerOK
      /\ RoomKept /\ PendingBounded /\ NoneForgotten /\ OneTaker /\ TrackedRelays
  BY DEF IInv
<1>1. UNCHANGED <<registered, sessClosed, route, socket, acceptor, public, origin, announced, data, tracked>>
  BY DEF Expire, sessionVars, connVars
<1>2. timer[c] = "armed" /\ origin[c] \in Listeners
  BY <1>0, Ranges DEF Expire, TimerOK
<1>3. /\ timer' \in [Conns -> TimerStates]
      /\ \A x \in Conns : timer'[x] = IF x = c THEN IF c \in pending[origin[c]] THEN "fired" ELSE "off" ELSE timer[x]
  BY <1>0 DEF Expire, TypeOK, TimerStates
<1>4. /\ pending' \in [Listeners -> SUBSET Conns]
      /\ \A k \in Listeners : pending'[k] = IF k = origin[c] THEN pending[k] \ {c} ELSE pending[k]
  BY <1>0, <1>2, PendingLoses DEF Expire
<1>5. /\ c \in pending[origin[c]] => \A d \in DataConns : ~Holds(d, c)
      /\ \A k \in Listeners : k # origin[c] => c \notin pending[k]
      /\ c \in pending[origin[c]] => public[c] = "open"
  BY <1>0, <1>2 DEF OneTaker, PendingOK, Pending
<1>6. \A x \in Conns : public[x] # "none" => origin[x] \in Listeners
  BY <1>0, Ranges DEF UntouchedOK
<1>7. TypeOK'
  BY <1>0, <1>1, <1>3, <1>4 DEF TypeOK
<1>8. PendingOK'
  BY <1>0, <1>1, <1>3, <1>4 DEF PendingOK
<1>9. UntouchedOK'
  BY <1>0, <1>1, <1>3, <1>5 DEF UntouchedOK, InHand
<1>10. InHandOK'
  BY <1>0, <1>1, <1>2, <1>3, <1>4, Ranges DEF InHandOK
<1>11. TimerOK'
  BY <1>0, <1>1, <1>3, <1>4, <1>5, <1>6 DEF TimerOK, Pending, Holds
<1>12. RoomKept'
  BY <1>0, <1>1, <1>4, FewerPending DEF RoomKept
<1>13. PendingBounded'
  BY <1>0, <1>1, <1>4, FewerPending DEF PendingBounded
<1>14. NoneForgotten'
  BY <1>0, <1>1, <1>2, <1>3, <1>4, <1>6 DEF NoneForgotten, Pending, Holds, InHand
<1>15. OneTaker'
  BY <1>0, <1>1, <1>4, <1>6 DEF OneTaker, Pending, Holds
<1>16. AcceptorsOK' /\ HandlersOK' /\ TrackedRelays'
  BY <1>0, <1>1 DEF AcceptorsOK, HandlersOK, TrackedRelays
<1> QED
  BY <1>7, <1>8, <1>9, <1>10, <1>11, <1>12, <1>13, <1>14, <1>15, <1>16 DEF IInv

\* A client presents an ID it was told.
LEMMA DataHandshakeStep ==
    ASSUME IInv, NEW d \in DataConns, DataHandshake(d)
    PROVE  IInv'
<1> USE NoneAssumption
<1>0. /\ TypeOK /\ AcceptorsOK /\ HandlersOK /\ PendingOK /\ UntouchedOK /\ InHandOK /\ TimerOK
      /\ RoomKept /\ PendingBounded /\ NoneForgotten /\ OneTaker /\ TrackedRelays
  BY DEF IInv
<1>1. UNCHANGED <<registered, sessClosed, route, socket, pending, acceptor, public, origin, timer, announced, tracked>>
  BY DEF DataHandshake, sessionVars, connVars
<1>2. /\ data' \in [DataConns -> Data]
      /\ data'[d].pc = "session" /\ data'[d].id \in announced /\ data'[d].listener = None
      /\ \A e \in DataConns : e # d => data'[e] = data[e]
  <2>1. PICK c \in announced : data' = [data EXCEPT ![d] = [NoData EXCEPT !.pc = "session", !.id = c]]
    BY DEF DataHandshake
  <2>2. /\ [NoData EXCEPT !.pc = "session", !.id = c] \in Data
        /\ [NoData EXCEPT !.pc = "session", !.id = c].pc = "session"
        /\ [NoData EXCEPT !.pc = "session", !.id = c].id = c
        /\ [NoData EXCEPT !.pc = "session", !.id = c].listener = None
    BY <1>0 DEF TypeOK, NoData, Data, DataStates
  <2> QED
    BY <1>0, <2>1, <2>2 DEF TypeOK
<1>3. data[d].pc = "idle" /\ data[d].id = None /\ data'[d].id \in Conns
  BY <1>0, <1>2 DEF DataHandshake, HandlersOK, TypeOK
<1>4. TypeOK'
  BY <1>0, <1>1, <1>2, <1>3 DEF TypeOK
<1>5. HandlersOK'
  BY <1>0, <1>1, <1>2, <1>3 DEF HandlersOK
<1>6. TimerOK'
  BY <1>0, <1>1, <1>2 DEF TimerOK, Pending, Holds
<1>7. NoneForgotten'
  BY <1>0, <1>1, <1>2, <1>3 DEF NoneForgotten, Pending, Holds, InHand
<1>8. OneTaker'
  BY <1>0, <1>1, <1>2 DEF OneTaker, Pending, Holds
<1>9. TrackedRelays'
  BY <1>0, <1>1, <1>2, <1>3 DEF TrackedRelays
<1>10. AcceptorsOK' /\ PendingOK' /\ UntouchedOK' /\ InHandOK' /\ RoomKept' /\ PendingBounded'
  BY <1>0, <1>1 DEF AcceptorsOK, PendingOK, UntouchedOK, InHand, InHandOK, RoomKept,
     PendingBounded
<1> QED
  BY <1>4, <1>5, <1>6, <1>7, <1>8, <1>9, <1>10 DEF IInv

\* The handler reads the listener the route has now.
LEMMA LookUpRouteStep ==
    ASSUME IInv, NEW d \in DataConns, LookUpRoute(d)
    PROVE  IInv'
<1> USE NoneAssumption
<1>0. /\ TypeOK /\ AcceptorsOK /\ HandlersOK /\ PendingOK /\ UntouchedOK /\ InHandOK /\ TimerOK
      /\ RoomKept /\ PendingBounded /\ NoneForgotten /\ OneTaker /\ TrackedRelays
  BY DEF IInv
<1>1. UNCHANGED <<registered, sessClosed, route, socket, pending, acceptor, public, origin, timer, announced, tracked>>
  BY DEF LookUpRoute, sessionVars, connVars
<1>2. data[d].pc = "route"
  BY DEF LookUpRoute
<1>3. /\ data' \in [DataConns -> Data]
      /\ \/ data'[d].pc = "take" /\ data'[d].id = data[d].id /\ data'[d].listener # None
         \/ data'[d].pc = "idle" /\ data'[d].id = None
      /\ \A e \in DataConns : e # d => data'[e] = data[e]
  <2>1. CASE route = None
    <3>1. data' \in [DataConns -> Data]
      BY <1>0, <2>1, DataEnds DEF LookUpRoute
    <3> QED
      BY <1>0, <2>1, <3>1 DEF LookUpRoute, Reject, NoData, TypeOK
  <2>2. CASE route # None
    <3>1. data[d] \in Data
      BY <1>0 DEF TypeOK
    <3>2. /\ [data[d] EXCEPT !.listener = route, !.pc = "take"] \in Data
          /\ [data[d] EXCEPT !.listener = route, !.pc = "take"].pc = "take"
          /\ [data[d] EXCEPT !.listener = route, !.pc = "take"].id = data[d].id
          /\ [data[d] EXCEPT !.listener = route, !.pc = "take"].listener = route
      BY <1>0, <3>1 DEF TypeOK, Data, DataStates
    <3>3. data' = [data EXCEPT ![d] = [data[d] EXCEPT !.listener = route, !.pc = "take"]]
      BY <2>2 DEF LookUpRoute
    <3> QED
      BY <1>0, <2>2, <3>2, <3>3 DEF TypeOK
  <2> QED
    BY <2>1, <2>2
<1>4. TypeOK'
  BY <1>0, <1>1, <1>2, <1>3 DEF TypeOK
<1>5. HandlersOK'
  BY <1>0, <1>1, <1>2, <1>3 DEF HandlersOK
<1>6. TimerOK'
  BY <1>0, <1>1, <1>3 DEF TimerOK, Pending, Holds
<1>7. NoneForgotten'
  BY <1>0, <1>1, <1>2, <1>3 DEF NoneForgotten, Pending, Holds, InHand
<1>8. OneTaker'
  BY <1>0, <1>1, <1>3 DEF OneTaker, Pending, Holds
<1>9. TrackedRelays'
  BY <1>0, <1>1, <1>2, <1>3 DEF TrackedRelays
<1>10. AcceptorsOK' /\ PendingOK' /\ UntouchedOK' /\ InHandOK' /\ RoomKept' /\ PendingBounded'
  BY <1>0, <1>1 DEF AcceptorsOK, PendingOK, UntouchedOK, InHand, InHandOK, RoomKept,
     PendingBounded
<1> QED
  BY <1>4, <1>5, <1>6, <1>7, <1>8, <1>9, <1>10 DEF IInv

\* A taken connection is shown when its relay starts.
LEMMA TrackStep ==
    ASSUME IInv, NEW d \in DataConns, Track(d)
    PROVE  IInv'
<1> USE NoneAssumption
<1>0. /\ TypeOK /\ AcceptorsOK /\ HandlersOK /\ PendingOK /\ UntouchedOK /\ InHandOK /\ TimerOK
      /\ RoomKept /\ PendingBounded /\ NoneForgotten /\ OneTaker /\ TrackedRelays
  BY DEF IInv
<1>1. UNCHANGED <<registered, sessClosed, route, socket, pending, acceptor, public, origin, timer, announced>>
  BY DEF Track, sessionVars, connVars
<1>2. data[d].pc = "track" /\ data[d].id \in Conns /\ data[d].id \in announced
  BY <1>0, Ranges DEF Track, HandlersOK, TypeOK
<1>3. /\ data' \in [DataConns -> Data]
      /\ \A e \in DataConns : /\ data'[e].pc = IF e = d THEN "relay" ELSE data[e].pc
                              /\ data'[e].id = data[e].id
                              /\ data'[e].listener = data[e].listener
  BY <1>0, DataMoves DEF Track, DataStates
<1>4. tracked' = tracked \cup {data[d].id}
  BY DEF Track
<1>5. TypeOK'
  BY <1>0, <1>1, <1>2, <1>3, <1>4 DEF TypeOK
<1>6. HandlersOK'
  BY <1>0, <1>1, <1>2, <1>3 DEF HandlersOK
<1>7. TimerOK'
  BY <1>0, <1>1, <1>2, <1>3 DEF TimerOK, Pending, Holds
<1>8. NoneForgotten'
  BY <1>0, <1>1, <1>3 DEF NoneForgotten, Pending, Holds, InHand
<1>9. OneTaker'
  BY <1>0, <1>1, <1>2, <1>3 DEF OneTaker, Pending, Holds
<1>10. TrackedRelays'
  BY <1>0, <1>3, <1>4 DEF TrackedRelays
<1>11. AcceptorsOK' /\ PendingOK' /\ UntouchedOK' /\ InHandOK' /\ RoomKept' /\ PendingBounded'
  BY <1>0, <1>1 DEF AcceptorsOK, PendingOK, UntouchedOK, InHand, InHandOK, RoomKept,
     PendingBounded
<1> QED
  BY <1>5, <1>6, <1>7, <1>8, <1>9, <1>10, <1>11 DEF IInv

\* The relay that ends leaves the list; no other one has that connection.
LEMMA RelayDoneStep ==
    ASSUME IInv, NEW d \in DataConns, RelayDone(d)
    PROVE  IInv'
<1> USE NoneAssumption
<1>0. /\ TypeOK /\ AcceptorsOK /\ HandlersOK /\ PendingOK /\ UntouchedOK /\ InHandOK /\ TimerOK
      /\ RoomKept /\ PendingBounded /\ NoneForgotten /\ OneTaker /\ TrackedRelays
  BY DEF IInv
<1>1. UNCHANGED <<registered, sessClosed, route, socket, pending, acceptor, public, origin, timer, announced>>
  BY DEF RelayDone, sessionVars, connVars
<1>2. data[d].pc = "relay" /\ data[d].id \in Conns /\ data[d].id \in announced
  BY <1>0, Ranges DEF RelayDone, HandlersOK, TypeOK
<1>3. /\ data' \in [DataConns -> Data]
      /\ \A e \in DataConns : /\ data'[e].pc = IF e = d THEN "end" ELSE data[e].pc
                              /\ data'[e].id = data[e].id
                              /\ data'[e].listener = data[e].listener
  BY <1>0, DataMoves DEF RelayDone, DataStates
<1>4. tracked' = tracked \ {data[d].id}
  BY DEF RelayDone
<1>5. TypeOK'
  BY <1>0, <1>1, <1>3, <1>4 DEF TypeOK
<1>6. HandlersOK'
  BY <1>0, <1>1, <1>2, <1>3 DEF HandlersOK
<1>7. TimerOK'
  BY <1>0, <1>1, <1>2, <1>3 DEF TimerOK, Pending, Holds
<1>8. NoneForgotten'
  BY <1>0, <1>1, <1>3 DEF NoneForgotten, Pending, Holds, InHand
<1>9. OneTaker'
  BY <1>0, <1>1, <1>2, <1>3 DEF OneTaker, Pending, Holds
<1>10. TrackedRelays'
  BY <1>0, <1>3, <1>4 DEF TrackedRelays
<1>11. AcceptorsOK' /\ PendingOK' /\ UntouchedOK' /\ InHandOK' /\ RoomKept' /\ PendingBounded'
  BY <1>0, <1>1 DEF AcceptorsOK, PendingOK, UntouchedOK, InHand, InHandOK, RoomKept,
     PendingBounded
<1> QED
  BY <1>5, <1>6, <1>7, <1>8, <1>9, <1>10, <1>11 DEF IInv

\* The relay closes what it alone holds.
LEMMA RelayCloseStep ==
    ASSUME IInv, NEW d \in DataConns, RelayClose(d)
    PROVE  IInv'
<1> USE NoneAssumption
<1>0. /\ TypeOK /\ AcceptorsOK /\ HandlersOK /\ PendingOK /\ UntouchedOK /\ InHandOK /\ TimerOK
      /\ RoomKept /\ PendingBounded /\ NoneForgotten /\ OneTaker /\ TrackedRelays
  BY DEF IInv
<1>1. UNCHANGED <<registered, sessClosed, route, socket, pending, acceptor, origin, timer, announced, tracked>>
  BY DEF RelayClose, sessionVars, connVars
<1>2. data[d].pc = "end" /\ data[d].id \in Conns /\ data[d].id \in announced
  BY <1>0, Ranges DEF RelayClose, HandlersOK, TypeOK
<1>3. /\ data' \in [DataConns -> Data]
      /\ \A e \in DataConns :
            /\ data'[e].pc = IF e = d THEN "idle" ELSE data[e].pc
            /\ data'[e].id = IF e = d THEN None ELSE data[e].id
            /\ data'[e].listener = IF e = d THEN None ELSE data[e].listener
  BY <1>0, DataEnds DEF RelayClose
<1>4. /\ public' \in [Conns -> {"none", "open", "closed"}]
      /\ \A x \in Conns : public'[x] = IF x = data[d].id THEN "closed" ELSE public[x]
  BY <1>0, <1>2, PublicCloses DEF RelayClose
<1>5. /\ \A e \in DataConns : Holds(e, data[d].id) => e = d
      /\ timer[data[d].id] # "fired"
      /\ \A k \in Listeners : data[d].id \notin pending[k] /\ acceptor[k].conn # data[d].id
  <2>1. Holds(d, data[d].id)
    BY <1>2 DEF Holds
  <2> QED
    BY <1>0, <1>2, <2>1 DEF OneTaker, TimerOK, PendingOK, InHandOK, Pending
<1>6. TypeOK'
  BY <1>0, <1>1, <1>3, <1>4 DEF TypeOK
<1>7. HandlersOK'
  BY <1>0, <1>1, <1>3 DEF HandlersOK
<1>8. PendingOK'
  BY <1>0, <1>1, <1>4, <1>5, Ranges DEF PendingOK
<1>9. UntouchedOK'
  BY <1>0, <1>1, <1>2, <1>4 DEF UntouchedOK, InHand
<1>10. InHandOK'
  BY <1>0, <1>1, <1>4, <1>5, Ranges DEF InHandOK
<1>11. TimerOK'
  BY <1>0, <1>1, <1>3, <1>4, <1>5 DEF TimerOK, Pending, Holds
<1>12. NoneForgotten'
  BY <1>0, <1>1, <1>3, <1>4 DEF NoneForgotten, Pending, Holds, InHand
<1>13. OneTaker'
  BY <1>0, <1>1, <1>3, <1>4, <1>5 DEF OneTaker, Pending, Holds
<1>14. TrackedRelays'
  BY <1>0, <1>1, <1>2, <1>3 DEF TrackedRelays
<1>15. AcceptorsOK' /\ RoomKept' /\ PendingBounded'
  BY <1>0, <1>1 DEF AcceptorsOK, RoomKept, PendingBounded
<1> QED
  BY <1>6, <1>7, <1>8, <1>9, <1>10, <1>11, <1>12, <1>13, <1>14, <1>15 DEF IInv

\* A connection for which there is no room is closed; otherwise there is room for one.
LEMMA OpenPendingStep ==
    ASSUME IInv, NEW l \in Listeners, OpenPending(l)
    PROVE  IInv'
<1> USE NoneAssumption
<1>0. /\ TypeOK /\ AcceptorsOK /\ HandlersOK /\ PendingOK /\ UntouchedOK /\ InHandOK /\ TimerOK
      /\ RoomKept /\ PendingBounded /\ NoneForgotten /\ OneTaker /\ TrackedRelays
  BY DEF IInv
<1>1. UNCHANGED <<registered, sessClosed, route, socket, pending, origin, timer, announced, data, tracked>>
  BY DEF OpenPending, sessionVars, connVars
<1>2. /\ acceptor[l].pc = "check" /\ acceptor[l].conn \in Conns
      /\ acceptor[l].conn # None /\ origin[acceptor[l].conn] = l
  BY <1>0, Ranges DEF OpenPending, AcceptorsOK
<1>3. /\ acceptor[l].conn \notin announced /\ timer[acceptor[l].conn] = "off"
      /\ \A d \in DataConns : data[d].id # acceptor[l].conn
      /\ \A k \in Listeners : k # l => acceptor[k].conn # acceptor[l].conn /\ acceptor[l].conn \notin pending[k]
      /\ acceptor[l].conn \notin pending[l]
  BY <1>0, <1>2 DEF InHandOK, HandlersOK, PendingOK, AcceptorsOK
<1>4. \/ /\ Cardinality(pending[l]) >= MaxPending
         /\ ClosePublic(acceptor[l].conn) /\ acceptor' = [acceptor EXCEPT ![l] = Accepting]
      \/ /\ ~(Cardinality(pending[l]) >= MaxPending)
         /\ acceptor' = [acceptor EXCEPT ![l].pc = "insert"] /\ UNCHANGED public
  BY DEF OpenPending
<1>5. \/ /\ Cardinality(pending[l]) >= MaxPending
         /\ public' \in [Conns -> {"none", "open", "closed"}]
         /\ \A x \in Conns : public'[x] = IF x = acceptor[l].conn THEN "closed" ELSE public[x]
         /\ acceptor' \in [Listeners -> Acceptor]
         /\ \A k \in Listeners :
              /\ acceptor'[k].pc = IF k = l THEN "accept" ELSE acceptor[k].pc
              /\ acceptor'[k].conn = IF k = l THEN None ELSE acceptor[k].conn
      \/ /\ ~(Cardinality(pending[l]) >= MaxPending)
         /\ public' = public
         /\ acceptor' \in [Listeners -> Acceptor]
         /\ \A k \in Listeners :
              /\ acceptor'[k].pc = IF k = l THEN "insert" ELSE acceptor[k].pc
              /\ acceptor'[k].conn = acceptor[k].conn
  <2>1. "insert" \in AcceptorStates /\ "accept" \in AcceptorStates
    BY DEF AcceptorStates
  <2> QED
    BY <1>0, <1>2, <1>4, <2>1, AcceptorMoves, AcceptorIs, PublicCloses DEF Accepting
<1>6. TypeOK'
  BY <1>0, <1>1, <1>5 DEF TypeOK
<1>7. AcceptorsOK'
  BY <1>0, <1>1, <1>2, <1>5 DEF AcceptorsOK
<1>8. PendingOK'
  BY <1>0, <1>1, <1>3, <1>5, Ranges DEF PendingOK
<1>9. UntouchedOK'
  BY <1>0, <1>1, <1>5 DEF UntouchedOK, InHand
<1>10. InHandOK'
  BY <1>0, <1>1, <1>2, <1>3, <1>5, Ranges DEF InHandOK
<1>11. TimerOK'
  BY <1>0, <1>1, <1>3, <1>5 DEF TimerOK, Pending, Holds
<1>12. RoomKept'
  <2>1. /\ \A k \in Listeners : IsFiniteSet(pending[k]) /\ Cardinality(pending[k]) \in Nat
        /\ MaxPending \in Nat
    BY <1>0, FS_CardinalityType, MaxPendingAssumption DEF RoomKept
  <2> QED
    BY <1>0, <1>1, <1>5, <2>1 DEF RoomKept
<1>13. NoneForgotten'
  BY <1>0, <1>1, <1>5 DEF NoneForgotten, Pending, Holds, InHand
<1>14. OneTaker'
  BY <1>0, <1>1, <1>3, <1>5 DEF OneTaker, Pending, Holds
<1>15. HandlersOK' /\ PendingBounded' /\ TrackedRelays'
  BY <1>0, <1>1 DEF HandlersOK, PendingBounded, TrackedRelays
<1> QED
  BY <1>6, <1>7, <1>8, <1>9, <1>10, <1>11, <1>12, <1>13, <1>14, <1>15 DEF IInv

\* Once the ID is sent the timer runs; until then nobody else knows the connection.
LEMMA AnnouncedStep ==
    ASSUME IInv, NEW l \in Listeners, acceptor[l].pc = "announce",
           announced' = announced \cup {acceptor[l].conn},
           timer' = [timer EXCEPT ![acceptor[l].conn] = "armed"],
           acceptor' = [acceptor EXCEPT ![l] = Accepting],
           UNCHANGED <<pending, sessionVars, socket, connVars, data, tracked>>
    PROVE  IInv'
<1> USE NoneAssumption
<1>0. /\ TypeOK /\ AcceptorsOK /\ HandlersOK /\ PendingOK /\ UntouchedOK /\ InHandOK /\ TimerOK
      /\ RoomKept /\ PendingBounded /\ NoneForgotten /\ OneTaker /\ TrackedRelays
  BY DEF IInv
<1>1. UNCHANGED <<registered, sessClosed, route, socket, pending, public, origin, data, tracked>>
  BY DEF sessionVars, connVars
<1>2. /\ acceptor[l].pc = "announce" /\ acceptor[l].conn \in Conns
      /\ acceptor[l].conn # None /\ origin[acceptor[l].conn] = l
  BY <1>0, Ranges DEF AcceptorsOK
<1>3. /\ acceptor[l].conn \notin announced /\ timer[acceptor[l].conn] = "off"
      /\ \A d \in DataConns : data[d].id # acceptor[l].conn
      /\ \A k \in Listeners : k # l => acceptor[k].conn # acceptor[l].conn /\ acceptor[l].conn \notin pending[k]
  BY <1>0, <1>2 DEF InHandOK, HandlersOK, PendingOK, AcceptorsOK
<1>4. announced' = announced \cup {acceptor[l].conn}
  OBVIOUS
<1>5. public[acceptor[l].conn] = "open" => Pending(acceptor[l].conn)
  BY <1>0, <1>2 DEF InHandOK, Pending
<1>6. /\ timer' \in [Conns -> TimerStates]
      /\ \A x \in Conns : timer'[x] = IF x = acceptor[l].conn THEN "armed" ELSE timer[x]
  BY <1>0 DEF TypeOK, TimerStates
<1>7. /\ acceptor' \in [Listeners -> Acceptor]
      /\ \A k \in Listeners : /\ acceptor'[k].pc = IF k = l THEN "accept" ELSE acceptor[k].pc
                              /\ acceptor'[k].conn = IF k = l THEN None ELSE acceptor[k].conn
  BY <1>0, AcceptorIs DEF Accepting, AcceptorStates
<1>8. \A x \in Conns : public[x] # "none" => origin[x] \in Listeners
  BY <1>0, Ranges DEF UntouchedOK
<1>9. TypeOK'
  BY <1>0, <1>1, <1>6, <1>7 DEF TypeOK
<1>10. AcceptorsOK'
  BY <1>0, <1>1, <1>7 DEF AcceptorsOK
<1>11. HandlersOK'
  BY <1>0 DEF HandlersOK
<1>12. PendingOK'
  BY <1>0, <1>1, <1>6 DEF PendingOK
<1>13. UntouchedOK'
  BY <1>0, <1>1, <1>7 DEF UntouchedOK, InHand
<1>14. InHandOK'
  BY <1>0, <1>1, <1>3, <1>7 DEF InHandOK
<1>15. TimerOK'
  BY <1>0, <1>1, <1>2 DEF TimerOK, Pending, Holds
<1>16. RoomKept'
  BY <1>0, <1>7 DEF RoomKept
<1>17. PendingBounded'
  BY <1>0 DEF PendingBounded
<1>18. NoneForgotten'
  BY <1>0, <1>1, <1>5, <1>6 DEF NoneForgotten, Pending, Holds, InHand
<1>19. OneTaker' /\ TrackedRelays'
  BY <1>0, <1>1 DEF OneTaker, Pending, Holds, TrackedRelays
<1> QED
  BY <1>9, <1>10, <1>11, <1>12, <1>13, <1>14, <1>15, <1>16, <1>17, <1>18, <1>19 DEF IInv

\* A connection whose open message could not be sent is taken out again by its accept loop.
LEMMA AnnounceFailedStep ==
    ASSUME IInv, NEW l \in Listeners, acceptor[l].pc = "announce",
           Withdraw(l, acceptor[l].conn),
           acceptor' = [acceptor EXCEPT ![l].pc = "drop"],
           UNCHANGED <<announced, timer, sessionVars, socket, connVars, data, tracked>>
    PROVE  IInv'
<1> USE NoneAssumption
<1>0. /\ TypeOK /\ AcceptorsOK /\ HandlersOK /\ PendingOK /\ UntouchedOK /\ InHandOK /\ TimerOK
      /\ RoomKept /\ PendingBounded /\ NoneForgotten /\ OneTaker /\ TrackedRelays
  BY DEF IInv
<1>1. UNCHANGED <<registered, sessClosed, route, socket, public, origin, timer, announced, data, tracked>>
  BY DEF sessionVars, connVars
<1>2. /\ acceptor[l].pc = "announce" /\ acceptor[l].conn \in Conns
      /\ acceptor[l].conn # None /\ origin[acceptor[l].conn] = l
  BY <1>0, Ranges DEF AcceptorsOK
<1>3. /\ acceptor[l].conn \notin announced /\ timer[acceptor[l].conn] = "off"
      /\ \A d \in DataConns : data[d].id # acceptor[l].conn
      /\ \A k \in Listeners : k # l => acceptor[k].conn # acceptor[l].conn /\ acceptor[l].conn \notin pending[k]
  BY <1>0, <1>2 DEF InHandOK, HandlersOK, PendingOK, AcceptorsOK
<1>4. /\ pending' \in [Listeners -> SUBSET Conns]
      /\ \A k \in Listeners : pending'[k] = IF k = l THEN pending[k] \ {acceptor[l].conn} ELSE pending[k]
  BY <1>0, <1>2, PendingLoses
<1>5. /\ acceptor' \in [Listeners -> Acceptor]
      /\ \A k \in Listeners : /\ acceptor'[k].pc = IF k = l THEN "drop" ELSE acceptor[k].pc
                              /\ acceptor'[k].conn = acceptor[k].conn
  BY <1>0, AcceptorMoves DEF AcceptorStates
<1>6. \A x \in Conns : public[x] # "none" => origin[x] \in Listeners
  BY <1>0, Ranges DEF UntouchedOK
<1>7. TypeOK'
  BY <1>0, <1>1, <1>4, <1>5 DEF TypeOK
<1>8. AcceptorsOK'
  BY <1>0, <1>1 DEF AcceptorsOK
<1>9. PendingOK'
  BY <1>0, <1>1, <1>4 DEF PendingOK
<1>10. UntouchedOK'
  BY <1>0, <1>1 DEF UntouchedOK, InHand
<1>11. InHandOK'
  BY <1>0, <1>1, <1>4, <1>5 DEF InHandOK
<1>12. TimerOK'
  BY <1>0, <1>1, <1>4, Ranges DEF TimerOK, Pending, Holds
<1>13. RoomKept'
  BY <1>0, <1>4, FewerPending DEF RoomKept
<1>14. PendingBounded'
  BY <1>0, <1>4, FewerPending DEF PendingBounded
<1>15. NoneForgotten'
  BY <1>0, <1>1, <1>4, <1>6 DEF NoneForgotten, Pending, Holds, InHand
<1>16. OneTaker'
  BY <1>0, <1>1, <1>4, <1>6 DEF OneTaker, Pending, Holds
<1>17. HandlersOK' /\ TrackedRelays'
  BY <1>0 DEF HandlersOK, TrackedRelays
<1> QED
  BY <1>7, <1>8, <1>9, <1>10, <1>11, <1>12, <1>13, <1>14, <1>15, <1>16, <1>17 DEF IInv

\* The two outcomes of writeControl.
LEMMA AnnounceStep ==
    ASSUME IInv, NEW l \in Listeners, Announce(l)
    PROVE  IInv'
BY AnnouncedStep, AnnounceFailedStep DEF Announce

\* The handler finds the session or gives up.
LEMMA LookUpSessionStep ==
    ASSUME IInv, NEW d \in DataConns, LookUpSession(d)
    PROVE  IInv'
<1> USE NoneAssumption
<1>0. /\ TypeOK /\ AcceptorsOK /\ HandlersOK /\ PendingOK /\ UntouchedOK /\ InHandOK /\ TimerOK
      /\ RoomKept /\ PendingBounded /\ NoneForgotten /\ OneTaker /\ TrackedRelays
  BY DEF IInv
<1>1. UNCHANGED <<registered, sessClosed, route, socket, pending, acceptor, public, origin, timer, announced, tracked>>
  BY DEF LookUpSession, sessionVars, connVars
<1>2. data[d].pc = "session"
  BY DEF LookUpSession
<1>3. /\ data' \in [DataConns -> Data]
      /\ \A e \in DataConns :
           IF e = d /\ ~registered THEN data'[e].pc = "idle" /\ data'[e].id = None
           ELSE /\ data'[e].pc = IF e = d THEN "route" ELSE data[e].pc
                /\ data'[e].id = data[e].id /\ data'[e].listener = data[e].listener
  <2>1. CASE registered
    BY <1>0, <2>1, DataMoves DEF LookUpSession, DataStates
  <2>2. CASE ~registered
    BY <1>0, <2>2, DataEnds DEF LookUpSession
  <2> QED
    BY <2>1, <2>2
<1>4. TypeOK'
  BY <1>0, <1>1, <1>2, <1>3 DEF TypeOK
<1>5. HandlersOK'
  BY <1>0, <1>1, <1>2, <1>3 DEF HandlersOK
<1>6. TimerOK'
  BY <1>0, <1>1, <1>3 DEF TimerOK, Pending, Holds
<1>7. NoneForgotten'
  BY <1>0, <1>1, <1>2, <1>3 DEF NoneForgotten, Pending, Holds, InHand
<1>8. OneTaker'
  BY <1>0, <1>1, <1>3 DEF OneTaker, Pending, Holds
<1>9. TrackedRelays'
  BY <1>0, <1>1, <1>2, <1>3 DEF TrackedRelays
<1>10. AcceptorsOK' /\ PendingOK' /\ UntouchedOK' /\ InHandOK' /\ RoomKept' /\ PendingBounded'
  BY <1>0, <1>1 DEF AcceptorsOK, PendingOK, UntouchedOK, InHand, InHandOK, RoomKept,
     PendingBounded
<1> QED
  BY <1>4, <1>5, <1>6, <1>7, <1>8, <1>9, <1>10 DEF IInv

\* The handler that finds the connection takes it out in the same critical section.
LEMMA TakePendingStep ==
    ASSUME IInv, NEW d \in DataConns, TakePending(d)
    PROVE  IInv'
<1> USE NoneAssumption
<1>0. /\ TypeOK /\ AcceptorsOK /\ HandlersOK /\ PendingOK /\ UntouchedOK /\ InHandOK /\ TimerOK
      /\ RoomKept /\ PendingBounded /\ NoneForgotten /\ OneTaker /\ TrackedRelays
  BY DEF IInv
<1>1. UNCHANGED <<registered, sessClosed, route, socket, acceptor, public, origin, timer, announced, tracked>>
  BY DEF TakePending, sessionVars, connVars
<1>2. data[d].pc = "take" /\ data[d].id \in Conns /\ data[d].id \in announced /\ data[d].listener \in Listeners
  BY <1>0, Ranges DEF TakePending, HandlersOK
<1>3. /\ pending' \in [Listeners -> SUBSET Conns]
      /\ \A k \in Listeners : pending'[k] = IF k = data[d].listener THEN pending[k] \ {data[d].id} ELSE pending[k]
  BY <1>0, <1>2, PendingLoses DEF TakePending
<1>4. /\ data' \in [DataConns -> Data]
      /\ \A e \in DataConns :
           IF e = d /\ data[d].id \notin pending[data[d].listener]
             THEN data'[e].pc = "idle" /\ data'[e].id = None
             ELSE /\ data'[e].pc = IF e = d THEN "reply" ELSE data[e].pc
                  /\ data'[e].id = data[e].id /\ data'[e].listener = data[e].listener
  <2>1. CASE data[d].id \in pending[data[d].listener]
    BY <1>0, <2>1, DataMoves DEF TakePending, DataStates
  <2>2. CASE data[d].id \notin pending[data[d].listener]
    BY <1>0, <2>2, DataEnds DEF TakePending
  <2> QED
    BY <2>1, <2>2
<1>5. data[d].id \in pending[data[d].listener] =>
           /\ origin[data[d].id] = data[d].listener /\ public[data[d].id] = "open"
           /\ Pending(data[d].id)
           /\ timer[data[d].id] # "fired"
           /\ \A e \in DataConns : ~Holds(e, data[d].id)
           /\ \A k \in Listeners : k # data[d].listener => data[d].id \notin pending[k]
  BY <1>0, <1>2 DEF PendingOK, OneTaker, TimerOK, Pending
<1>6. \A x \in Conns : public[x] # "none" => origin[x] \in Listeners
  BY <1>0, Ranges DEF UntouchedOK
<1>7. TypeOK'
  BY <1>0, <1>1, <1>3, <1>4 DEF TypeOK
<1>8. HandlersOK'
  BY <1>0, <1>1, <1>2, <1>4 DEF HandlersOK
<1>9. PendingOK'
  BY <1>0, <1>1, <1>3 DEF PendingOK
<1>10. InHandOK'
  BY <1>0, <1>1, <1>2, <1>3 DEF InHandOK
<1>11. TimerOK'
  BY <1>0, <1>1, <1>3, <1>4, <1>5, Ranges DEF TimerOK, Pending, Holds
<1>12. RoomKept'
  BY <1>0, <1>1, <1>3, FewerPending DEF RoomKept
<1>13. PendingBounded'
  BY <1>0, <1>1, <1>3, FewerPending DEF PendingBounded
<1>14. NoneForgotten'
  BY <1>0, <1>1, <1>2, <1>3, <1>4, <1>6 DEF NoneForgotten, Pending, Holds, InHand
<1>15. OneTaker'
  BY <1>0, <1>1, <1>3, <1>4, <1>5, <1>6 DEF OneTaker, Pending, Holds
<1>16. TrackedRelays'
  BY <1>0, <1>1, <1>2, <1>4 DEF TrackedRelays
<1>17. AcceptorsOK' /\ UntouchedOK'
  BY <1>0, <1>1 DEF AcceptorsOK, UntouchedOK, InHand
<1> QED
  BY <1>7, <1>8, <1>9, <1>10, <1>11, <1>12, <1>13, <1>14, <1>15, <1>16, <1>17 DEF IInv

\* The handler goes on with the connection, or closes it: it is the only one that has it.
LEMMA ReplyStep ==
    ASSUME IInv, NEW d \in DataConns, Reply(d)
    PROVE  IInv'
<1> USE NoneAssumption
<1>0. /\ TypeOK /\ AcceptorsOK /\ HandlersOK /\ PendingOK /\ UntouchedOK /\ InHandOK /\ TimerOK
      /\ RoomKept /\ PendingBounded /\ NoneForgotten /\ OneTaker /\ TrackedRelays
  BY DEF IInv
<1>1. UNCHANGED <<registered, sessClosed, route, socket, pending, acceptor, origin, timer, announced, tracked>>
  BY DEF Reply, sessionVars, connVars
<1>2. data[d].pc = "reply" /\ data[d].id \in Conns /\ data[d].id \in announced
  BY <1>0, Ranges DEF Reply, HandlersOK, TypeOK
<1>3. /\ data' \in [DataConns -> Data]
      /\ public' \in [Conns -> {"none", "open", "closed"}]
      /\ \/ /\ public' = public
            /\ \A e \in DataConns : /\ data'[e].pc = IF e = d THEN "track" ELSE data[e].pc
                                    /\ data'[e].id = data[e].id
         \/ /\ \A x \in Conns : public'[x] = IF x = data[d].id THEN "closed" ELSE public[x]
            /\ \A e \in DataConns : /\ data'[e].pc = IF e = d THEN "idle" ELSE data[e].pc
                                    /\ data'[e].id = IF e = d THEN None ELSE data[e].id
      /\ \A e \in DataConns : e # d => data'[e].listener = data[e].listener
      /\ data'[d].pc # "take"
  <2>1. CASE data' = [data EXCEPT ![d].pc = "track"] /\ UNCHANGED public
    <3>1. "track" \in DataStates
      BY DEF DataStates
    <3>2. /\ data' \in [DataConns -> Data]
          /\ \A e \in DataConns : /\ data'[e].pc = IF e = d THEN "track" ELSE data[e].pc
                                  /\ data'[e].id = data[e].id
                                  /\ data'[e].listener = data[e].listener
      BY <1>0, <2>1, <3>1, DataMoves
    <3> QED
      BY <1>0, <2>1, <3>2 DEF TypeOK
  <2>2. CASE Reject(d) /\ ClosePublic(data[d].id)
    <3>1. /\ data' \in [DataConns -> Data]
          /\ \A e \in DataConns : /\ data'[e].pc = IF e = d THEN "idle" ELSE data[e].pc
                                  /\ data'[e].id = IF e = d THEN None ELSE data[e].id
                                  /\ data'[e].listener = IF e = d THEN None ELSE data[e].listener
      BY <1>0, <2>2, DataEnds
    <3>2. /\ public' \in [Conns -> {"none", "open", "closed"}]
          /\ \A x \in Conns : public'[x] = IF x = data[d].id THEN "closed" ELSE public[x]
      BY <1>0, <1>2, <2>2, PublicCloses
    <3> QED
      BY <3>1, <3>2
  <2> QED
    BY <2>1, <2>2 DEF Reply
<1>4. /\ \A e \in DataConns : Holds(e, data[d].id) => e = d
      /\ timer[data[d].id] # "fired"
      /\ \A k \in Listeners : data[d].id \notin pending[k] /\ acceptor[k].conn # data[d].id
  <2>1. Holds(d, data[d].id)
    BY <1>2 DEF Holds
  <2> QED
    BY <1>0, <1>2, <2>1 DEF OneTaker, TimerOK, PendingOK, InHandOK, Pending
<1>5. TypeOK'
  BY <1>0, <1>1, <1>3 DEF TypeOK
<1>6. HandlersOK'
  BY <1>0, <1>1, <1>2, <1>3 DEF HandlersOK
<1>7. PendingOK'
  BY <1>0, <1>1, <1>3, <1>4, Ranges DEF PendingOK
<1>8. UntouchedOK'
  BY <1>0, <1>1, <1>2, <1>3 DEF UntouchedOK, InHand
<1>9. InHandOK'
  BY <1>0, <1>1, <1>3, <1>4, Ranges DEF InHandOK
<1>10. TimerOK'
  BY <1>0, <1>1, <1>3, <1>4 DEF TimerOK, Pending, Holds
<1>11. NoneForgotten'
  BY <1>0, <1>1, <1>3 DEF NoneForgotten, Pending, Holds, InHand
<1>12. OneTaker'
  BY <1>0, <1>1, <1>2, <1>3 DEF OneTaker, Pending, Holds
<1>13. TrackedRelays'
  BY <1>0, <1>1, <1>2, <1>3 DEF TrackedRelays
<1>14. AcceptorsOK' /\ RoomKept' /\ PendingBounded'
  BY <1>0, <1>1 DEF AcceptorsOK, RoomKept, PendingBounded
<1> QED
  BY <1>5, <1>6, <1>7, <1>8, <1>9, <1>10, <1>11, <1>12, <1>13, <1>14 DEF IInv

\* The closer of the listener closes what is pending there, which nobody has taken.
LEMMA ClearPendingStep ==
    ASSUME IInv, NEW l \in Listeners, ClearPending(l)
    PROVE  IInv'
<1> USE NoneAssumption
<1>0. /\ TypeOK /\ AcceptorsOK /\ HandlersOK /\ PendingOK /\ UntouchedOK /\ InHandOK /\ TimerOK
      /\ RoomKept /\ PendingBounded /\ NoneForgotten /\ OneTaker /\ TrackedRelays
  BY DEF IInv
<1>1. UNCHANGED <<registered, sessClosed, route, acceptor, origin, timer, announced, data, tracked>>
  BY DEF ClearPending, sessionVars, connVars
<1>2. /\ socket' \in [Listeners -> {"unused", "open", "shut", "closed"}]
  BY <1>0 DEF ClearPending, TypeOK
<1>3. /\ public' \in [Conns -> {"none", "open", "closed"}]
      /\ \A x \in Conns : public'[x] = IF x \in pending[l] THEN "closed" ELSE public[x]
  BY <1>0 DEF ClearPending, TypeOK
<1>4. /\ pending' \in [Listeners -> SUBSET Conns]
      /\ \A k \in Listeners : pending'[k] = IF k = l THEN {} ELSE pending[k]
  BY <1>0 DEF ClearPending, TypeOK
<1>5. \A x \in pending[l] :
        /\ origin[x] = l /\ public[x] = "open" /\ Pending(x) /\ timer[x] # "fired"
        /\ \A e \in DataConns : ~Holds(e, x)
        /\ \A k \in Listeners : k # l => x \notin pending[k]
        /\ \A k \in Listeners : acceptor[k].conn = x => acceptor[k].pc = "announce"
  BY <1>0, Ranges DEF PendingOK, OneTaker, TimerOK, Pending, InHandOK, AcceptorsOK
<1>6. \A x \in Conns : public[x] # "none" => origin[x] \in Listeners
  BY <1>0, Ranges DEF UntouchedOK
<1>7. TypeOK'
  BY <1>0, <1>1, <1>2, <1>3, <1>4 DEF TypeOK
<1>8. PendingOK'
  BY <1>0, <1>1, <1>3, <1>4 DEF PendingOK
<1>9. UntouchedOK'
  BY <1>0, <1>1, <1>3, <1>5 DEF UntouchedOK, InHand
<1>10. InHandOK'
  BY <1>0, <1>1, <1>3, <1>4, <1>5, Ranges DEF InHandOK
<1>11. TimerOK'
  BY <1>0, <1>1, <1>3, <1>4, <1>5, Ranges DEF TimerOK, Pending, Holds
<1>12. RoomKept'
  BY <1>0, <1>1, <1>4, FewerPending DEF RoomKept
<1>13. PendingBounded'
  BY <1>0, <1>1, <1>4, FewerPending DEF PendingBounded
<1>14. NoneForgotten'
  BY <1>0, <1>1, <1>3, <1>4, <1>6 DEF NoneForgotten, Pending, Holds, InHand
<1>15. OneTaker'
  BY <1>0, <1>1, <1>3, <1>4, <1>5, <1>6 DEF OneTaker, Pending, Holds
<1>16. AcceptorsOK' /\ HandlersOK' /\ TrackedRelays'
  BY <1>0, <1>1 DEF AcceptorsOK, HandlersOK, TrackedRelays
<1> QED
  BY <1>7, <1>8, <1>9, <1>10, <1>11, <1>12, <1>13, <1>14, <1>15, <1>16 DEF IInv

\* Closing the server takes connections off the list only.
LEMMA CloseServerStep == IInv /\ CloseServer => IInv'
<1> SUFFICES ASSUME IInv, CloseServer PROVE IInv'
  OBVIOUS
<1>1. UNCHANGED <<sessClosed, route, socket, pending, acceptor, public, origin, timer, announced, data>>
  BY DEF CloseServer, connVars
<1>2. registered' = FALSE /\ tracked' = {}
  BY DEF CloseServer
<1>3. TypeOK'
  BY <1>1, <1>2 DEF IInv, TypeOK
<1>4. AcceptorsOK' /\ HandlersOK' /\ PendingOK' /\ UntouchedOK' /\ InHandOK'
  BY <1>1 DEF IInv, AcceptorsOK, HandlersOK, PendingOK, UntouchedOK, InHandOK, InHand
<1>5. TimerOK' /\ RoomKept' /\ PendingBounded' /\ NoneForgotten' /\ OneTaker'
  BY <1>1 DEF IInv, TimerOK, RoomKept, PendingBounded, NoneForgotten, OneTaker, Pending, Holds,
     InHand
<1> QED
  BY <1>2, <1>3, <1>4, <1>5 DEF IInv, TrackedRelays

\* The steps that only look at the connections, or do not look at them at all.
Bystanders ==
    /\ TypeOK'
    /\ UNCHANGED <<pending, acceptor, public, origin, timer, announced, data, tracked>>

\* They keep what the invariant says of the connections.
LEMMA BystandersKeep == IInv /\ Bystanders => IInv'
<1> SUFFICES ASSUME IInv, Bystanders PROVE IInv'
  OBVIOUS
<1>1. UNCHANGED <<pending, acceptor, public, origin, timer, announced, data, tracked>>
  BY DEF Bystanders
<1>2. AcceptorsOK' /\ HandlersOK' /\ PendingOK' /\ UntouchedOK' /\ InHandOK' /\ TrackedRelays'
  BY <1>1 DEF IInv, AcceptorsOK, HandlersOK, PendingOK, UntouchedOK, InHandOK, InHand,
     TrackedRelays
<1>3. TimerOK' /\ RoomKept' /\ PendingBounded' /\ NoneForgotten' /\ OneTaker'
  BY <1>1 DEF IInv, TimerOK, RoomKept, PendingBounded, NoneForgotten, OneTaker, Pending, Holds,
     InHand
<1> QED
  BY <1>2, <1>3 DEF IInv, Bystanders

\* The listener and the session come and go beside the connections.
LEMMA OthersAreBystanders ==
    ASSUME TypeOK,
           \/ \E l \in Listeners : Expose(l) \/ Shut(l) \/ Unpublish(l)
           \/ Unregister \/ CloseSession \/ UNCHANGED vars
    PROVE  Bystanders
<1> USE DEF Bystanders, TypeOK, sessionVars, connVars
<1>1. ASSUME NEW l \in Listeners, Expose(l) PROVE Bystanders
  BY <1>1 DEF Expose
<1>2. ASSUME NEW l \in Listeners, Shut(l) PROVE Bystanders
  BY <1>2 DEF Shut
<1>3. ASSUME NEW l \in Listeners, Unpublish(l) PROVE Bystanders
  BY <1>3 DEF Unpublish
<1>4. CASE Unregister
  BY <1>4 DEF Unregister
<1>5. CASE CloseSession
  BY <1>5 DEF CloseSession
<1>6. CASE UNCHANGED vars
  BY <1>6 DEF vars
<1> QED
  BY <1>1, <1>2, <1>3, <1>4, <1>5, <1>6

\* The inductive invariant holds at the start,
LEMMA InitIInv == Init => IInv
<1> SUFFICES ASSUME Init PROVE IInv
  OBVIOUS
<1> USE NoneAssumption DEF Init
<1>1. TypeOK
  BY DEF TypeOK, Acceptor, AcceptorStates, Accepting, Data, DataStates, NoData, TimerStates
<1>2. /\ \A l \in Listeners : acceptor[l].pc = "accept" /\ acceptor[l].conn = None /\ pending[l] = {}
      /\ \A d \in DataConns : data[d].pc = "idle" /\ data[d].id = None
  BY DEF Accepting, NoData
<1>3. AcceptorsOK /\ HandlersOK /\ PendingOK /\ UntouchedOK /\ InHandOK /\ TimerOK
  BY <1>2 DEF AcceptorsOK, HandlersOK, PendingOK, UntouchedOK, InHandOK, InHand, TimerOK
<1>4. Cardinality({}) = 0 /\ IsFiniteSet({}) /\ MaxPending \in Nat /\ MaxPending # 0
  BY FS_EmptySet, MaxPendingAssumption
<1>5. RoomKept /\ PendingBounded
  BY <1>2, <1>4 DEF RoomKept, PendingBounded
<1>6. NoneForgotten /\ OneTaker /\ TrackedRelays
  BY <1>2 DEF NoneForgotten, OneTaker, TrackedRelays, Holds
<1> QED
  BY <1>1, <1>3, <1>5, <1>6 DEF IInv

\* is kept by every step,
LEMMA NextIInv == IInv /\ [Next]_vars => IInv'
<1> SUFFICES ASSUME IInv, [Next]_vars PROVE IInv'
  OBVIOUS
<1>1. ASSUME NEW l \in Listeners, Accept(l) \/ OpenPublic(l) \/ ClearPending(l) PROVE IInv'
  BY <1>1, AcceptStep, OpenPendingStep, InsertPendingStep, AnnounceStep, DropStep,
     ClearPendingStep DEF OpenPublic
<1>2. ASSUME NEW c \in Conns, Expire(c) \/ ExpireClose(c) PROVE IInv'
  BY <1>2, ExpireStep, ExpireCloseStep
<1>3. ASSUME NEW d \in DataConns, DataHandshake(d) \/ HandleDataConn(d) \/ RelayDone(d) PROVE IInv'
  BY <1>3, DataHandshakeStep, LookUpSessionStep, LookUpRouteStep, TakePendingStep, ReplyStep,
     TrackStep, RelayDoneStep, RelayCloseStep DEF HandleDataConn
<1>4. CASE CloseServer
  BY <1>4, CloseServerStep
<1>5. CASE \/ \E l \in Listeners : Expose(l) \/ Shut(l) \/ Unpublish(l)
           \/ Unregister \/ CloseSession \/ UNCHANGED vars
  BY <1>5, OthersAreBystanders, BystandersKeep DEF IInv
<1> QED
  BY <1>1, <1>2, <1>3, <1>4, <1>5 DEF Next

\* and so holds always.
LEMMA InductiveInvariant == Spec => []IInv
BY InitIInv, NextIInv, PTL DEF Spec

\* A listener never has more pending connections than MaxPendingConnections, although
\* openPendingConnection counts them in one critical section and adds one in the next;
\* the list of active sessions shows only connections that are relayed.
THEOREM DataPathIsSafe == Spec => []DataSafe
<1>1. IInv => DataSafe
  BY DEF IInv, DataSafe
<1> QED
  BY <1>1, InductiveInvariant, PTL

\* Every public connection the server has not closed is in somebody's hands: the accept
\* loop's, a data handler's, the timer's, or pending with its timer running, whenever the
\* route or the session goes away.
THEOREM NoConnectionIsForgotten == Spec => []NoneForgotten
<1>1. IInv => NoneForgotten
  BY DEF IInv
<1> QED
  BY <1>1, InductiveInvariant, PTL

\* However many data connections present the ID of one public connection, and whenever
\* its timer fires or its listener is closed, takePending gives it to one of them, and
\* until that one is done nobody else closes it.
THEOREM OneTakerOnly == Spec => []OneTaker
<1>1. IInv => OneTaker
  BY DEF IInv
<1> QED
  BY <1>1, InductiveInvariant, PTL
=============================================================================
