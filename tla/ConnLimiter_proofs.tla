------------------------- MODULE ConnLimiter_proofs -------------------------
(***************************************************************************)
(* The limiter keeps its capacity, drains and overcharges nobody, for any  *)
(* finite set of connections and any addresses, limiters, counters and     *)
(* configurations.                                                         *)
(*                                                                         *)
(* What makes the properties inductive is that semaphore and total count   *)
(* exactly the connections that are at certain steps (SlotsCounted,        *)
(* TotalCounted): the receive in Refund finds a token, the one in          *)
(* ReleaseGlobal does, and the total never becomes negative.  It takes     *)
(* that neither limit is ever 0 (LimitsSet).  The counter of an address    *)
(* is not exact, because it may be deleted while an Acquire holds it, and  *)
(* may even be below zero.  But it is at most the number of the            *)
(* connections that the address may be charged for (ChargesBound), which   *)
(* takes that a counter object is never in two places (OneHome).           *)
(***************************************************************************)
EXTENDS ConnLimiter, FiniteSetTheorems, TLAPS

\* Neither limit is ever switched off, so what a connection took it gives back.
LimitsSet ==
    /\ saved.max > 0 /\ saved.perIP > 0 /\ cfg.max > 0 /\ cfg.perIP > 0
    /\ reload.stage # "none" => reload.max > 0 /\ reload.perIP > 0
    /\ \A c \in Conns : conn[c].pc \notin {"idle", "acquire"} => conn[c].max > 0

\* What a connection refers to.
ConnsOK ==
    \A c \in Conns :
        /\ conn[c].pc = "idle" <=> conn[c].limiter = None
        /\ conn[c].pc \in {"add", "rollback", "subtract"} => conn[c].counter \in Counters

SlotStates == {"load", "add", "rollback", "refund", "count", "hold",
               "subtract", "delete", "release"}
CountedStates == {"hold", "subtract", "delete", "release", "signal"}

\* The connections that have put a token into the semaphore of a limiter, and those that
\* are in its total.
Slots(l)   == {c \in Conns : conn[c].limiter = l /\ conn[c].pc \in SlotStates}
Counted(l) == {c \in Conns : conn[c].limiter = l /\ conn[c].pc \in CountedStates}

\* A semaphore and a total count exactly their connections.
SlotsCounted == \A l \in Limiters : sem[l] = Cardinality(Slots(l))
TotalCounted == \A l \in Limiters : total[l] = Cardinality(Counted(l))

\* A counter object has one place, and who refers to it belongs there.
OneHome ==
    /\ \A l, m \in Limiters : \A i, j \in IPs :
          counter[l][i] # None /\ counter[l][i] = counter[m][j] => l = m /\ i = j
    /\ \A l \in Limiters, i \in IPs, c \in Conns :
          /\ conn[c].pc \in {"add", "rollback", "subtract"}
          /\ conn[c].counter = counter[l][i]
          => conn[c].limiter = l /\ IPOf[c] = i

\* The connections an address may still be charged for: those that hold a slot, whatever
\* counter they were added to, and those that are about to subtract from its counter.
Charges(l, i) ==
    {c \in Conns :
        /\ conn[c].limiter = l /\ IPOf[c] = i
        /\ \/ conn[c].pc \in {"count", "hold"}
           \/ conn[c].pc \in {"rollback", "subtract"} /\ conn[c].counter = counter[l][i]}

\* The counter of an address is at most their number.
ChargesBound ==
    \A l \in Limiters, i \in IPs :
        counter[l][i] # None => value[counter[l][i]] <= Cardinality(Charges(l, i))

\* The inductive invariant.
IInv ==
    /\ TypeOK /\ LimitsSet /\ ConnsOK /\ SlotsCounted /\ TotalCounted /\ OneHome
    /\ ChargesBound

-----------------------------------------------------------------------------
(* Counting connections *)

\* What the types say of single connections and objects.
LEMMA Ranges ==
    TypeOK =>
      /\ \A c \in Conns : /\ conn[c].pc \in ConnStates
                          /\ conn[c].limiter \in Limiters \cup {None}
                          /\ conn[c].counter \in Counters \cup {None}
                          /\ conn[c].max \in Nat /\ conn[c].perIP \in Nat
      /\ \A l \in Limiters : sem[l] \in Nat /\ cap[l] \in Nat /\ total[l] \in Nat
      /\ \A l \in Limiters, i \in IPs : counter[l][i] \in Counters \cup {None}
      /\ \A k \in Counters : value[k] \in Int
      /\ cfg.max \in Nat /\ cfg.perIP \in Nat
BY DEF TypeOK, Conn

\* Two sets of connections that differ in one connection at most.
LEMMA OneMoves ==
    ASSUME NEW S \in SUBSET Conns, NEW T \in SUBSET Conns, NEW c \in Conns,
           \A d \in Conns : d # c => (d \in S <=> d \in T)
    PROVE  /\ Cardinality(S) \in Nat /\ Cardinality(T) \in Nat
           /\ (c \in S <=> c \in T) => Cardinality(T) = Cardinality(S)
           /\ c \in T /\ c \notin S => Cardinality(T) = Cardinality(S) + 1
           /\ c \in S /\ c \notin T => Cardinality(S) = Cardinality(T) + 1
<1>1. IsFiniteSet(S) /\ IsFiniteSet(T)
  BY ConnsAssumption, FS_Subset
<1>2. Cardinality(S) \in Nat /\ Cardinality(T) \in Nat
  BY <1>1, FS_CardinalityType
<1>3. (c \in S <=> c \in T) => T = S
  OBVIOUS
<1>4. ASSUME c \in T, c \notin S
      PROVE  Cardinality(T) = Cardinality(S) + 1
  <2>1. T = S \cup {c}
    BY <1>4
  <2> QED
    BY <1>1, <1>4, <2>1, FS_AddElement
<1>5. ASSUME c \in S, c \notin T
      PROVE  Cardinality(S) = Cardinality(T) + 1
  <2>1. S = T \cup {c}
    BY <1>5
  <2> QED
    BY <1>1, <1>5, <2>1, FS_AddElement
<1> QED
  BY <1>2, <1>3, <1>4, <1>5

\* A step of one connection changes the counts of slots by what the connection does.
LEMMA SlotsMove ==
    ASSUME NEW c \in Conns, \A d \in Conns : d # c => conn'[d] = conn[d], NEW l \in Limiters
    PROVE  /\ Cardinality(Slots(l)) \in Nat /\ Cardinality(Slots(l))' \in Nat
           /\ (c \in Slots(l) <=> c \in Slots(l)')
                 => Cardinality(Slots(l))' = Cardinality(Slots(l))
           /\ c \in Slots(l)' /\ c \notin Slots(l)
                 => Cardinality(Slots(l))' = Cardinality(Slots(l)) + 1
           /\ c \in Slots(l) /\ c \notin Slots(l)'
                 => Cardinality(Slots(l)) = Cardinality(Slots(l))' + 1
<1>1. \A d \in Conns : d # c => (d \in Slots(l) <=> d \in Slots(l)')
  BY DEF Slots
<1>2. Slots(l) \in SUBSET Conns /\ Slots(l)' \in SUBSET Conns
  BY DEF Slots
<1> QED
  BY <1>1, <1>2, OneMoves

LEMMA CountedMove ==
    ASSUME NEW c \in Conns, \A d \in Conns : d # c => conn'[d] = conn[d], NEW l \in Limiters
    PROVE  /\ Cardinality(Counted(l)) \in Nat /\ Cardinality(Counted(l))' \in Nat
           /\ (c \in Counted(l) <=> c \in Counted(l)')
                 => Cardinality(Counted(l))' = Cardinality(Counted(l))
           /\ c \in Counted(l)' /\ c \notin Counted(l)
                 => Cardinality(Counted(l))' = Cardinality(Counted(l)) + 1
           /\ c \in Counted(l) /\ c \notin Counted(l)'
                 => Cardinality(Counted(l)) = Cardinality(Counted(l))' + 1
<1>1. \A d \in Conns : d # c => (d \in Counted(l) <=> d \in Counted(l)')
  BY DEF Counted
<1>2. Counted(l) \in SUBSET Conns /\ Counted(l)' \in SUBSET Conns
  BY DEF Counted
<1> QED
  BY <1>1, <1>2, OneMoves

LEMMA ChargesMove ==
    ASSUME NEW c \in Conns, \A d \in Conns : d # c => conn'[d] = conn[d],
           NEW l \in Limiters, NEW i \in IPs, counter'[l][i] = counter[l][i]
    PROVE  /\ Cardinality(Charges(l, i)) \in Nat /\ Cardinality(Charges(l, i))' \in Nat
           /\ (c \in Charges(l, i) <=> c \in Charges(l, i)')
                 => Cardinality(Charges(l, i))' = Cardinality(Charges(l, i))
           /\ c \in Charges(l, i)' /\ c \notin Charges(l, i)
                 => Cardinality(Charges(l, i))' = Cardinality(Charges(l, i)) + 1
           /\ c \in Charges(l, i) /\ c \notin Charges(l, i)'
                 => Cardinality(Charges(l, i)) = Cardinality(Charges(l, i))' + 1
<1>1. \A d \in Conns : d # c => (d \in Charges(l, i) <=> d \in Charges(l, i)')
  BY DEF Charges
<1>2. Charges(l, i) \in SUBSET Conns /\ Charges(l, i)' \in SUBSET Conns
  BY DEF Charges
<1> QED
  BY <1>1, <1>2, OneMoves

\* A set with a member has a cardinality other than 0.
LEMMA SlotsNotEmpty ==
    ASSUME NEW l, NEW c \in Slots(l)
    PROVE  Cardinality(Slots(l)) # 0
<1>1. IsFiniteSet(Slots(l))
  BY ConnsAssumption, FS_Subset DEF Slots
<1> QED
  BY <1>1, FS_EmptySet

LEMMA CountedNotEmpty ==
    ASSUME NEW l, NEW c \in Counted(l)
    PROVE  Cardinality(Counted(l)) # 0
<1>1. IsFiniteSet(Counted(l))
  BY ConnsAssumption, FS_Subset DEF Counted
<1> QED
  BY <1>1, FS_EmptySet

\* LoadOrStore stores counter k.
Loads(c, k) ==
    /\ conn[c].pc = "load" /\ k \in FreshCounters
    /\ counter' = [counter EXCEPT ![conn[c].limiter][IPOf[c]] = k]
    /\ value' = [value EXCEPT ![k] = 0]
    /\ conn' = [conn EXCEPT ![c].counter = k, ![c].pc = "add"]
    /\ UNCHANGED <<configVars, current, limiterVars>>

\* A reload makes a limiter of object n.
Recreates(n) ==
    /\ \A c \in Conns : conn[c].limiter # n
    /\ current' = n
    /\ cap' = [cap EXCEPT ![n] = Capacity(cfg.max)]
    /\ sem' = [sem EXCEPT ![n] = 0]
    /\ total' = [total EXCEPT ![n] = 0]
    /\ counter' = [counter EXCEPT ![n] = [i \in IPs |-> None]]
    /\ reload' = NoReload
    /\ UNCHANGED <<saved, cfg, value, conn>>

-----------------------------------------------------------------------------
(* Every action keeps the invariant *)

\* A connection that enters holds nothing yet.
LEMMA EnterStep ==
    ASSUME IInv, NEW c \in Conns, Enter(c)
    PROVE  IInv'
<1> USE NoneAssumption, IPAssumption
<1>0. TypeOK /\ LimitsSet /\ ConnsOK /\ SlotsCounted /\ TotalCounted /\ OneHome /\ ChargesBound
  BY DEF IInv
<1>1. UNCHANGED <<saved, cfg, reload, current, cap, sem, total, counter, value>>
  BY DEF Enter, configVars, limiterVars, counterVars
<1>2. conn[c].pc = "idle" /\ conn[c].limiter = None /\ current \in Limiters
  BY <1>0 DEF Enter, ConnsOK, TypeOK
<1>3. /\ conn' \in [Conns -> Conn] /\ \A d \in Conns : d # c => conn'[d] = conn[d]
      /\ conn'[c].pc = "acquire"
      /\ conn'[c].limiter = current
      /\ conn'[c].counter = None
      /\ conn'[c].max = 0
  <2> DEFINE new == [NoConn EXCEPT !.pc = "acquire", !.limiter = current]
  <2>1. /\ new \in Conn /\ new.pc = "acquire" /\ new.limiter = current /\ new.counter = None
        /\ new.max = 0
    BY <1>2 DEF NoConn, Conn, ConnStates
  <2>2. conn' = [conn EXCEPT ![c] = new]
    BY DEF Enter
  <2> HIDE DEF new
  <2> QED
    BY <1>0, <2>1, <2>2 DEF TypeOK
<1>4. TypeOK'
  BY <1>0, <1>1, <1>2, <1>3 DEF TypeOK
<1>5. LimitsSet'
  BY <1>0, <1>1, <1>2, <1>3, Ranges DEF LimitsSet
<1>6. ConnsOK'
  BY <1>0, <1>1, <1>2, <1>3, Ranges DEF ConnsOK
<1>7. SlotsCounted'
  <2>1. ASSUME NEW l \in Limiters
        PROVE  sem'[l] = Cardinality(Slots(l))'
    <3>1. /\ c \in Slots(l) <=> conn[c].limiter = l /\ conn[c].pc \in SlotStates
          /\ c \in Slots(l)' <=> conn'[c].limiter = l /\ conn'[c].pc \in SlotStates
      BY DEF Slots
    <3> QED
      BY <1>0, <1>1, <1>2, <1>3, <3>1, SlotsMove, Ranges DEF SlotsCounted, SlotStates
  <2> QED
    BY <2>1 DEF SlotsCounted
<1>8. TotalCounted'
  <2>1. ASSUME NEW l \in Limiters
        PROVE  total'[l] = Cardinality(Counted(l))'
    <3>1. /\ c \in Counted(l) <=> conn[c].limiter = l /\ conn[c].pc \in CountedStates
          /\ c \in Counted(l)' <=> conn'[c].limiter = l /\ conn'[c].pc \in CountedStates
      BY DEF Counted
    <3> QED
      BY <1>0, <1>1, <1>2, <1>3, <3>1, CountedMove, Ranges DEF TotalCounted, CountedStates
  <2> QED
    BY <2>1 DEF TotalCounted
<1>9. OneHome'
  BY <1>0, <1>1, <1>2, <1>3, Ranges DEF OneHome
<1>10. ChargesBound'
  <2>1. ASSUME NEW l \in Limiters, NEW i \in IPs, counter'[l][i] # None
        PROVE  value'[counter'[l][i]] <= Cardinality(Charges(l, i))'
    <3>1. /\ c \in Charges(l, i) <=>
                /\ conn[c].limiter = l /\ IPOf[c] = i
                /\ \/ conn[c].pc \in {"count", "hold"}
                   \/ conn[c].pc \in {"rollback", "subtract"} /\ conn[c].counter = counter[l][i]
          /\ c \in Charges(l, i)' <=>
                /\ conn'[c].limiter = l /\ IPOf[c] = i
                /\ \/ conn'[c].pc \in {"count", "hold"}
                   \/ conn'[c].pc \in {"rollback", "subtract"} /\ conn'[c].counter = counter'[l][i]
      BY DEF Charges
    <3>2. counter[l][i] # None => value[counter[l][i]] <= Cardinality(Charges(l, i))
      BY <1>0 DEF ChargesBound
    <3> QED
      BY <1>0, <1>1, <1>2, <1>3, <2>1, <3>1, <3>2, ChargesMove, Ranges DEF OneHome
  <2> QED
    BY <2>1 DEF ChargesBound
<1> QED
  BY <1>4, <1>5, <1>6, <1>7, <1>8, <1>9, <1>10 DEF IInv

\* A connection that finds the semaphore full goes away.
LEMMA AcquireRefused ==
    ASSUME IInv, NEW c \in Conns, AcquireGlobal(c), sem[conn[c].limiter] = cap[conn[c].limiter]
    PROVE  IInv'
<1> USE NoneAssumption, IPAssumption
<1>0. TypeOK /\ LimitsSet /\ ConnsOK /\ SlotsCounted /\ TotalCounted /\ OneHome /\ ChargesBound
  BY DEF IInv
<1>1. UNCHANGED <<saved, cfg, reload, current, cap, sem, total, counter, value>>
  BY <1>0 DEF AcquireGlobal, Drop, LimitsSet, configVars, counterVars
<1>2. conn[c].pc = "acquire" /\ conn[c].limiter \in Limiters
  BY <1>0, Ranges DEF AcquireGlobal, ConnsOK
<1>3. /\ conn' \in [Conns -> Conn] /\ \A d \in Conns : d # c => conn'[d] = conn[d]
      /\ conn'[c].pc = "idle"
      /\ conn'[c].limiter = None
      /\ conn'[c].counter = None
      /\ conn'[c].max = 0
  <2>1. NoConn \in Conn
    BY DEF NoConn, Conn, ConnStates
  <2>2. conn' = [conn EXCEPT ![c] = NoConn]
    BY <1>0 DEF AcquireGlobal, Drop, LimitsSet
  <2> QED
    BY <1>0, <2>1, <2>2 DEF TypeOK, NoConn
<1>4. TypeOK'
  BY <1>0, <1>1, <1>2, <1>3 DEF TypeOK
<1>5. LimitsSet'
  BY <1>0, <1>1, <1>2, <1>3, Ranges DEF LimitsSet
<1>6. ConnsOK'
  BY <1>0, <1>1, <1>2, <1>3, Ranges DEF ConnsOK
<1>7. SlotsCounted'
  <2>1. ASSUME NEW l \in Limiters
        PROVE  sem'[l] = Cardinality(Slots(l))'
    <3>1. /\ c \in Slots(l) <=> conn[c].limiter = l /\ conn[c].pc \in SlotStates
          /\ c \in Slots(l)' <=> conn'[c].limiter = l /\ conn'[c].pc \in SlotStates
      BY DEF Slots
    <3> QED
      BY <1>0, <1>1, <1>2, <1>3, <3>1, SlotsMove, Ranges DEF SlotsCounted, SlotStates
  <2> QED
    BY <2>1 DEF SlotsCounted
<1>8. TotalCounted'
  <2>1. ASSUME NEW l \in Limiters
        PROVE  total'[l] = Cardinality(Counted(l))'
    <3>1. /\ c \in Counted(l) <=> conn[c].limiter = l /\ conn[c].pc \in CountedStates
          /\ c \in Counted(l)' <=> conn'[c].limiter = l /\ conn'[c].pc \in CountedStates
      BY DEF Counted
    <3> QED
      BY <1>0, <1>1, <1>2, <1>3, <3>1, CountedMove, Ranges DEF TotalCounted, CountedStates
  <2> QED
    BY <2>1 DEF TotalCounted
<1>9. OneHome'
  BY <1>0, <1>1, <1>2, <1>3, Ranges DEF OneHome
<1>10. ChargesBound'
  <2>1. ASSUME NEW l \in Limiters, NEW i \in IPs, counter'[l][i] # None
        PROVE  value'[counter'[l][i]] <= Cardinality(Charges(l, i))'
    <3>1. /\ c \in Charges(l, i) <=>
                /\ conn[c].limiter = l /\ IPOf[c] = i
                /\ \/ conn[c].pc \in {"count", "hold"}
                   \/ conn[c].pc \in {"rollback", "subtract"} /\ conn[c].counter = counter[l][i]
          /\ c \in Charges(l, i)' <=>
                /\ conn'[c].limiter = l /\ IPOf[c] = i
                /\ \/ conn'[c].pc \in {"count", "hold"}
                   \/ conn'[c].pc \in {"rollback", "subtract"} /\ conn'[c].counter = counter'[l][i]
      BY DEF Charges
    <3>2. counter[l][i] # None => value[counter[l][i]] <= Cardinality(Charges(l, i))
      BY <1>0 DEF ChargesBound
    <3> QED
      BY <1>0, <1>1, <1>2, <1>3, <2>1, <3>1, <3>2, ChargesMove, Ranges DEF OneHome
  <2> QED
    BY <2>1 DEF ChargesBound
<1> QED
  BY <1>4, <1>5, <1>6, <1>7, <1>8, <1>9, <1>10 DEF IInv

\* Another one puts a token into it.
LEMMA AcquireTaken ==
    ASSUME IInv, NEW c \in Conns, AcquireGlobal(c), sem[conn[c].limiter] # cap[conn[c].limiter]
    PROVE  IInv'
<1> USE NoneAssumption, IPAssumption
<1>0. TypeOK /\ LimitsSet /\ ConnsOK /\ SlotsCounted /\ TotalCounted /\ OneHome /\ ChargesBound
  BY DEF IInv
<1>1. UNCHANGED <<saved, cfg, reload, current, cap, total, counter, value>>
  BY DEF AcquireGlobal, configVars, counterVars
<1>2. conn[c].pc = "acquire" /\ conn[c].limiter \in Limiters /\ cfg.max > 0 /\ cfg.perIP > 0
  BY <1>0, Ranges DEF AcquireGlobal, LimitsSet, ConnsOK
<1>3. /\ sem' \in [Limiters -> Nat]
      /\ \A m \in Limiters : sem'[m] = IF m = conn[c].limiter THEN sem[m] + 1 ELSE sem[m]
      /\ sem[conn[c].limiter] < cap[conn[c].limiter]
  <2>1. sem' = [sem EXCEPT ![conn[c].limiter] = @ + 1]
    BY <1>2 DEF AcquireGlobal
  <2>2. /\ sem[conn[c].limiter] \in Nat /\ cap[conn[c].limiter] \in Nat
        /\ sem[conn[c].limiter] <= cap[conn[c].limiter]
    BY <1>0, <1>2 DEF TypeOK
  <2>3. sem' \in [Limiters -> Nat]
    BY <1>0, <1>2, <2>1, <2>2 DEF TypeOK
  <2>4. \A m \in Limiters : sem'[m] = IF m = conn[c].limiter THEN sem[m] + 1 ELSE sem[m]
    BY <1>0, <1>2, <2>1 DEF TypeOK
  <2> QED
    BY <2>2, <2>3, <2>4
<1>4. /\ conn' \in [Conns -> Conn] /\ \A d \in Conns : d # c => conn'[d] = conn[d]
      /\ conn'[c].pc = "load"
      /\ conn'[c].limiter = conn[c].limiter
      /\ conn'[c].counter = conn[c].counter
      /\ conn'[c].max = cfg.max
  <2>1. conn[c] \in Conn /\ conn \in [Conns -> Conn] /\ cfg.max \in Nat /\ cfg.perIP \in Nat
    BY <1>0 DEF TypeOK
  <2>2. conn' = [conn EXCEPT ![c].max = cfg.max, ![c].perIP = cfg.perIP, ![c].pc = "load"]
    BY <1>2 DEF AcquireGlobal
  <2> QED
    BY <2>1, <2>2 DEF Conn, ConnStates
<1>5. TypeOK'
  BY <1>0, <1>1, <1>2, <1>3, <1>4 DEF TypeOK
<1>6. LimitsSet'
  BY <1>0, <1>1, <1>2, <1>3, <1>4, Ranges DEF LimitsSet
<1>7. ConnsOK'
  BY <1>0, <1>1, <1>2, <1>3, <1>4, Ranges DEF ConnsOK
<1>8. SlotsCounted'
  <2>1. ASSUME NEW l \in Limiters
        PROVE  sem'[l] = Cardinality(Slots(l))'
    <3>1. /\ c \in Slots(l) <=> conn[c].limiter = l /\ conn[c].pc \in SlotStates
          /\ c \in Slots(l)' <=> conn'[c].limiter = l /\ conn'[c].pc \in SlotStates
      BY DEF Slots
    <3> QED
      BY <1>0, <1>1, <1>2, <1>3, <1>4, <3>1, SlotsMove, Ranges DEF SlotsCounted, SlotStates
  <2> QED
    BY <2>1 DEF SlotsCounted
<1>9. TotalCounted'
  <2>1. ASSUME NEW l \in Limiters
        PROVE  total'[l] = Cardinality(Counted(l))'
    <3>1. /\ c \in Counted(l) <=> conn[c].limiter = l /\ conn[c].pc \in CountedStates
          /\ c \in Counted(l)' <=> conn'[c].limiter = l /\ conn'[c].pc \in CountedStates
      BY DEF Counted
    <3> QED
      BY <1>0, <1>1, <1>2, <1>3, <1>4, <3>1, CountedMove, Ranges DEF TotalCounted, CountedStates
  <2> QED
    BY <2>1 DEF TotalCounted
<1>10. OneHome'
  BY <1>0, <1>1, <1>2, <1>3, <1>4, Ranges DEF OneHome
<1>11. ChargesBound'
  <2>1. ASSUME NEW l \in Limiters, NEW i \in IPs, counter'[l][i] # None
        PROVE  value'[counter'[l][i]] <= Cardinality(Charges(l, i))'
    <3>1. /\ c \in Charges(l, i) <=>
                /\ conn[c].limiter = l /\ IPOf[c] = i
                /\ \/ conn[c].pc \in {"count", "hold"}
                   \/ conn[c].pc \in {"rollback", "subtract"} /\ conn[c].counter = counter[l][i]
          /\ c \in Charges(l, i)' <=>
                /\ conn'[c].limiter = l /\ IPOf[c] = i
                /\ \/ conn'[c].pc \in {"count", "hold"}
                   \/ conn'[c].pc \in {"rollback", "subtract"} /\ conn'[c].counter = counter'[l][i]
      BY DEF Charges
    <3>2. counter[l][i] # None => value[counter[l][i]] <= Cardinality(Charges(l, i))
      BY <1>0 DEF ChargesBound
    <3> QED
      BY <1>0, <1>1, <1>2, <1>3, <1>4, <2>1, <3>1, <3>2, ChargesMove, Ranges DEF OneHome
  <2> QED
    BY <2>1 DEF ChargesBound
<1> QED
  BY <1>5, <1>6, <1>7, <1>8, <1>9, <1>10, <1>11 DEF IInv

\* A connection finds the counter of its address.
LEMMA LoadKnown ==
    ASSUME IInv, NEW c \in Conns, LoadCounter(c), counter[conn[c].limiter][IPOf[c]] # None
    PROVE  IInv'
<1> USE NoneAssumption, IPAssumption
<1>0. TypeOK /\ LimitsSet /\ ConnsOK /\ SlotsCounted /\ TotalCounted /\ OneHome /\ ChargesBound
  BY DEF IInv
<1>1. UNCHANGED <<saved, cfg, reload, current, cap, sem, total, counter, value>>
  BY DEF LoadCounter, configVars, limiterVars, counterVars
<1>2. conn[c].pc = "load" /\ conn[c].limiter \in Limiters
  BY <1>0, Ranges DEF LoadCounter, ConnsOK
<1>3. /\ conn' \in [Conns -> Conn] /\ \A d \in Conns : d # c => conn'[d] = conn[d]
      /\ conn'[c].pc = "add"
      /\ conn'[c].limiter = conn[c].limiter
      /\ conn'[c].counter = counter[conn[c].limiter][IPOf[c]]
      /\ conn'[c].max = conn[c].max
  <2>1. conn[c] \in Conn /\ conn \in [Conns -> Conn]
    BY <1>0 DEF TypeOK
  <2>2. /\ counter[conn[c].limiter][IPOf[c]] \in Counters \cup {None}
        /\ conn' = [conn EXCEPT ![c].counter = counter[conn[c].limiter][IPOf[c]], ![c].pc = "add"]
    BY <1>0, <1>2, Ranges DEF LoadCounter
  <2> QED
    BY <2>1, <2>2 DEF Conn, ConnStates
<1>4. TypeOK'
  BY <1>0, <1>1, <1>2, <1>3 DEF TypeOK
<1>5. LimitsSet'
  BY <1>0, <1>1, <1>2, <1>3, Ranges DEF LimitsSet
<1>6. ConnsOK'
  BY <1>0, <1>1, <1>2, <1>3, Ranges DEF ConnsOK
<1>7. SlotsCounted'
  <2>1. ASSUME NEW l \in Limiters
        PROVE  sem'[l] = Cardinality(Slots(l))'
    <3>1. /\ c \in Slots(l) <=> conn[c].limiter = l /\ conn[c].pc \in SlotStates
          /\ c \in Slots(l)' <=> conn'[c].limiter = l /\ conn'[c].pc \in SlotStates
      BY DEF Slots
    <3> QED
      BY <1>0, <1>1, <1>2, <1>3, <3>1, SlotsMove, Ranges DEF SlotsCounted, SlotStates
  <2> QED
    BY <2>1 DEF SlotsCounted
<1>8. TotalCounted'
  <2>1. ASSUME NEW l \in Limiters
        PROVE  total'[l] = Cardinality(Counted(l))'
    <3>1. /\ c \in Counted(l) <=> conn[c].limiter = l /\ conn[c].pc \in CountedStates
          /\ c \in Counted(l)' <=> conn'[c].limiter = l /\ conn'[c].pc \in CountedStates
      BY DEF Counted
    <3> QED
      BY <1>0, <1>1, <1>2, <1>3, <3>1, CountedMove, Ranges DEF TotalCounted, CountedStates
  <2> QED
    BY <2>1 DEF TotalCounted
<1>9. OneHome'
  BY <1>0, <1>1, <1>2, <1>3, Ranges DEF OneHome
<1>10. ChargesBound'
  <2>1. ASSUME NEW l \in Limiters, NEW i \in IPs, counter'[l][i] # None
        PROVE  value'[counter'[l][i]] <= Cardinality(Charges(l, i))'
    <3>1. /\ c \in Charges(l, i) <=>
                /\ conn[c].limiter = l /\ IPOf[c] = i
                /\ \/ conn[c].pc \in {"count", "hold"}
                   \/ conn[c].pc \in {"rollback", "subtract"} /\ conn[c].counter = counter[l][i]
          /\ c \in Charges(l, i)' <=>
                /\ conn'[c].limiter = l /\ IPOf[c] = i
                /\ \/ conn'[c].pc \in {"count", "hold"}
                   \/ conn'[c].pc \in {"rollback", "subtract"} /\ conn'[c].counter = counter'[l][i]
      BY DEF Charges
    <3>2. counter[l][i] # None => value[counter[l][i]] <= Cardinality(Charges(l, i))
      BY <1>0 DEF ChargesBound
    <3> QED
      BY <1>0, <1>1, <1>2, <1>3, <2>1, <3>1, <3>2, ChargesMove, Ranges DEF OneHome
  <2> QED
    BY <2>1 DEF ChargesBound
<1> QED
  BY <1>4, <1>5, <1>6, <1>7, <1>8, <1>9, <1>10 DEF IInv

\* Or it enters a new one, which nobody refers to.
LEMMA LoadNew ==
    ASSUME IInv, NEW c \in Conns, NEW k \in Counters, Loads(c, k)
    PROVE  IInv'
<1> USE NoneAssumption, IPAssumption
<1>0. TypeOK /\ LimitsSet /\ ConnsOK /\ SlotsCounted /\ TotalCounted /\ OneHome /\ ChargesBound
  BY DEF IInv
<1>1. UNCHANGED <<saved, cfg, reload, current, cap, sem, total>>
  BY DEF Loads, configVars, limiterVars
<1>2. /\ conn[c].pc = "load"
      /\ conn[c].limiter \in Limiters
      /\ \A d \in Conns : conn[d].counter # k
      /\ \A m \in Limiters, j \in IPs : counter[m][j] # k
  BY <1>0, Ranges DEF Loads, FreshCounters, ConnsOK
<1>3. /\ counter' \in [Limiters -> [IPs -> Counters \cup {None}]]
      /\ \A m \in Limiters, j \in IPs :
           counter'[m][j] = IF m = conn[c].limiter /\ j = IPOf[c] THEN k ELSE counter[m][j]
  BY <1>0, <1>2 DEF Loads, TypeOK
<1>4. /\ value' \in [Counters -> Int]
      /\ \A m \in Counters : value'[m] = IF m = k THEN 0 ELSE value[m]
  BY <1>0, <1>2 DEF Loads, TypeOK
<1>5. /\ conn' \in [Conns -> Conn] /\ \A d \in Conns : d # c => conn'[d] = conn[d]
      /\ conn'[c].pc = "add"
      /\ conn'[c].limiter = conn[c].limiter
      /\ conn'[c].counter = k
      /\ conn'[c].max = conn[c].max
  <2>1. conn[c] \in Conn /\ conn \in [Conns -> Conn]
    BY <1>0 DEF TypeOK
  <2> QED
    BY <1>0, <2>1 DEF Loads, Conn, ConnStates
<1>6. TypeOK'
  BY <1>0, <1>1, <1>2, <1>3, <1>4, <1>5 DEF TypeOK
<1>7. LimitsSet'
  BY <1>0, <1>1, <1>2, <1>3, <1>4, <1>5, Ranges DEF LimitsSet
<1>8. ConnsOK'
  BY <1>0, <1>1, <1>2, <1>3, <1>4, <1>5, Ranges DEF ConnsOK
<1>9. SlotsCounted'
  <2>1. ASSUME NEW l \in Limiters
        PROVE  sem'[l] = Cardinality(Slots(l))'
    <3>1. /\ c \in Slots(l) <=> conn[c].limiter = l /\ conn[c].pc \in SlotStates
          /\ c \in Slots(l)' <=> conn'[c].limiter = l /\ conn'[c].pc \in SlotStates
      BY DEF Slots
    <3> QED
      BY <1>0, <1>1, <1>2, <1>3, <1>4, <1>5, <3>1, SlotsMove, Ranges DEF SlotsCounted, SlotStates
  <2> QED
    BY <2>1 DEF SlotsCounted
<1>10. TotalCounted'
  <2>1. ASSUME NEW l \in Limiters
        PROVE  total'[l] = Cardinality(Counted(l))'
    <3>1. /\ c \in Counted(l) <=> conn[c].limiter = l /\ conn[c].pc \in CountedStates
          /\ c \in Counted(l)' <=> conn'[c].limiter = l /\ conn'[c].pc \in CountedStates
      BY DEF Counted
    <3> QED
      BY <1>0, <1>1, <1>2, <1>3, <1>4, <1>5, <3>1, CountedMove, Ranges DEF TotalCounted,
         CountedStates
  <2> QED
    BY <2>1 DEF TotalCounted
<1>11. OneHome'
  <2>1. ASSUME NEW l \in Limiters, NEW m \in Limiters, NEW i \in IPs, NEW j \in IPs,
               counter'[l][i] # None, counter'[l][i] = counter'[m][j]
        PROVE  l = m /\ i = j
    <3>1. counter'[l][i] = k <=> l = conn[c].limiter /\ i = IPOf[c]
      BY <1>2, <1>3
    <3>2. counter'[m][j] = k <=> m = conn[c].limiter /\ j = IPOf[c]
      BY <1>2, <1>3
    <3>3. CASE counter'[l][i] = k
      BY <2>1, <3>1, <3>2, <3>3
    <3>4. CASE counter'[l][i] # k
      BY <1>0, <1>3, <2>1, <3>1, <3>2, <3>4 DEF OneHome
    <3> QED
      BY <3>3, <3>4
  <2>2. ASSUME NEW l \in Limiters, NEW i \in IPs, NEW d \in Conns,
               conn'[d].pc \in {"add", "rollback", "subtract"}, conn'[d].counter = counter'[l][i]
        PROVE  conn'[d].limiter = l /\ IPOf[d] = i
    <3>1. counter'[l][i] = k <=> l = conn[c].limiter /\ i = IPOf[c]
      BY <1>2, <1>3
    <3>2. CASE d = c
      BY <1>5, <2>2, <3>1, <3>2
    <3>3. CASE d # c
      <4>1. conn'[d] = conn[d] /\ counter'[l][i] # k
        BY <1>2, <1>5, <2>2, <3>3
      <4> QED
        BY <1>0, <1>3, <2>2, <3>1, <4>1 DEF OneHome
    <3> QED
      BY <3>2, <3>3
  <2> QED
    BY <2>1, <2>2 DEF OneHome
<1>12. ChargesBound'
  <2>1. ASSUME NEW l \in Limiters, NEW i \in IPs, counter'[l][i] # None
        PROVE  value'[counter'[l][i]] <= Cardinality(Charges(l, i))'
    <3>1. /\ c \in Charges(l, i) <=>
                /\ conn[c].limiter = l /\ IPOf[c] = i
                /\ \/ conn[c].pc \in {"count", "hold"}
                   \/ conn[c].pc \in {"rollback", "subtract"} /\ conn[c].counter = counter[l][i]
          /\ c \in Charges(l, i)' <=>
                /\ conn'[c].limiter = l /\ IPOf[c] = i
                /\ \/ conn'[c].pc \in {"count", "hold"}
                   \/ conn'[c].pc \in {"rollback", "subtract"} /\ conn'[c].counter = counter'[l][i]
      BY DEF Charges
    <3>2. counter[l][i] # None => value[counter[l][i]] <= Cardinality(Charges(l, i))
      BY <1>0 DEF ChargesBound
    <3>3. CASE l = conn[c].limiter /\ i = IPOf[c]
      <4>1. Charges(l, i)' \in SUBSET Conns
        BY DEF Charges
      <4>2. Cardinality(Charges(l, i))' \in Nat
        BY <4>1, OneMoves
      <4> QED
        BY <1>0, <1>2, <1>3, <1>4, <3>3, <4>2
    <3>4. CASE ~(l = conn[c].limiter /\ i = IPOf[c])
      <4>1. counter'[l][i] = counter[l][i] /\ value'[counter[l][i]] = value[counter[l][i]]
        BY <1>0, <1>2, <1>3, <1>4, <2>1, <3>4, Ranges
      <4> QED
        BY <1>0, <1>1, <1>2, <1>3, <1>4, <1>5, <2>1, <3>1, <3>2, <3>4, <4>1, ChargesMove, Ranges
           DEF OneHome
    <3> QED
      BY <3>3, <3>4
  <2> QED
    BY <2>1 DEF ChargesBound
<1> QED
  BY <1>6, <1>7, <1>8, <1>9, <1>10, <1>11, <1>12 DEF IInv

\* The count is charged to whatever object was loaded.
LEMMA AddCounterStep ==
    ASSUME IInv, NEW c \in Conns, AddCounter(c)
    PROVE  IInv'
<1> USE NoneAssumption, IPAssumption
<1>0. TypeOK /\ LimitsSet /\ ConnsOK /\ SlotsCounted /\ TotalCounted /\ OneHome /\ ChargesBound
  BY DEF IInv
<1>1. UNCHANGED <<saved, cfg, reload, current, cap, sem, total, counter>>
  BY DEF AddCounter, configVars, limiterVars, counterVars
<1>2. conn[c].pc = "add" /\ conn[c].limiter \in Limiters /\ conn[c].counter \in Counters
  BY <1>0, Ranges DEF AddCounter, ConnsOK
<1>3. /\ value' \in [Counters -> Int]
      /\ \A m \in Counters : value'[m] = IF m = conn[c].counter THEN value[m] + 1 ELSE value[m]
  <2>1. value' = [value EXCEPT ![conn[c].counter] = @ + 1] /\ value \in [Counters -> Int]
    BY <1>0 DEF AddCounter, TypeOK
  <2> QED
    BY <1>2, <2>1
<1>4. /\ conn' \in [Conns -> Conn] /\ \A d \in Conns : d # c => conn'[d] = conn[d]
      /\ conn'[c].limiter = conn[c].limiter /\ conn'[c].max = conn[c].max
      /\ \/ conn'[c].pc = "rollback" /\ conn'[c].counter = conn[c].counter
         \/ conn'[c].pc = "count" /\ conn'[c].counter = None
  <2>1. conn[c] \in Conn /\ conn \in [Conns -> Conn]
    BY <1>0 DEF TypeOK
  <2> QED
    BY <1>0, <2>1 DEF AddCounter, Conn, ConnStates
<1>5. TypeOK'
  BY <1>0, <1>1, <1>2, <1>3, <1>4 DEF TypeOK
<1>6. LimitsSet'
  BY <1>0, <1>1, <1>2, <1>3, <1>4, Ranges DEF LimitsSet
<1>7. ConnsOK'
  BY <1>0, <1>1, <1>2, <1>3, <1>4, Ranges DEF ConnsOK
<1>8. SlotsCounted'
  <2>1. ASSUME NEW l \in Limiters
        PROVE  sem'[l] = Cardinality(Slots(l))'
    <3>1. /\ c \in Slots(l) <=> conn[c].limiter = l /\ conn[c].pc \in SlotStates
          /\ c \in Slots(l)' <=> conn'[c].limiter = l /\ conn'[c].pc \in SlotStates
      BY DEF Slots
    <3> QED
      BY <1>0, <1>1, <1>2, <1>3, <1>4, <3>1, SlotsMove, Ranges DEF SlotsCounted, SlotStates
  <2> QED
    BY <2>1 DEF SlotsCounted
<1>9. TotalCounted'
  <2>1. ASSUME NEW l \in Limiters
        PROVE  total'[l] = Cardinality(Counted(l))'
    <3>1. /\ c \in Counted(l) <=> conn[c].limiter = l /\ conn[c].pc \in CountedStates
          /\ c \in Counted(l)' <=> conn'[c].limiter = l /\ conn'[c].pc \in CountedStates
      BY DEF Counted
    <3> QED
      BY <1>0, <1>1, <1>2, <1>3, <1>4, <3>1, CountedMove, Ranges DEF TotalCounted, CountedStates
  <2> QED
    BY <2>1 DEF TotalCounted
<1>10. OneHome'
  BY <1>0, <1>1, <1>2, <1>3, <1>4, Ranges DEF OneHome
<1>11. ChargesBound'
  <2>1. ASSUME NEW l \in Limiters, NEW i \in IPs, counter'[l][i] # None
        PROVE  value'[counter'[l][i]] <= Cardinality(Charges(l, i))'
    <3>1. /\ c \in Charges(l, i) <=>
                /\ conn[c].limiter = l /\ IPOf[c] = i
                /\ \/ conn[c].pc \in {"count", "hold"}
                   \/ conn[c].pc \in {"rollback", "subtract"} /\ conn[c].counter = counter[l][i]
          /\ c \in Charges(l, i)' <=>
                /\ conn'[c].limiter = l /\ IPOf[c] = i
                /\ \/ conn'[c].pc \in {"count", "hold"}
                   \/ conn'[c].pc \in {"rollback", "subtract"} /\ conn'[c].counter = counter'[l][i]
      BY DEF Charges
    <3>2. counter[l][i] # None => value[counter[l][i]] <= Cardinality(Charges(l, i))
      BY <1>0 DEF ChargesBound
    <3> QED
      BY <1>0, <1>1, <1>2, <1>3, <1>4, <2>1, <3>1, <3>2, ChargesMove, Ranges DEF OneHome
  <2> QED
    BY <2>1 DEF ChargesBound
<1> QED
  BY <1>5, <1>6, <1>7, <1>8, <1>9, <1>10, <1>11 DEF IInv

\* What is taken back was charged, to this object or to one that is gone.
LEMMA RollbackStep ==
    ASSUME IInv, NEW c \in Conns, Rollback(c)
    PROVE  IInv'
<1> USE NoneAssumption, IPAssumption
<1>0. TypeOK /\ LimitsSet /\ ConnsOK /\ SlotsCounted /\ TotalCounted /\ OneHome /\ ChargesBound
  BY DEF IInv
<1>1. UNCHANGED <<saved, cfg, reload, current, cap, sem, total, counter>>
  BY DEF Rollback, configVars, limiterVars, counterVars
<1>2. conn[c].pc = "rollback" /\ conn[c].limiter \in Limiters /\ conn[c].counter \in Counters
  BY <1>0, Ranges DEF Rollback, ConnsOK
<1>3. /\ value' \in [Counters -> Int]
      /\ \A m \in Counters : value'[m] = IF m = conn[c].counter THEN value[m] - 1 ELSE value[m]
  <2>1. value' = [value EXCEPT ![conn[c].counter] = @ - 1] /\ value \in [Counters -> Int]
    BY <1>0 DEF Rollback, TypeOK
  <2> QED
    BY <1>2, <2>1
<1>4. /\ conn' \in [Conns -> Conn] /\ \A d \in Conns : d # c => conn'[d] = conn[d]
      /\ conn'[c].pc = "refund"
      /\ conn'[c].limiter = conn[c].limiter
      /\ conn'[c].counter = None
      /\ conn'[c].max = conn[c].max
  <2>1. conn[c] \in Conn /\ conn \in [Conns -> Conn]
    BY <1>0 DEF TypeOK
  <2> QED
    BY <1>0, <2>1 DEF Rollback, Conn, ConnStates
<1>5. TypeOK'
  BY <1>0, <1>1, <1>2, <1>3, <1>4 DEF TypeOK
<1>6. LimitsSet'
  BY <1>0, <1>1, <1>2, <1>3, <1>4, Ranges DEF LimitsSet
<1>7. ConnsOK'
  BY <1>0, <1>1, <1>2, <1>3, <1>4, Ranges DEF ConnsOK
<1>8. SlotsCounted'
  <2>1. ASSUME NEW l \in Limiters
        PROVE  sem'[l] = Cardinality(Slots(l))'
    <3>1. /\ c \in Slots(l) <=> conn[c].limiter = l /\ conn[c].pc \in SlotStates
          /\ c \in Slots(l)' <=> conn'[c].limiter = l /\ conn'[c].pc \in SlotStates
      BY DEF Slots
    <3> QED
      BY <1>0, <1>1, <1>2, <1>3, <1>4, <3>1, SlotsMove, Ranges DEF SlotsCounted, SlotStates
  <2> QED
    BY <2>1 DEF SlotsCounted
<1>9. TotalCounted'
  <2>1. ASSUME NEW l \in Limiters
        PROVE  total'[l] = Cardinality(Counted(l))'
    <3>1. /\ c \in Counted(l) <=> conn[c].limiter = l /\ conn[c].pc \in CountedStates
          /\ c \in Counted(l)' <=> conn'[c].limiter = l /\ conn'[c].pc \in CountedStates
      BY DEF Counted
    <3> QED
      BY <1>0, <1>1, <1>2, <1>3, <1>4, <3>1, CountedMove, Ranges DEF TotalCounted, CountedStates
  <2> QED
    BY <2>1 DEF TotalCounted
<1>10. OneHome'
  BY <1>0, <1>1, <1>2, <1>3, <1>4, Ranges DEF OneHome
<1>11. ChargesBound'
  <2>1. ASSUME NEW l \in Limiters, NEW i \in IPs, counter'[l][i] # None
        PROVE  value'[counter'[l][i]] <= Cardinality(Charges(l, i))'
    <3>1. /\ c \in Charges(l, i) <=>
                /\ conn[c].limiter = l /\ IPOf[c] = i
                /\ \/ conn[c].pc \in {"count", "hold"}
                   \/ conn[c].pc \in {"rollback", "subtract"} /\ conn[c].counter = counter[l][i]
          /\ c \in Charges(l, i)' <=>
                /\ conn'[c].limiter = l /\ IPOf[c] = i
                /\ \/ conn'[c].pc \in {"count", "hold"}
                   \/ conn'[c].pc \in {"rollback", "subtract"} /\ conn'[c].counter = counter'[l][i]
      BY DEF Charges
    <3>2. counter[l][i] # None => value[counter[l][i]] <= Cardinality(Charges(l, i))
      BY <1>0 DEF ChargesBound
    <3> QED
      BY <1>0, <1>1, <1>2, <1>3, <1>4, <2>1, <3>1, <3>2, ChargesMove, Ranges DEF OneHome
  <2> QED
    BY <2>1 DEF ChargesBound
<1> QED
  BY <1>5, <1>6, <1>7, <1>8, <1>9, <1>10, <1>11 DEF IInv

\* A refused connection takes its token back.
LEMMA RefundStep ==
    ASSUME IInv, NEW c \in Conns, Refund(c)
    PROVE  IInv'
<1> USE NoneAssumption, IPAssumption
<1>0. TypeOK /\ LimitsSet /\ ConnsOK /\ SlotsCounted /\ TotalCounted /\ OneHome /\ ChargesBound
  BY DEF IInv
<1>1. UNCHANGED <<saved, cfg, reload, current, cap, total, counter, value>>
  BY DEF Refund, Drop, configVars, counterVars
<1>2. conn[c].pc = "refund" /\ conn[c].limiter \in Limiters
  BY <1>0, Ranges DEF Refund, ConnsOK
<1>3. sem[conn[c].limiter] > 0 /\ conn[c].max > 0
  <2>1. c \in Slots(conn[c].limiter)
    BY <1>2 DEF Slots, SlotStates
  <2>2. sem[conn[c].limiter] # 0
    BY <1>0, <1>2, <2>1, SlotsNotEmpty DEF SlotsCounted
  <2> QED
    BY <1>0, <1>2, <2>2, Ranges DEF LimitsSet
<1>4. /\ sem' \in [Limiters -> Nat]
      /\ \A m \in Limiters : sem'[m] = IF m = conn[c].limiter THEN sem[m] - 1 ELSE sem[m]
  <2>1. sem' = [sem EXCEPT ![conn[c].limiter] = @ - 1]
    BY <1>2, <1>3 DEF Refund
  <2> QED
    BY <1>0, <1>2, <1>3, <2>1 DEF TypeOK
<1>5. /\ conn' \in [Conns -> Conn] /\ \A d \in Conns : d # c => conn'[d] = conn[d]
      /\ conn'[c].pc = "idle"
      /\ conn'[c].limiter = None
      /\ conn'[c].counter = None
      /\ conn'[c].max = 0
  <2>1. NoConn \in Conn
    BY DEF NoConn, Conn, ConnStates
  <2> QED
    BY <1>0, <2>1 DEF Refund, Drop, TypeOK, NoConn
<1>6. TypeOK'
  BY <1>0, <1>1, <1>2, <1>3, <1>4, <1>5 DEF TypeOK
<1>7. LimitsSet'
  BY <1>0, <1>1, <1>2, <1>3, <1>4, <1>5, Ranges DEF LimitsSet
<1>8. ConnsOK'
  BY <1>0, <1>1, <1>2, <1>3, <1>4, <1>5, Ranges DEF ConnsOK
<1>9. SlotsCounted'
  <2>1. ASSUME NEW l \in Limiters
        PROVE  sem'[l] = Cardinality(Slots(l))'
    <3>1. /\ c \in Slots(l) <=> conn[c].limiter = l /\ conn[c].pc \in SlotStates
          /\ c \in Slots(l)' <=> conn'[c].limiter = l /\ conn'[c].pc \in SlotStates
      BY DEF Slots
    <3> QED
      BY <1>0, <1>1, <1>2, <1>3, <1>4, <1>5, <3>1, SlotsMove, Ranges DEF SlotsCounted, SlotStates
  <2> QED
    BY <2>1 DEF SlotsCounted
<1>10. TotalCounted'
  <2>1. ASSUME NEW l \in Limiters
        PROVE  total'[l] = Cardinality(Counted(l))'
    <3>1. /\ c \in Counted(l) <=> conn[c].limiter = l /\ conn[c].pc \in CountedStates
          /\ c \in Counted(l)' <=> conn'[c].limiter = l /\ conn'[c].pc \in CountedStates
      BY DEF Counted
    <3> QED
      BY <1>0, <1>1, <1>2, <1>3, <1>4, <1>5, <3>1, CountedMove, Ranges DEF TotalCounted,
         CountedStates
  <2> QED
    BY <2>1 DEF TotalCounted
<1>11. OneHome'
  BY <1>0, <1>1, <1>2, <1>3, <1>4, <1>5, Ranges DEF OneHome
<1>12. ChargesBound'
  <2>1. ASSUME NEW l \in Limiters, NEW i \in IPs, counter'[l][i] # None
        PROVE  value'[counter'[l][i]] <= Cardinality(Charges(l, i))'
    <3>1. /\ c \in Charges(l, i) <=>
                /\ conn[c].limiter = l /\ IPOf[c] = i
                /\ \/ conn[c].pc \in {"count", "hold"}
                   \/ conn[c].pc \in {"rollback", "subtract"} /\ conn[c].counter = counter[l][i]
          /\ c \in Charges(l, i)' <=>
                /\ conn'[c].limiter = l /\ IPOf[c] = i
                /\ \/ conn'[c].pc \in {"count", "hold"}
                   \/ conn'[c].pc \in {"rollback", "subtract"} /\ conn'[c].counter = counter'[l][i]
      BY DEF Charges
    <3>2. counter[l][i] # None => value[counter[l][i]] <= Cardinality(Charges(l, i))
      BY <1>0 DEF ChargesBound
    <3> QED
      BY <1>0, <1>1, <1>2, <1>3, <1>4, <1>5, <2>1, <3>1, <3>2, ChargesMove, Ranges DEF OneHome
  <2> QED
    BY <2>1 DEF ChargesBound
<1> QED
  BY <1>6, <1>7, <1>8, <1>9, <1>10, <1>11, <1>12 DEF IInv

\* A connection that has its slot enters the total.
LEMMA CountInStep ==
    ASSUME IInv, NEW c \in Conns, CountIn(c)
    PROVE  IInv'
<1> USE NoneAssumption, IPAssumption
<1>0. TypeOK /\ LimitsSet /\ ConnsOK /\ SlotsCounted /\ TotalCounted /\ OneHome /\ ChargesBound
  BY DEF IInv
<1>1. UNCHANGED <<saved, cfg, reload, current, cap, sem, counter, value>>
  BY DEF CountIn, Go, configVars, counterVars
<1>2. conn[c].pc = "count" /\ conn[c].limiter \in Limiters
  BY <1>0, Ranges DEF CountIn, ConnsOK
<1>3. /\ total' \in [Limiters -> Nat]
      /\ \A m \in Limiters : total'[m] = IF m = conn[c].limiter THEN total[m] + 1 ELSE total[m]
  <2>1. total' = [total EXCEPT ![conn[c].limiter] = @ + 1]
    BY DEF CountIn
  <2> QED
    BY <1>0, <1>2, <2>1 DEF TypeOK
<1>4. /\ conn' \in [Conns -> Conn] /\ \A d \in Conns : d # c => conn'[d] = conn[d]
      /\ conn'[c].pc = "hold"
      /\ conn'[c].limiter = conn[c].limiter
      /\ conn'[c].counter = conn[c].counter
      /\ conn'[c].max = conn[c].max
  <2>1. conn[c] \in Conn /\ conn \in [Conns -> Conn]
    BY <1>0 DEF TypeOK
  <2> QED
    BY <1>0, <2>1 DEF CountIn, Go, Conn, ConnStates
<1>5. TypeOK'
  BY <1>0, <1>1, <1>2, <1>3, <1>4 DEF TypeOK
<1>6. LimitsSet'
  BY <1>0, <1>1, <1>2, <1>3, <1>4, Ranges DEF LimitsSet
<1>7. ConnsOK'
  BY <1>0, <1>1, <1>2, <1>3, <1>4, Ranges DEF ConnsOK
<1>8. SlotsCounted'
  <2>1. ASSUME NEW l \in Limiters
        PROVE  sem'[l] = Cardinality(Slots(l))'
    <3>1. /\ c \in Slots(l) <=> conn[c].limiter = l /\ conn[c].pc \in SlotStates
          /\ c \in Slots(l)' <=> conn'[c].limiter = l /\ conn'[c].pc \in SlotStates
      BY DEF Slots
    <3> QED
      BY <1>0, <1>1, <1>2, <1>3, <1>4, <3>1, SlotsMove, Ranges DEF SlotsCounted, SlotStates
  <2> QED
    BY <2>1 DEF SlotsCounted
<1>9. TotalCounted'
  <2>1. ASSUME NEW l \in Limiters
        PROVE  total'[l] = Cardinality(Counted(l))'
    <3>1. /\ c \in Counted(l) <=> conn[c].limiter = l /\ conn[c].pc \in CountedStates
          /\ c \in Counted(l)' <=> conn'[c].limiter = l /\ conn'[c].pc \in CountedStates
      BY DEF Counted
    <3> QED
      BY <1>0, <1>1, <1>2, <1>3, <1>4, <3>1, CountedMove, Ranges DEF TotalCounted, CountedStates
  <2> QED
    BY <2>1 DEF TotalCounted
<1>10. OneHome'
  BY <1>0, <1>1, <1>2, <1>3, <1>4, Ranges DEF OneHome
<1>11. ChargesBound'
  <2>1. ASSUME NEW l \in Limiters, NEW i \in IPs, counter'[l][i] # None
        PROVE  value'[counter'[l][i]] <= Cardinality(Charges(l, i))'
    <3>1. /\ c \in Charges(l, i) <=>
                /\ conn[c].limiter = l /\ IPOf[c] = i
                /\ \/ conn[c].pc \in {"count", "hold"}
                   \/ conn[c].pc \in {"rollback", "subtract"} /\ conn[c].counter = counter[l][i]
          /\ c \in Charges(l, i)' <=>
                /\ conn'[c].limiter = l /\ IPOf[c] = i
                /\ \/ conn'[c].pc \in {"count", "hold"}
                   \/ conn'[c].pc \in {"rollback", "subtract"} /\ conn'[c].counter = counter'[l][i]
      BY DEF Charges
    <3>2. counter[l][i] # None => value[counter[l][i]] <= Cardinality(Charges(l, i))
      BY <1>0 DEF ChargesBound
    <3> QED
      BY <1>0, <1>1, <1>2, <1>3, <1>4, <2>1, <3>1, <3>2, ChargesMove, Ranges DEF OneHome
  <2> QED
    BY <2>1 DEF ChargesBound
<1> QED
  BY <1>5, <1>6, <1>7, <1>8, <1>9, <1>10, <1>11 DEF IInv

\* The counter is looked up again: it is the one of the address now.
LEMMA ReleaseStep ==
    ASSUME IInv, NEW c \in Conns, Release(c)
    PROVE  IInv'
<1> USE NoneAssumption, IPAssumption
<1>0. TypeOK /\ LimitsSet /\ ConnsOK /\ SlotsCounted /\ TotalCounted /\ OneHome /\ ChargesBound
  BY DEF IInv
<1>1. UNCHANGED <<saved, cfg, reload, current, cap, sem, total, counter, value>>
  BY DEF Release, configVars, limiterVars, counterVars
<1>2. conn[c].pc = "hold" /\ conn[c].limiter \in Limiters /\ cfg.max > 0 /\ cfg.perIP > 0
  BY <1>0, Ranges DEF Release, LimitsSet, ConnsOK
<1>3. /\ conn' \in [Conns -> Conn] /\ \A d \in Conns : d # c => conn'[d] = conn[d]
      /\ conn'[c].limiter = conn[c].limiter /\ conn'[c].max = cfg.max
      /\ conn'[c].counter = counter[conn[c].limiter][IPOf[c]]
      /\ conn'[c].pc = IF counter[conn[c].limiter][IPOf[c]] # None THEN "subtract"
                                             ELSE "release"
  <2> DEFINE k == counter[conn[c].limiter][IPOf[c]]
           pc == IF k # None THEN "subtract" ELSE "release"
  <2>1. conn[c] \in Conn /\ conn \in [Conns -> Conn] /\ cfg.max \in Nat /\ cfg.perIP \in Nat
    BY <1>0 DEF TypeOK
  <2>2. k \in Counters \cup {None} /\ pc \in ConnStates
    BY <1>0, <1>2, Ranges DEF ConnStates
  <2>3. conn' = [conn EXCEPT ![c].max = cfg.max, ![c].perIP = cfg.perIP,
                              ![c].counter = k, ![c].pc = pc]
    BY <1>2 DEF Release
  <2> HIDE DEF k, pc
  <2>4. /\ conn' \in [Conns -> Conn] /\ \A d \in Conns : d # c => conn'[d] = conn[d]
        /\ conn'[c].limiter = conn[c].limiter /\ conn'[c].max = cfg.max
        /\ conn'[c].counter = k /\ conn'[c].pc = pc
    BY <2>1, <2>2, <2>3 DEF Conn
  <2> QED
    BY <2>4 DEF k, pc
<1>4. TypeOK'
  BY <1>0, <1>1, <1>2, <1>3 DEF TypeOK
<1>5. LimitsSet'
  BY <1>0, <1>1, <1>2, <1>3, Ranges DEF LimitsSet
<1>6. ConnsOK'
  BY <1>0, <1>1, <1>2, <1>3, Ranges DEF ConnsOK
<1>7. SlotsCounted'
  <2>1. ASSUME NEW l \in Limiters
        PROVE  sem'[l] = Cardinality(Slots(l))'
    <3>1. /\ c \in Slots(l) <=> conn[c].limiter = l /\ conn[c].pc \in SlotStates
          /\ c \in Slots(l)' <=> conn'[c].limiter = l /\ conn'[c].pc \in SlotStates
      BY DEF Slots
    <3> QED
      BY <1>0, <1>1, <1>2, <1>3, <3>1, SlotsMove, Ranges DEF SlotsCounted, SlotStates
  <2> QED
    BY <2>1 DEF SlotsCounted
<1>8. TotalCounted'
  <2>1. ASSUME NEW l \in Limiters
        PROVE  total'[l] = Cardinality(Counted(l))'
    <3>1. /\ c \in Counted(l) <=> conn[c].limiter = l /\ conn[c].pc \in CountedStates
          /\ c \in Counted(l)' <=> conn'[c].limiter = l /\ conn'[c].pc \in CountedStates
      BY DEF Counted
    <3> QED
      BY <1>0, <1>1, <1>2, <1>3, <3>1, CountedMove, Ranges DEF TotalCounted, CountedStates
  <2> QED
    BY <2>1 DEF TotalCounted
<1>9. OneHome'
  BY <1>0, <1>1, <1>2, <1>3, Ranges DEF OneHome
<1>10. ChargesBound'
  <2>1. ASSUME NEW l \in Limiters, NEW i \in IPs, counter'[l][i] # None
        PROVE  value'[counter'[l][i]] <= Cardinality(Charges(l, i))'
    <3>1. /\ c \in Charges(l, i) <=>
                /\ conn[c].limiter = l /\ IPOf[c] = i
                /\ \/ conn[c].pc \in {"count", "hold"}
                   \/ conn[c].pc \in {"rollback", "subtract"} /\ conn[c].counter = counter[l][i]
          /\ c \in Charges(l, i)' <=>
                /\ conn'[c].limiter = l /\ IPOf[c] = i
                /\ \/ conn'[c].pc \in {"count", "hold"}
                   \/ conn'[c].pc \in {"rollback", "subtract"} /\ conn'[c].counter = counter'[l][i]
      BY DEF Charges
    <3>2. counter[l][i] # None => value[counter[l][i]] <= Cardinality(Charges(l, i))
      BY <1>0 DEF ChargesBound
    <3> QED
      BY <1>0, <1>1, <1>2, <1>3, <2>1, <3>1, <3>2, ChargesMove, Ranges DEF OneHome
  <2> QED
    BY <2>1 DEF ChargesBound
<1> QED
  BY <1>4, <1>5, <1>6, <1>7, <1>8, <1>9, <1>10 DEF IInv

\* A connection that is charged to the counter takes itself off it.
LEMMA SubtractStep ==
    ASSUME IInv, NEW c \in Conns, Subtract(c)
    PROVE  IInv'
<1> USE NoneAssumption, IPAssumption
<1>0. TypeOK /\ LimitsSet /\ ConnsOK /\ SlotsCounted /\ TotalCounted /\ OneHome /\ ChargesBound
  BY DEF IInv
<1>1. UNCHANGED <<saved, cfg, reload, current, cap, sem, total, counter>>
  BY DEF Subtract, configVars, limiterVars, counterVars
<1>2. conn[c].pc = "subtract" /\ conn[c].limiter \in Limiters /\ conn[c].counter \in Counters
  BY <1>0, Ranges DEF Subtract, ConnsOK
<1>3. /\ value' \in [Counters -> Int]
      /\ \A m \in Counters :
           value'[m] = IF m = conn[c].counter /\ value[m] > 0 THEN value[m] - 1 ELSE value[m]
  <2>1. value' = [value EXCEPT ![conn[c].counter] = IF @ > 0 THEN @ - 1 ELSE @]
        /\ value \in [Counters -> Int]
    BY <1>0, <1>2 DEF Subtract, TypeOK
  <2> QED
    BY <1>2, <2>1
<1>4. /\ conn' \in [Conns -> Conn] /\ \A d \in Conns : d # c => conn'[d] = conn[d]
      /\ conn'[c].limiter = conn[c].limiter /\ conn'[c].max = conn[c].max
      /\ conn'[c].counter = None /\ conn'[c].pc \in {"delete", "release"}
  <2>1. conn[c] \in Conn /\ conn \in [Conns -> Conn]
    BY <1>0 DEF TypeOK
  <2> QED
    BY <1>0, <2>1 DEF Subtract, Conn, ConnStates
<1>5. TypeOK'
  BY <1>0, <1>1, <1>2, <1>3, <1>4 DEF TypeOK
<1>6. LimitsSet'
  BY <1>0, <1>1, <1>2, <1>3, <1>4, Ranges DEF LimitsSet
<1>7. ConnsOK'
  BY <1>0, <1>1, <1>2, <1>3, <1>4, Ranges DEF ConnsOK
<1>8. SlotsCounted'
  <2>1. ASSUME NEW l \in Limiters
        PROVE  sem'[l] = Cardinality(Slots(l))'
    <3>1. /\ c \in Slots(l) <=> conn[c].limiter = l /\ conn[c].pc \in SlotStates
          /\ c \in Slots(l)' <=> conn'[c].limiter = l /\ conn'[c].pc \in SlotStates
      BY DEF Slots
    <3> QED
      BY <1>0, <1>1, <1>2, <1>3, <1>4, <3>1, SlotsMove, Ranges DEF SlotsCounted, SlotStates
  <2> QED
    BY <2>1 DEF SlotsCounted
<1>9. TotalCounted'
  <2>1. ASSUME NEW l \in Limiters
        PROVE  total'[l] = Cardinality(Counted(l))'
    <3>1. /\ c \in Counted(l) <=> conn[c].limiter = l /\ conn[c].pc \in CountedStates
          /\ c \in Counted(l)' <=> conn'[c].limiter = l /\ conn'[c].pc \in CountedStates
      BY DEF Counted
    <3> QED
      BY <1>0, <1>1, <1>2, <1>3, <1>4, <3>1, CountedMove, Ranges DEF TotalCounted, CountedStates
  <2> QED
    BY <2>1 DEF TotalCounted
<1>10. OneHome'
  BY <1>0, <1>1, <1>2, <1>3, <1>4, Ranges DEF OneHome
<1>11. ChargesBound'
  <2>1. ASSUME NEW l \in Limiters, NEW i \in IPs, counter'[l][i] # None
        PROVE  value'[counter'[l][i]] <= Cardinality(Charges(l, i))'
    <3>1. /\ c \in Charges(l, i) <=>
                /\ conn[c].limiter = l /\ IPOf[c] = i
                /\ \/ conn[c].pc \in {"count", "hold"}
                   \/ conn[c].pc \in {"rollback", "subtract"} /\ conn[c].counter = counter[l][i]
          /\ c \in Charges(l, i)' <=>
                /\ conn'[c].limiter = l /\ IPOf[c] = i
                /\ \/ conn'[c].pc \in {"count", "hold"}
                   \/ conn'[c].pc \in {"rollback", "subtract"} /\ conn'[c].counter = counter'[l][i]
      BY DEF Charges
    <3>2. counter[l][i] # None => value[counter[l][i]] <= Cardinality(Charges(l, i))
      BY <1>0 DEF ChargesBound
    <3> QED
      BY <1>0, <1>1, <1>2, <1>3, <1>4, <2>1, <3>1, <3>2, ChargesMove, Ranges DEF OneHome
  <2> QED
    BY <2>1 DEF ChargesBound
<1> QED
  BY <1>5, <1>6, <1>7, <1>8, <1>9, <1>10, <1>11 DEF IInv

\* The entry goes, whatever it holds.
LEMMA DeleteCounterStep ==
    ASSUME IInv, NEW c \in Conns, DeleteCounter(c)
    PROVE  IInv'
<1> USE NoneAssumption, IPAssumption
<1>0. TypeOK /\ LimitsSet /\ ConnsOK /\ SlotsCounted /\ TotalCounted /\ OneHome /\ ChargesBound
  BY DEF IInv
<1>1. UNCHANGED <<saved, cfg, reload, current, cap, sem, total, value>>
  BY DEF DeleteCounter, Go, configVars, limiterVars
<1>2. conn[c].pc = "delete" /\ conn[c].limiter \in Limiters
  BY <1>0, Ranges DEF DeleteCounter, ConnsOK
<1>3. /\ counter' \in [Limiters -> [IPs -> Counters \cup {None}]]
      /\ \A m \in Limiters, j \in IPs :
           counter'[m][j] = IF m = conn[c].limiter /\ j = IPOf[c] THEN None ELSE counter[m][j]
  BY <1>0, <1>2 DEF DeleteCounter, TypeOK
<1>4. /\ conn' \in [Conns -> Conn] /\ \A d \in Conns : d # c => conn'[d] = conn[d]
      /\ conn'[c].pc = "release"
      /\ conn'[c].limiter = conn[c].limiter
      /\ conn'[c].counter = conn[c].counter
      /\ conn'[c].max = conn[c].max
  <2>1. conn[c] \in Conn /\ conn \in [Conns -> Conn]
    BY <1>0 DEF TypeOK
  <2> QED
    BY <1>0, <2>1 DEF DeleteCounter, Go, Conn, ConnStates
<1>5. TypeOK'
  BY <1>0, <1>1, <1>2, <1>3, <1>4 DEF TypeOK
<1>6. LimitsSet'
  BY <1>0, <1>1, <1>2, <1>3, <1>4, Ranges DEF LimitsSet
<1>7. ConnsOK'
  BY <1>0, <1>1, <1>2, <1>3, <1>4, Ranges DEF ConnsOK
<1>8. SlotsCounted'
  <2>1. ASSUME NEW l \in Limiters
        PROVE  sem'[l] = Cardinality(Slots(l))'
    <3>1. /\ c \in Slots(l) <=> conn[c].limiter = l /\ conn[c].pc \in SlotStates
          /\ c \in Slots(l)' <=> conn'[c].limiter = l /\ conn'[c].pc \in SlotStates
      BY DEF Slots
    <3> QED
      BY <1>0, <1>1, <1>2, <1>3, <1>4, <3>1, SlotsMove, Ranges DEF SlotsCounted, SlotStates
  <2> QED
    BY <2>1 DEF SlotsCounted
<1>9. TotalCounted'
  <2>1. ASSUME NEW l \in Limiters
        PROVE  total'[l] = Cardinality(Counted(l))'
    <3>1. /\ c \in Counted(l) <=> conn[c].limiter = l /\ conn[c].pc \in CountedStates
          /\ c \in Counted(l)' <=> conn'[c].limiter = l /\ conn'[c].pc \in CountedStates
      BY DEF Counted
    <3> QED
      BY <1>0, <1>1, <1>2, <1>3, <1>4, <3>1, CountedMove, Ranges DEF TotalCounted, CountedStates
  <2> QED
    BY <2>1 DEF TotalCounted
<1>10. OneHome'
  <2>1. ASSUME NEW l \in Limiters, NEW m \in Limiters, NEW i \in IPs, NEW j \in IPs,
               counter'[l][i] # None, counter'[l][i] = counter'[m][j]
        PROVE  l = m /\ i = j
    <3>1. counter[l][i] = counter'[l][i] /\ counter[m][j] = counter'[m][j]
      BY <1>3, <2>1
    <3> QED
      BY <1>0, <2>1, <3>1 DEF OneHome
  <2>2. ASSUME NEW l \in Limiters, NEW i \in IPs, NEW d \in Conns,
               conn'[d].pc \in {"add", "rollback", "subtract"}, conn'[d].counter = counter'[l][i]
        PROVE  conn'[d].limiter = l /\ IPOf[d] = i
    <3>1. d # c /\ conn'[d] = conn[d]
      BY <1>4, <2>2
    <3>2. conn[d].counter # None
      BY <1>0, <2>2, <3>1 DEF ConnsOK
    <3>3. counter[l][i] = counter'[l][i]
      BY <1>3, <2>2, <3>1, <3>2
    <3> QED
      BY <1>0, <2>2, <3>1, <3>3 DEF OneHome
  <2> QED
    BY <2>1, <2>2 DEF OneHome
<1>11. ChargesBound'
  <2>1. ASSUME NEW l \in Limiters, NEW i \in IPs, counter'[l][i] # None
        PROVE  value'[counter'[l][i]] <= Cardinality(Charges(l, i))'
    <3>1. /\ c \in Charges(l, i) <=>
                /\ conn[c].limiter = l /\ IPOf[c] = i
                /\ \/ conn[c].pc \in {"count", "hold"}
                   \/ conn[c].pc \in {"rollback", "subtract"} /\ conn[c].counter = counter[l][i]
          /\ c \in Charges(l, i)' <=>
                /\ conn'[c].limiter = l /\ IPOf[c] = i
                /\ \/ conn'[c].pc \in {"count", "hold"}
                   \/ conn'[c].pc \in {"rollback", "subtract"} /\ conn'[c].counter = counter'[l][i]
      BY DEF Charges
    <3>2. counter[l][i] # None => value[counter[l][i]] <= Cardinality(Charges(l, i))
      BY <1>0 DEF ChargesBound
    <3>3. counter'[l][i] = counter[l][i] /\ ~(l = conn[c].limiter /\ i = IPOf[c])
      BY <1>0, <1>2, <1>3, <2>1
    <3> QED
      BY <1>0, <1>1, <1>2, <1>3, <1>4, <2>1, <3>1, <3>3, <3>2, ChargesMove, Ranges DEF OneHome
  <2> QED
    BY <2>1 DEF ChargesBound
<1> QED
  BY <1>5, <1>6, <1>7, <1>8, <1>9, <1>10, <1>11 DEF IInv

\* The token that is taken out is there, the connection has put it in.
LEMMA ReleaseGlobalStep ==
    ASSUME IInv, NEW c \in Conns, ReleaseGlobal(c)
    PROVE  IInv'
<1> USE NoneAssumption, IPAssumption
<1>0. TypeOK /\ LimitsSet /\ ConnsOK /\ SlotsCounted /\ TotalCounted /\ OneHome /\ ChargesBound
  BY DEF IInv
<1>1. UNCHANGED <<saved, cfg, reload, current, cap, total, counter, value>>
  BY DEF ReleaseGlobal, Go, configVars, counterVars
<1>2. conn[c].pc = "release" /\ conn[c].limiter \in Limiters
  BY <1>0, Ranges DEF ReleaseGlobal, ConnsOK
<1>3. sem[conn[c].limiter] > 0 /\ conn[c].max > 0
  <2>1. c \in Slots(conn[c].limiter)
    BY <1>2 DEF Slots, SlotStates
  <2>2. sem[conn[c].limiter] # 0
    BY <1>0, <1>2, <2>1, SlotsNotEmpty DEF SlotsCounted
  <2> QED
    BY <1>0, <1>2, <2>2, Ranges DEF LimitsSet
<1>4. /\ sem' \in [Limiters -> Nat]
      /\ \A m \in Limiters : sem'[m] = IF m = conn[c].limiter THEN sem[m] - 1 ELSE sem[m]
  <2>1. sem' = [sem EXCEPT ![conn[c].limiter] = @ - 1]
    BY <1>2, <1>3 DEF ReleaseGlobal
  <2> QED
    BY <1>0, <1>2, <1>3, <2>1 DEF TypeOK
<1>5. /\ conn' \in [Conns -> Conn] /\ \A d \in Conns : d # c => conn'[d] = conn[d]
      /\ conn'[c].pc = "signal"
      /\ conn'[c].limiter = conn[c].limiter
      /\ conn'[c].counter = conn[c].counter
      /\ conn'[c].max = conn[c].max
  <2>1. conn[c] \in Conn /\ conn \in [Conns -> Conn]
    BY <1>0 DEF TypeOK
  <2> QED
    BY <1>0, <2>1 DEF ReleaseGlobal, Go, Conn, ConnStates
<1>6. TypeOK'
  BY <1>0, <1>1, <1>2, <1>3, <1>4, <1>5 DEF TypeOK
<1>7. LimitsSet'
  BY <1>0, <1>1, <1>2, <1>3, <1>4, <1>5, Ranges DEF LimitsSet
<1>8. ConnsOK'
  BY <1>0, <1>1, <1>2, <1>3, <1>4, <1>5, Ranges DEF ConnsOK
<1>9. SlotsCounted'
  <2>1. ASSUME NEW l \in Limiters
        PROVE  sem'[l] = Cardinality(Slots(l))'
    <3>1. /\ c \in Slots(l) <=> conn[c].limiter = l /\ conn[c].pc \in SlotStates
          /\ c \in Slots(l)' <=> conn'[c].limiter = l /\ conn'[c].pc \in SlotStates
      BY DEF Slots
    <3> QED
      BY <1>0, <1>1, <1>2, <1>3, <1>4, <1>5, <3>1, SlotsMove, Ranges DEF SlotsCounted, SlotStates
  <2> QED
    BY <2>1 DEF SlotsCounted
<1>10. TotalCounted'
  <2>1. ASSUME NEW l \in Limiters
        PROVE  total'[l] = Cardinality(Counted(l))'
    <3>1. /\ c \in Counted(l) <=> conn[c].limiter = l /\ conn[c].pc \in CountedStates
          /\ c \in Counted(l)' <=> conn'[c].limiter = l /\ conn'[c].pc \in CountedStates
      BY DEF Counted
    <3> QED
      BY <1>0, <1>1, <1>2, <1>3, <1>4, <1>5, <3>1, CountedMove, Ranges DEF TotalCounted,
         CountedStates
  <2> QED
    BY <2>1 DEF TotalCounted
<1>11. OneHome'
  BY <1>0, <1>1, <1>2, <1>3, <1>4, <1>5, Ranges DEF OneHome
<1>12. ChargesBound'
  <2>1. ASSUME NEW l \in Limiters, NEW i \in IPs, counter'[l][i] # None
        PROVE  value'[counter'[l][i]] <= Cardinality(Charges(l, i))'
    <3>1. /\ c \in Charges(l, i) <=>
                /\ conn[c].limiter = l /\ IPOf[c] = i
                /\ \/ conn[c].pc \in {"count", "hold"}
                   \/ conn[c].pc \in {"rollback", "subtract"} /\ conn[c].counter = counter[l][i]
          /\ c \in Charges(l, i)' <=>
                /\ conn'[c].limiter = l /\ IPOf[c] = i
                /\ \/ conn'[c].pc \in {"count", "hold"}
                   \/ conn'[c].pc \in {"rollback", "subtract"} /\ conn'[c].counter = counter'[l][i]
      BY DEF Charges
    <3>2. counter[l][i] # None => value[counter[l][i]] <= Cardinality(Charges(l, i))
      BY <1>0 DEF ChargesBound
    <3> QED
      BY <1>0, <1>1, <1>2, <1>3, <1>4, <1>5, <2>1, <3>1, <3>2, ChargesMove, Ranges DEF OneHome
  <2> QED
    BY <2>1 DEF ChargesBound
<1> QED
  BY <1>6, <1>7, <1>8, <1>9, <1>10, <1>11, <1>12 DEF IInv

\* So is the count.
LEMMA CountOutStep ==
    ASSUME IInv, NEW c \in Conns, CountOut(c)
    PROVE  IInv'
<1> USE NoneAssumption, IPAssumption
<1>0. TypeOK /\ LimitsSet /\ ConnsOK /\ SlotsCounted /\ TotalCounted /\ OneHome /\ ChargesBound
  BY DEF IInv
<1>1. UNCHANGED <<saved, cfg, reload, current, cap, sem, counter, value>>
  BY DEF CountOut, Drop, configVars, counterVars
<1>2. conn[c].pc = "signal" /\ conn[c].limiter \in Limiters
  BY <1>0, Ranges DEF CountOut, ConnsOK
<1>3. total[conn[c].limiter] > 0
  <2>1. c \in Counted(conn[c].limiter)
    BY <1>2 DEF Counted, CountedStates
  <2>2. total[conn[c].limiter] # 0
    BY <1>0, <1>2, <2>1, CountedNotEmpty DEF TotalCounted
  <2> QED
    BY <1>0, <1>2, <2>2, Ranges
<1>4. /\ total' \in [Limiters -> Nat]
      /\ \A m \in Limiters : total'[m] = IF m = conn[c].limiter THEN total[m] - 1 ELSE total[m]
  <2>1. total' = [total EXCEPT ![conn[c].limiter] = @ - 1]
    BY <1>0, <1>2, <1>3 DEF CountOut, TypeOK
  <2> QED
    BY <1>0, <1>2, <1>3, <2>1 DEF TypeOK
<1>5. /\ conn' \in [Conns -> Conn] /\ \A d \in Conns : d # c => conn'[d] = conn[d]
      /\ conn'[c].pc = "idle"
      /\ conn'[c].limiter = None
      /\ conn'[c].counter = None
      /\ conn'[c].max = 0
  <2>1. NoConn \in Conn
    BY DEF NoConn, Conn, ConnStates
  <2> QED
    BY <1>0, <2>1 DEF CountOut, Drop, TypeOK, NoConn
<1>6. TypeOK'
  BY <1>0, <1>1, <1>2, <1>3, <1>4, <1>5 DEF TypeOK
<1>7. LimitsSet'
  BY <1>0, <1>1, <1>2, <1>3, <1>4, <1>5, Ranges DEF LimitsSet
<1>8. ConnsOK'
  BY <1>0, <1>1, <1>2, <1>3, <1>4, <1>5, Ranges DEF ConnsOK
<1>9. SlotsCounted'
  <2>1. ASSUME NEW l \in Limiters
        PROVE  sem'[l] = Cardinality(Slots(l))'
    <3>1. /\ c \in Slots(l) <=> conn[c].limiter = l /\ conn[c].pc \in SlotStates
          /\ c \in Slots(l)' <=> conn'[c].limiter = l /\ conn'[c].pc \in SlotStates
      BY DEF Slots
    <3> QED
      BY <1>0, <1>1, <1>2, <1>3, <1>4, <1>5, <3>1, SlotsMove, Ranges DEF SlotsCounted, SlotStates
  <2> QED
    BY <2>1 DEF SlotsCounted
<1>10. TotalCounted'
  <2>1. ASSUME NEW l \in Limiters
        PROVE  total'[l] = Cardinality(Counted(l))'
    <3>1. /\ c \in Counted(l) <=> conn[c].limiter = l /\ conn[c].pc \in CountedStates
          /\ c \in Counted(l)' <=> conn'[c].limiter = l /\ conn'[c].pc \in CountedStates
      BY DEF Counted
    <3> QED
      BY <1>0, <1>1, <1>2, <1>3, <1>4, <1>5, <3>1, CountedMove, Ranges DEF TotalCounted,
         CountedStates
  <2> QED
    BY <2>1 DEF TotalCounted
<1>11. OneHome'
  BY <1>0, <1>1, <1>2, <1>3, <1>4, <1>5, Ranges DEF OneHome
<1>12. ChargesBound'
  <2>1. ASSUME NEW l \in Limiters, NEW i \in IPs, counter'[l][i] # None
        PROVE  value'[counter'[l][i]] <= Cardinality(Charges(l, i))'
    <3>1. /\ c \in Charges(l, i) <=>
                /\ conn[c].limiter = l /\ IPOf[c] = i
                /\ \/ conn[c].pc \in {"count", "hold"}
                   \/ conn[c].pc \in {"rollback", "subtract"} /\ conn[c].counter = counter[l][i]
          /\ c \in Charges(l, i)' <=>
                /\ conn'[c].limiter = l /\ IPOf[c] = i
                /\ \/ conn'[c].pc \in {"count", "hold"}
                   \/ conn'[c].pc \in {"rollback", "subtract"} /\ conn'[c].counter = counter'[l][i]
      BY DEF Charges
    <3>2. counter[l][i] # None => value[counter[l][i]] <= Cardinality(Charges(l, i))
      BY <1>0 DEF ChargesBound
    <3> QED
      BY <1>0, <1>1, <1>2, <1>3, <1>4, <1>5, <2>1, <3>1, <3>2, ChargesMove, Ranges DEF OneHome
  <2> QED
    BY <2>1 DEF ChargesBound
<1> QED
  BY <1>6, <1>7, <1>8, <1>9, <1>10, <1>11, <1>12 DEF IInv

\* A reload brings limits that are not 0.
LEMMA UpdateMaxStep ==
    ASSUME IInv, UpdateMax
    PROVE  IInv'
<1> USE NoneAssumption, IPAssumption
<1>0. TypeOK /\ LimitsSet /\ ConnsOK /\ SlotsCounted /\ TotalCounted /\ OneHome /\ ChargesBound
  BY DEF IInv
<1>1. UNCHANGED <<current, cap, sem, total, counter, value, conn>>
  BY DEF UpdateMax, configVars, limiterVars, counterVars
<1>2. /\ saved' \in [max : Nat, perIP : Nat] /\ saved'.max > 0 /\ saved'.perIP > 0
      /\ cfg' \in [max : Nat, perIP : Nat] /\ cfg'.max > 0 /\ cfg'.perIP > 0
      /\ reload' \in [stage : {"none", "perIP", "recreate"}, max : Nat, perIP : Nat]
      /\ reload'.max > 0 /\ reload'.perIP > 0
  <2>1. PICK f \in Configs :
          /\ saved' = f /\ cfg' = [cfg EXCEPT !.max = f.max]
          /\ reload' = [stage |-> "perIP", max |-> f.max, perIP |-> f.perIP]
    BY DEF UpdateMax
  <2>2. f \in [max : Nat \ {0}, perIP : Nat \ {0}]
    BY ConfigAssumption
  <2>3. /\ f.max \in Nat /\ f.perIP \in Nat /\ f.max > 0 /\ f.perIP > 0
        /\ f \in [max : Nat, perIP : Nat]
    BY <2>2
  <2>4. cfg \in [max : Nat, perIP : Nat] /\ cfg.perIP > 0
    BY <1>0 DEF TypeOK, LimitsSet
  <2> QED
    BY <2>1, <2>3, <2>4
<1>3. TypeOK'
  BY <1>0, <1>1, <1>2 DEF TypeOK
<1>4. LimitsSet'
  BY <1>0, <1>1, <1>2, Ranges DEF LimitsSet
<1>5. ConnsOK' /\ SlotsCounted' /\ TotalCounted' /\ OneHome' /\ ChargesBound'
  BY <1>0, <1>1 DEF ConnsOK, SlotsCounted, Slots, TotalCounted, Counted, OneHome, ChargesBound,
     Charges
<1> QED
  BY <1>3, <1>4, <1>5 DEF IInv

\* The second number follows.
LEMMA UpdatePerIPStep ==
    ASSUME IInv, UpdatePerIP
    PROVE  IInv'
<1> USE NoneAssumption, IPAssumption
<1>0. TypeOK /\ LimitsSet /\ ConnsOK /\ SlotsCounted /\ TotalCounted /\ OneHome /\ ChargesBound
  BY DEF IInv
<1>1. UNCHANGED <<saved, current, cap, sem, total, counter, value, conn>>
  BY DEF UpdatePerIP, configVars, limiterVars, counterVars
<1>2. /\ cfg' \in [max : Nat, perIP : Nat] /\ cfg'.max > 0 /\ cfg'.perIP > 0
      /\ reload' \in [stage : {"none", "perIP", "recreate"}, max : Nat, perIP : Nat]
      /\ reload'.max > 0 /\ reload'.perIP > 0
  <2>1. /\ cfg \in [max : Nat, perIP : Nat] /\ cfg.max > 0
        /\ reload \in [stage : {"none", "perIP", "recreate"}, max : Nat, perIP : Nat]
        /\ reload.max > 0 /\ reload.perIP > 0
    BY <1>0 DEF UpdatePerIP, TypeOK, LimitsSet
  <2> QED
    BY <2>1 DEF UpdatePerIP
<1>3. TypeOK'
  BY <1>0, <1>1, <1>2 DEF TypeOK
<1>4. LimitsSet'
  BY <1>0, <1>1, <1>2, Ranges DEF LimitsSet
<1>5. ConnsOK' /\ SlotsCounted' /\ TotalCounted' /\ OneHome' /\ ChargesBound'
  BY <1>0, <1>1 DEF ConnsOK, SlotsCounted, Slots, TotalCounted, Counted, OneHome, ChargesBound,
     Charges
<1> QED
  BY <1>3, <1>4, <1>5 DEF IInv

\* The new limiter has no connections.
LEMMA RecreatesStep ==
    ASSUME IInv, NEW n \in Limiters, Recreates(n)
    PROVE  IInv'
<1> USE NoneAssumption, IPAssumption
<1>0. TypeOK /\ LimitsSet /\ ConnsOK /\ SlotsCounted /\ TotalCounted /\ OneHome /\ ChargesBound
  BY DEF IInv
<1>1. UNCHANGED <<saved, cfg, value, conn>>
  BY DEF Recreates
<1>2. /\ current' = n /\ \A c \in Conns : conn[c].limiter # n
  BY DEF Recreates
<1>3. /\ reload' = NoReload /\ NoReload.stage = "none"
      /\ reload' \in [stage : {"none", "perIP", "recreate"}, max : Nat, perIP : Nat]
  BY DEF Recreates, NoReload
<1>4. /\ sem' \in [Limiters -> Nat]
      /\ \A m \in Limiters : sem'[m] = IF m = n THEN 0 ELSE sem[m]
  BY <1>0 DEF Recreates, TypeOK
<1>5. /\ total' \in [Limiters -> Nat]
      /\ \A m \in Limiters : total'[m] = IF m = n THEN 0 ELSE total[m]
  BY <1>0 DEF Recreates, TypeOK
<1>6. /\ cap' \in [Limiters -> Nat]
      /\ \A m \in Limiters : m # n => cap'[m] = cap[m]
  <2>1. Capacity(cfg.max) \in Nat
    BY <1>0, DefaultAssumption DEF Capacity, TypeOK
  <2> QED
    BY <1>0, <2>1 DEF Recreates, TypeOK
<1>7. /\ counter' \in [Limiters -> [IPs -> Counters \cup {None}]]
      /\ \A m \in Limiters, j \in IPs :
           counter'[m][j] = IF m = n THEN None ELSE counter[m][j]
  BY <1>0 DEF Recreates, TypeOK
<1>8. TypeOK'
  <2>1. \A l \in Limiters : sem'[l] <= cap'[l]
    <3>1. ASSUME NEW l \in Limiters, l = n
          PROVE  sem'[l] <= cap'[l]
      BY <1>4, <1>6, <3>1
    <3>2. ASSUME NEW l \in Limiters, l # n
          PROVE  sem'[l] <= cap'[l]
      BY <1>0, <1>4, <1>6, <3>2 DEF TypeOK
    <3> QED
      BY <3>1, <3>2
  <2> QED
    BY <1>0, <1>1, <1>2, <1>3, <1>4, <1>5, <1>6, <1>7, <2>1 DEF TypeOK
<1>9. LimitsSet'
  BY <1>0, <1>1, <1>2, <1>3, <1>4, <1>5, <1>6, <1>7, Ranges DEF LimitsSet
<1>10. SlotsCounted'
  <2>1. ASSUME NEW l \in Limiters
        PROVE  sem'[l] = Cardinality(Slots(l))'
    <3>1. Slots(l)' = Slots(l) /\ (l = n => Slots(l) = {})
      BY <1>1, <1>2 DEF Slots
    <3> QED
      BY <1>0, <1>4, <3>1, FS_EmptySet DEF SlotsCounted
  <2> QED
    BY <2>1 DEF SlotsCounted
<1>11. TotalCounted'
  <2>1. ASSUME NEW l \in Limiters
        PROVE  total'[l] = Cardinality(Counted(l))'
    <3>1. Counted(l)' = Counted(l) /\ (l = n => Counted(l) = {})
      BY <1>1, <1>2 DEF Counted
    <3> QED
      BY <1>0, <1>5, <3>1, FS_EmptySet DEF TotalCounted
  <2> QED
    BY <2>1 DEF TotalCounted
<1>12. OneHome'
  <2>1. ASSUME NEW l \in Limiters, NEW m \in Limiters, NEW i \in IPs, NEW j \in IPs,
               counter'[l][i] # None, counter'[l][i] = counter'[m][j]
        PROVE  l = m /\ i = j
    <3>1. counter[l][i] = counter'[l][i] /\ counter[m][j] = counter'[m][j]
      BY <1>7, <2>1
    <3> QED
      BY <1>0, <2>1, <3>1 DEF OneHome
  <2>2. ASSUME NEW l \in Limiters, NEW i \in IPs, NEW d \in Conns,
               conn'[d].pc \in {"add", "rollback", "subtract"}, conn'[d].counter = counter'[l][i]
        PROVE  conn'[d].limiter = l /\ IPOf[d] = i
    <3>1. conn'[d] = conn[d]
      BY <1>1
    <3>2. conn[d].counter # None
      BY <1>0, <2>2, <3>1 DEF ConnsOK
    <3>3. counter[l][i] = counter'[l][i]
      BY <1>7, <2>2, <3>1, <3>2
    <3> QED
      BY <1>0, <2>2, <3>1, <3>3 DEF OneHome
  <2> QED
    BY <2>1, <2>2 DEF OneHome
<1>13. ChargesBound'
  <2>1. ASSUME NEW l \in Limiters, NEW i \in IPs, counter'[l][i] # None
        PROVE  value'[counter'[l][i]] <= Cardinality(Charges(l, i))'
    <3>1. counter'[l][i] = counter[l][i]
      BY <1>7, <2>1
    <3>2. Charges(l, i)' = Charges(l, i)
      BY <1>1, <3>1 DEF Charges
    <3> QED
      BY <1>0, <1>1, <2>1, <3>1, <3>2 DEF ChargesBound
  <2> QED
    BY <2>1 DEF ChargesBound
<1>14. ConnsOK'
  BY <1>0, <1>1 DEF ConnsOK
<1> QED
  BY <1>8, <1>9, <1>10, <1>11, <1>12, <1>13, <1>14 DEF IInv

LEMMA AcquireGlobalStep ==
    ASSUME IInv, NEW c \in Conns, AcquireGlobal(c)
    PROVE  IInv'
BY AcquireRefused, AcquireTaken

\* LoadOrStore finds a counter or stores one.
LEMMA LoadCounterStep ==
    ASSUME IInv, NEW c \in Conns, LoadCounter(c)
    PROVE  IInv'
<1>1. CASE counter[conn[c].limiter][IPOf[c]] # None
  BY <1>1, LoadKnown
<1>2. CASE counter[conn[c].limiter][IPOf[c]] = None
  <2>1. PICK k \in FreshCounters : Loads(c, k)
    BY <1>2 DEF LoadCounter, Loads
  <2>2. k \in Counters
    BY DEF FreshCounters
  <2> QED
    BY <2>1, <2>2, LoadNew
<1> QED
  BY <1>1, <1>2

LEMMA RecreateLimitersStep ==
    ASSUME IInv, RecreateLimiters
    PROVE  IInv'
<1>1. PICK n \in Limiters : Recreates(n)
  BY DEF RecreateLimiters, Recreates
<1> QED
  BY <1>1, RecreatesStep

\* Nobody holds anything: what a start of the process leaves.
LEMMA NothingHeld ==
    ASSUME TypeOK, LimitsSet,
           \A c \in Conns : conn[c] = NoConn,
           \A l \in Limiters : sem[l] = 0 /\ total[l] = 0,
           \A l \in Limiters, i \in IPs : counter[l][i] = None
    PROVE  IInv
<1> USE NoneAssumption DEF NoConn
<1>1. ConnsOK /\ OneHome /\ ChargesBound
  BY DEF ConnsOK, OneHome, ChargesBound
<1>2. \A l \in Limiters : Slots(l) = {} /\ Counted(l) = {}
  BY DEF Slots, Counted, SlotStates, CountedStates
<1>3. SlotsCounted /\ TotalCounted
  BY <1>2, FS_EmptySet DEF SlotsCounted, TotalCounted
<1> QED
  BY <1>1, <1>3 DEF IInv

LEMMA InitIInv == Init => IInv
<1> SUFFICES ASSUME Init PROVE IInv
  OBVIOUS
<1> USE NoneAssumption, ConfigAssumption, DefaultAssumption DEF Init
<1>1. NoConn \in Conn /\ NoConn.pc = "idle"
  BY DEF NoConn, Conn, ConnStates
<1>2. /\ saved \in [max : Nat, perIP : Nat] /\ cfg = saved
      /\ saved.max > 0 /\ saved.perIP > 0
  <2>1. saved \in [max : Nat \ {0}, perIP : Nat \ {0}] /\ cfg = saved
    OBVIOUS
  <2> QED
    BY <2>1
<1>3. /\ reload \in [stage : {"none", "perIP", "recreate"}, max : Nat, perIP : Nat]
      /\ reload.stage = "none"
  BY DEF NoReload
<1>4. Capacity(DefaultMax) \in Nat
  BY DEF Capacity
<1>5. TypeOK
  BY <1>1, <1>2, <1>3, <1>4 DEF TypeOK
<1>6. LimitsSet
  BY <1>1, <1>2, <1>3 DEF LimitsSet
<1> QED
  BY <1>5, <1>6, NothingHeld

LEMMA RestartStep ==
    ASSUME IInv, Restart
    PROVE  IInv'
<1> USE NoneAssumption, DefaultAssumption DEF Restart
<1>0. TypeOK /\ LimitsSet
  BY DEF IInv
<1>1. NoConn \in Conn /\ NoConn.pc = "idle"
  BY DEF NoConn, Conn, ConnStates
<1>2. /\ reload' \in [stage : {"none", "perIP", "recreate"}, max : Nat, perIP : Nat]
      /\ reload'.stage = "none"
  BY DEF NoReload
<1>3. Capacity(DefaultMax) \in Nat
  BY DEF Capacity
<1>4. TypeOK'
  BY <1>0, <1>1, <1>2, <1>3 DEF TypeOK
<1>5. LimitsSet'
  BY <1>0, <1>1, <1>2 DEF LimitsSet
<1>6. ConnsOK' /\ OneHome' /\ ChargesBound'
  BY DEF ConnsOK, OneHome, ChargesBound, NoConn
<1>7. \A l \in Limiters : Slots(l)' = {} /\ Counted(l)' = {}
  BY DEF Slots, Counted, SlotStates, CountedStates, NoConn
<1>8. SlotsCounted' /\ TotalCounted'
  BY <1>7, FS_EmptySet DEF SlotsCounted, TotalCounted
<1> QED
  BY <1>4, <1>5, <1>6, <1>8 DEF IInv

LEMMA NextIInv == IInv /\ [Next]_vars => IInv'
<1> SUFFICES ASSUME IInv, [Next]_vars PROVE IInv'
  OBVIOUS
<1>1. ASSUME NEW c \in Conns, Handle(c)
      PROVE  IInv'
  BY <1>1, EnterStep, AcquireGlobalStep, LoadCounterStep, AddCounterStep, RollbackStep,
     RefundStep, CountInStep, ReleaseStep, SubtractStep, DeleteCounterStep, ReleaseGlobalStep,
     CountOutStep DEF Handle
<1>2. CASE UpdateMax \/ UpdatePerIP \/ RecreateLimiters \/ Restart
  BY <1>2, UpdateMaxStep, UpdatePerIPStep, RecreateLimitersStep, RestartStep
<1>3. CASE UNCHANGED vars
  <2>1. UNCHANGED <<saved, cfg, reload, current, cap, sem, total, counter, value, conn>>
    BY <1>3 DEF vars, configVars, limiterVars, counterVars
  <2> QED
    BY <2>1 DEF IInv, TypeOK, LimitsSet, ConnsOK, SlotsCounted, Slots, TotalCounted, Counted,
       OneHome, ChargesBound, Charges
<1> QED
  BY <1>1, <1>2, <1>3 DEF Next

-----------------------------------------------------------------------------
\* Every reachable state of the limiter satisfies the inductive invariant.
THEOREM InductiveInvariant == Spec => []IInv
BY InitIInv, NextIInv, PTL DEF Spec

\* The capacity of a limiter is kept (LimiterSafe), for any number of connections,
\* addresses and objects: who holds a slot has a token in the semaphore.
THEOREM CapacityIsKept == Spec => []LimiterSafe
<1>1. IInv => LimiterSafe
  <2> SUFFICES ASSUME IInv, NEW l \in Limiters
               PROVE  Cardinality(HoldingOn(l)) <= cap[l]
    BY DEF IInv, LimiterSafe, CapacityKept
  <2>1. HoldingOn(l) \subseteq Slots(l)
    BY DEF HoldingOn, On, Slots, SlotStates
  <2>2. IsFiniteSet(Slots(l))
    BY ConnsAssumption, FS_Subset DEF Slots
  <2>3. Cardinality(HoldingOn(l)) <= Cardinality(Slots(l))
    BY <2>1, <2>2, FS_Subset
  <2>4. /\ Cardinality(HoldingOn(l)) \in Nat /\ sem[l] = Cardinality(Slots(l))
        /\ sem[l] \in Nat /\ cap[l] \in Nat /\ sem[l] <= cap[l]
    BY <2>1, <2>2, FS_Subset, FS_CardinalityType DEF IInv, TypeOK, SlotsCounted
  <2> QED
    BY <2>3, <2>4
<1> QED
  BY <1>1, InductiveInvariant, PTL

\* A limiter that no connection uses has no slot and no count left (Drained).
THEOREM LimitersDrain == Spec => []Drained
<1>1. IInv => Drained
  <2> SUFFICES ASSUME IInv, NEW l \in Limiters, On(l) = {}
               PROVE  sem[l] = 0 /\ total[l] = 0
    BY DEF Drained
  <2>1. Slots(l) = {} /\ Counted(l) = {}
    BY DEF Slots, Counted, On
  <2> QED
    BY <2>1, FS_EmptySet DEF IInv, SlotsCounted, TotalCounted
<1> QED
  BY <1>1, InductiveInvariant, PTL

\* No address is charged for more connections than it has (NeverOvercharged), whatever
\* the races between loading, charging and deleting its counters.
THEOREM NobodyIsOvercharged == Spec => []NeverOvercharged
<1>1. IInv => NeverOvercharged
  <2> SUFFICES ASSUME IInv, NEW l \in Limiters, NEW i \in IPs, counter[l][i] # None
               PROVE  value[counter[l][i]] <= Cardinality({c \in On(l) : IPOf[c] = i})
    BY DEF NeverOvercharged
  <2> DEFINE own == {c \in On(l) : IPOf[c] = i}
  <2>1. Charges(l, i) \subseteq own /\ own \subseteq Conns
    BY DEF Charges, On
  <2>2. IsFiniteSet(own)
    BY <2>1, ConnsAssumption, FS_Subset
  <2>3. /\ Cardinality(Charges(l, i)) <= Cardinality(own)
        /\ Cardinality(Charges(l, i)) \in Nat /\ Cardinality(own) \in Nat
    BY <2>1, <2>2, FS_Subset, FS_CardinalityType
  <2>4. counter[l][i] \in Counters /\ value[counter[l][i]] \in Int
    BY Ranges DEF IInv
  <2>5. value[counter[l][i]] <= Cardinality(Charges(l, i))
    BY DEF IInv, ChargesBound
  <2> QED
    BY <2>3, <2>4, <2>5
<1> QED
  BY <1>1, InductiveInvariant, PTL
=============================================================================
