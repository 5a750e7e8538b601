----------------------------- MODULE ConnLimiter -----------------------------
(***************************************************************************)
(* The connection limiter of a proxy (src/internal/proxy/limiter.go) under *)
(* reloads of its configuration (src/internal/config/limiter.go,          *)
(* src/internal/web/service_config.go).                                    *)
(*                                                                         *)
(* Nothing is locked: a limiter has a semaphore (a buffered channel), a    *)
(* concurrent map from a source address to a counter object, and an atomic *)
(* total.  A connection keeps the limiter it started with, reads the       *)
(* configuration again when it releases its slot, and looks its counter up *)
(* again by address.  A step is one operation on one of these objects.     *)
(*                                                                         *)
(* The web manager refuses 0 for either limit (updateLimiterConfig), so a  *)
(* reload never switches a limit on or off; the code that treats 0 as      *)
(* "unlimited" is kept all the same.                                       *)
(*                                                                         *)
(* Identities are reused: a limiter or a counter no variable refers to is  *)
(* garbage and may stand for a new one.                                    *)
(***************************************************************************)
EXTENDS Integers, FiniteSets

CONSTANTS
    Conns,          \* connections; each may come again after it ended
    IPs, IPOf,      \* source addresses, and that of each connection
    Limiters,       \* ConnectionLimiter objects
    Counters,       \* *int32 counter objects
    Configs,        \* configurations the administrator sets: [max, perIP]
    DefaultMax,     \* DefaultMaxConcurrentConnections
    Unlimited,      \* the capacity that stands for no limit
    None            \* no limiter, no counter

ASSUME ConnsAssumption == IsFiniteSet(Conns)
ASSUME IPAssumption == IPOf \in [Conns -> IPs]
ASSUME ConfigAssumption == Configs \subseteq [max : Nat \ {0}, perIP : Nat \ {0}]
ASSUME DefaultAssumption == DefaultMax \in Nat \ {0} /\ Unlimited \in Nat \ {0}
ASSUME NoneAssumption == None \notin Limiters \cup Counters

VARIABLES
    saved,      \* the configuration in the database
    cfg,        \* globalMaxConnections, globalMaxConnectionsPerIP
    current,    \* the limiter pointer
    reload,     \* the configuration a reload is installing, or None; and its stage
    cap, sem,   \* per limiter: capacity of globalSem, and its length
    total,      \* per limiter: totalConnections
    counter,    \* per limiter and address: perIPCounters
    value,      \* per counter object, which may fall below zero
    conn        \* per connection: its handler and what it holds

configVars  == <<saved, cfg, reload>>
limiterVars == <<cap, sem, total>>
counterVars == <<counter, value>>
vars == <<configVars, current, limiterVars, counterVars, conn>>

ConnStates == {"idle", "acquire", "load", "add", "rollback", "refund", "hold",
               "release", "subtract", "delete", "signal", "count"}
Conn == [pc : ConnStates, limiter : Limiters \cup {None}, counter : Counters \cup {None},
         max : Nat, perIP : Nat]
NoConn == [pc |-> "idle", limiter |-> None, counter |-> None, max |-> 0, perIP |-> 0]
NoReload == [stage |-> "none", max |-> 0, perIP |-> 0]

TypeOK ==
    /\ saved \in [max : Nat, perIP : Nat]
    /\ cfg \in [max : Nat, perIP : Nat]
    /\ current \in Limiters
    /\ reload \in [stage : {"none", "perIP", "recreate"}, max : Nat, perIP : Nat]
    /\ cap \in [Limiters -> Nat]
    /\ sem \in [Limiters -> Nat] /\ \A l \in Limiters : sem[l] <= cap[l]
    /\ total \in [Limiters -> Nat]
    /\ counter \in [Limiters -> [IPs -> Counters \cup {None}]]
    /\ value \in [Counters -> Int]
    /\ conn \in [Conns -> Conn]

\* What NewConnectionLimiter makes of MaxConcurrentConnections.
Capacity(max) == IF max = 0 THEN Unlimited ELSE max

-----------------------------------------------------------------------------
(* Acquire *)

Go(c, pc) == conn' = [conn EXCEPT ![c].pc = pc]
Drop(c) == conn' = [conn EXCEPT ![c] = NoConn]

\* The handler of an accepted connection takes the limiter of the moment.
Enter(c) ==
    /\ conn[c].pc = "idle"
    /\ conn' = [conn EXCEPT ![c] = [NoConn EXCEPT !.pc = "acquire", !.limiter = current]]
    /\ UNCHANGED <<configVars, current, limiterVars, counterVars>>

\* Read the configuration, then try the global semaphore without blocking.
AcquireGlobal(c) ==
    LET l == conn[c].limiter IN
    /\ conn[c].pc = "acquire"
    /\ IF cfg.max > 0 /\ sem[l] = cap[l]
         THEN Drop(c) /\ UNCHANGED sem
         ELSE /\ sem' = IF cfg.max > 0 THEN [sem EXCEPT ![l] = @ + 1] ELSE sem
              /\ conn' = [conn EXCEPT ![c].max = cfg.max, ![c].perIP = cfg.perIP,
                                      ![c].pc = IF cfg.perIP > 0 THEN "load" ELSE "count"]
    /\ UNCHANGED <<configVars, current, cap, total, counterVars>>

\* A counter object no map entry and no connection refers to.
FreshCounters ==
    {k \in Counters : /\ \A l \in Limiters, i \in IPs : counter[l][i] # k
                      /\ \A c \in Conns : conn[c].counter # k}

\* perIPCounters.LoadOrStore
LoadCounter(c) ==
    LET l == conn[c].limiter
        ip == IPOf[c] IN
    /\ conn[c].pc = "load"
    /\ IF counter[l][ip] # None
         THEN /\ conn' = [conn EXCEPT ![c].counter = counter[l][ip], ![c].pc = "add"]
              /\ UNCHANGED counterVars
         ELSE \E k \in FreshCounters :
              /\ counter' = [counter EXCEPT ![l][ip] = k]
              /\ value' = [value EXCEPT ![k] = 0]
              /\ conn' = [conn EXCEPT ![c].counter = k, ![c].pc = "add"]
    /\ UNCHANGED <<configVars, current, limiterVars>>

\* atomic.AddInt32(counter, 1), and the comparison of the result with the limit.
AddCounter(c) ==
    LET k == conn[c].counter IN
    /\ conn[c].pc = "add"
    /\ value' = [value EXCEPT ![k] = @ + 1]
    /\ conn' = IF value[k] + 1 > conn[c].perIP
                 THEN [conn EXCEPT ![c].pc = "rollback"]
                 ELSE [conn EXCEPT ![c].pc = "count", ![c].counter = None]
    /\ UNCHANGED <<configVars, current, limiterVars, counter>>

RollbackSkipped(c) ==
    /\ conn[c].pc = "rollback"
    /\ conn' = [conn EXCEPT ![c].counter = None, ![c].pc = "refund"]
    /\ UNCHANGED <<value, configVars, current, limiterVars, counter>>

\* The limit is exceeded: take the increment back, whatever is left of it by now ...
Rollback(c) ==
    /\ conn[c].pc = "rollback"
    /\ value' = [value EXCEPT ![conn[c].counter] = @ - 1]
    /\ conn' = [conn EXCEPT ![c].counter = None, ![c].pc = "refund"]
    /\ UNCHANGED <<configVars, current, limiterVars, counter>>

RefundSkipped(c) ==
    /\ conn[c].pc = "refund"
    /\ Drop(c)
    /\ UNCHANGED <<sem, configVars, current, cap, total, counterVars>>

\* ... and the slot of the semaphore.  The receive blocks when another connection took
\* that slot.
Refund(c) ==
    LET l == conn[c].limiter IN
    /\ conn[c].pc = "refund"
    /\ conn[c].max > 0 => sem[l] > 0
    /\ sem' = IF conn[c].max > 0 THEN [sem EXCEPT ![l] = @ - 1] ELSE sem
    /\ Drop(c)
    /\ UNCHANGED <<configVars, current, cap, total, counterVars>>

\* The slot is acquired: totalConnections.Add(1).
CountIn(c) ==
    LET l == conn[c].limiter IN
    /\ conn[c].pc = "count"
    /\ total' = [total EXCEPT ![l] = @ + 1]
    /\ Go(c, "hold")
    /\ UNCHANGED <<configVars, current, cap, sem, counterVars>>

-----------------------------------------------------------------------------
(* Release *)

\* Read the configuration again and look the counter up again.
Release(c) ==
    LET k == counter[conn[c].limiter][IPOf[c]] IN
    /\ conn[c].pc = "hold"
    /\ conn' = [conn EXCEPT ![c].max = cfg.max, ![c].perIP = cfg.perIP,
                  ![c].counter = IF cfg.perIP > 0 THEN k ELSE None,
                  ![c].pc = IF cfg.perIP > 0 /\ k # None THEN "subtract" ELSE "release"]
    /\ UNCHANGED <<configVars, current, limiterVars, counterVars>>

\* The compare-and-swap loop: subtract one, never below zero.
Subtract(c) ==
    LET k == conn[c].counter IN
    /\ conn[c].pc = "subtract"
    /\ value' = IF value[k] > 0 THEN [value EXCEPT ![k] = @ - 1] ELSE value
    /\ conn' = [conn EXCEPT ![c].pc = IF value[k] = 1 THEN "delete" ELSE "release",
                            ![c].counter = None]
    /\ UNCHANGED <<configVars, current, limiterVars, counter>>

\* perIPCounters.Delete, whatever the entry holds by now.
DeleteCounter(c) ==
    /\ conn[c].pc = "delete"
    /\ counter' = [counter EXCEPT ![conn[c].limiter][IPOf[c]] = None]
    /\ Go(c, "release")
    /\ UNCHANGED <<configVars, current, limiterVars, value>>

ReleaseGlobalCurrent(c) ==
    /\ conn[c].pc = "release"
    /\ sem' = IF conn[c].max > 0 /\ sem[current] > 0 THEN [sem EXCEPT ![current] = @ - 1] ELSE sem
    /\ Go(c, "signal")
    /\ UNCHANGED <<configVars, current, cap, total, counterVars>>

\* Take a slot out of the semaphore, if there is one.
ReleaseGlobal(c) ==
    LET l == conn[c].limiter IN
    /\ conn[c].pc = "release"
    /\ sem' = IF conn[c].max > 0 /\ sem[l] > 0 THEN [sem EXCEPT ![l] = @ - 1] ELSE sem
    /\ Go(c, "signal")
    /\ UNCHANGED <<configVars, current, cap, total, counterVars>>

\* totalConnections.Add(-1); it is put back to 0 should it become negative.
CountOut(c) ==
    LET l == conn[c].limiter IN
    /\ conn[c].pc = "signal"
    /\ total' = [total EXCEPT ![l] = IF @ > 0 THEN @ - 1 ELSE 0]
    /\ Drop(c)
    /\ UNCHANGED <<configVars, current, cap, sem, counterVars>>

Handle(c) ==
    \/ Enter(c) \/ AcquireGlobal(c) \/ LoadCounter(c) \/ AddCounter(c) \/ Rollback(c) \/ Refund(c)
    \/ CountIn(c) \/ Release(c) \/ Subtract(c) \/ DeleteCounter(c) \/ ReleaseGlobal(c) \/ CountOut(c)

-----------------------------------------------------------------------------
(* The configuration *)

\* UpdateLimiterConfig: the database, then the first of the two atomics ...
UpdateMax ==
    /\ reload = NoReload
    /\ \E f \in Configs :
         /\ saved' = f
         /\ cfg' = [cfg EXCEPT !.max = f.max]
         /\ reload' = [stage |-> "perIP", max |-> f.max, perIP |-> f.perIP]
    /\ UNCHANGED <<current, limiterVars, counterVars, conn>>

\* ... then the other ...
UpdatePerIP ==
    /\ reload.stage = "perIP"
    /\ cfg' = [cfg EXCEPT !.perIP = reload.perIP]
    /\ reload' = [reload EXCEPT !.stage = "recreate"]
    /\ UNCHANGED <<saved, current, limiterVars, counterVars, conn>>

\* ... and RecreateLimiters: connections that hold a slot keep the old limiter.
RecreateLimiters ==
    /\ reload.stage = "recreate"
    /\ \E l \in Limiters :
         /\ l # current /\ \A c \in Conns : conn[c].limiter # l
         /\ current' = l
         /\ cap' = [cap EXCEPT ![l] = Capacity(cfg.max)]
         /\ sem' = [sem EXCEPT ![l] = 0]
         /\ total' = [total EXCEPT ![l] = 0]
         /\ counter' = [counter EXCEPT ![l] = [i \in IPs |-> None]]
    /\ reload' = NoReload
    /\ UNCHANGED <<saved, cfg, value, conn>>

\* A new process: the limiters are made by init(), from the default configuration,
\* before InitLimiterConfig reads the database.
Restart ==
    /\ cfg' = saved
    /\ reload' = NoReload
    /\ cap' = [l \in Limiters |-> Capacity(DefaultMax)]
    /\ sem' = [l \in Limiters |-> 0]
    /\ total' = [l \in Limiters |-> 0]
    /\ counter' = [l \in Limiters |-> [i \in IPs |-> None]]
    /\ value' = [k \in Counters |-> 0]
    /\ conn' = [c \in Conns |-> NoConn]
    /\ UNCHANGED <<saved, current>>

Init ==
    /\ saved \in Configs /\ cfg = saved /\ reload = NoReload
    /\ current \in Limiters
    /\ cap = [l \in Limiters |-> Capacity(DefaultMax)]
    /\ sem = [l \in Limiters |-> 0]
    /\ total = [l \in Limiters |-> 0]
    /\ counter = [l \in Limiters |-> [i \in IPs |-> None]]
    /\ value = [k \in Counters |-> 0]
    /\ conn = [c \in Conns |-> NoConn]

Next ==
    \/ \E c \in Conns : Handle(c)
    \/ UpdateMax \/ UpdatePerIP \/ RecreateLimiters \/ Restart

Spec == Init /\ [][Next]_vars

-----------------------------------------------------------------------------
(* Properties *)

On(l) == {c \in Conns : conn[c].limiter = l}
HoldingOn(l) == {c \in On(l) : conn[c].pc = "hold"}

\* A limiter that no connection uses is as good as new: no slot and no count leaks
\* through refused connections or reloads of the configuration in mid-flight.  (A counter
\* of an address may be left over, but NeverOvercharged says that it charges nothing.)
Drained == \A l \in Limiters : On(l) = {} => sem[l] = 0 /\ total[l] = 0

\* An address is never charged for more connections than it has, whatever the races on
\* its counters: a client is not locked out by connections that ended.
NeverOvercharged ==
    \A l \in Limiters, i \in IPs :
        counter[l][i] # None =>
            value[counter[l][i]] <= Cardinality({c \in On(l) : IPOf[c] = i})

\* The connections that hold a slot of a limiter never exceed its capacity, although
\* Release reads a configuration that may differ from the one Acquire read.
CapacityKept == \A l \in Limiters : Cardinality(HoldingOn(l)) <= cap[l]

LimiterSafe == TypeOK /\ CapacityKept
=============================================================================
