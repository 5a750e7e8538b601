---------------------------- MODULE MCConnLimiter ----------------------------
(* ConnLimiter for TLC: three connections of one address. *)
EXTENDS ConnLimiter, TLC

CONSTANTS c1, c2, c3, addr, m1, m2, k1, k2, k3, k4

IPOfAll == [c \in {c1, c2, c3} |-> addr]

\* Reloads that move both limits, in opposite directions.
ConfigsMoving == {[max |-> 1, perIP |-> 2], [max |-> 3, perIP |-> 1]}

Symmetry == Permutations({c1, c2, c3}) \cup Permutations({m1, m2})

\* Which counter object it is does not matter, only its value and who refers to it: states
\* that differ in the names of the counters, or in what is garbage, are one.
Counter(k) ==
    IF k = None THEN <<>>
    ELSE <<value[k], {d \in Conns : conn[d].counter = k},
           {e \in Limiters \X IPs : counter[e[1]][e[2]] = k}>>
View == <<configVars, current, limiterVars,
          [l \in Limiters |-> [i \in IPs |-> Counter(counter[l][i])]],
          [c \in Conns |-> [conn[c] EXCEPT !.counter = Counter(@)]]>>
=============================================================================
