----------------------------- MODULE AdminAccess -----------------------------
(***************************************************************************)
(* The administrator's password and the token that allows to set it for    *)
(* the first time (src/internal/web/admin_auth.go, handlers_admin.go).     *)
(*                                                                         *)
(* The password is a row of the database; the handlers read and write it   *)
(* without a lock.  Once it is set nothing in the program replaces it by   *)
(* another one: a login may only rewrite its hash in the newer format.     *)
(* Anybody who knows it can log in, so a session is to be had as soon as   *)
(* it is set.                                                              *)
(***************************************************************************)
EXTENDS Naturals

CONSTANT Handlers       \* request handlers that may be active at a time

VARIABLES
    configured,     \* the row KeyWebAdminPassword is there
    boot,           \* the handlers of handleAdminBootstrap: what each does next
    winners         \* history: bootstraps that were told they had set the password

adminVars == <<configured, boot, winners>>

AdminTypeOK ==
    /\ configured \in BOOLEAN
    /\ boot \in [Handlers -> {"none", "validate", "insert"}]
    /\ winners \in Nat

AdminInit ==
    /\ configured = FALSE
    /\ boot = [h \in Handlers |-> "none"]
    /\ winners = 0

AdminGoto(h, label) == boot' = [boot EXCEPT ![h] = label]

-----------------------------------------------------------------------------

\* handleAdminBootstrap with a password that is long enough; one that is set ends it.
BootstrapRequest(h) ==
    /\ boot[h] = "none" /\ ~configured
    /\ AdminGoto(h, "validate")
    /\ UNCHANGED <<configured, winners>>

\* validateAdminBootstrapToken looks at the row again, makes a token if there is none, and
\* compares: which token is in use, and so whether the request has it, is left open.
ValidateToken(h) ==
    /\ boot[h] = "validate"
    /\ AdminGoto(h, "none") \/ (~configured /\ AdminGoto(h, "insert"))
    /\ UNCHANGED <<configured, winners>>

\* SetSystemConfigIfAbsent: the database decides which of two bootstraps is the first; the
\* other one is told that the password is set.
InsertPassword(h) ==
    /\ boot[h] = "insert"
    /\ configured' = TRUE
    /\ winners' = IF configured THEN winners ELSE winners + 1
    /\ AdminGoto(h, "none")

AdminNext(h) == BootstrapRequest(h) \/ ValidateToken(h) \/ InsertPassword(h)

\* The password is set once, by one request, however many hold a valid token: the checks
\* before the insertion are stale by the time it is made.
SetOnce == winners = (IF configured THEN 1 ELSE 0)
=============================================================================
