---------------------------- MODULE SessionLock ----------------------------
(***************************************************************************)
(* The phpredis session save handler with session locking                  *)
(* (redis_session.c, redis.session.locking_enabled = 1, one server in      *)
(* session.save_path).                                                     *)
(*                                                                         *)
(* Several PHP processes serve requests that open the same sessions.  A    *)
(* handler call (PS_READ, PS_WRITE, ...) sends its commands one by one and *)
(* other processes run between two commands, so an action is one command   *)
(* with the code around it up to the next one.  Redis executes a command   *)
(* atomically.  A reply can get lost: then the client closes the socket,   *)
(* and the command it gave up on is executed later, or never (late).       *)
(*                                                                         *)
(* Abstractions.  The 16 random bytes of a lock secret are a number that   *)
(* is never drawn twice by a process: a secret is <<process, number>>.     *)
(* The session data is represented by the secret of the session that wrote *)
(* it.  Times are not measured: a lock with a TTL may expire at any step.  *)
(***************************************************************************)
EXTENDS Integers

CONSTANTS
    Procs,                \* PHP processes
    Sids,                 \* session ids
    None,                 \* a NULL pointer, a missing key
    LockExpire,           \* INI redis.session.lock_expire
    MaxExecutionTime,     \* INI max_execution_time
    LockRetries,          \* INI redis.session.lock_retries
    LockFailureReadonly,  \* INI redis.session.lock_failure_readonly
    EarlyRefresh,         \* INI redis.session.early_refresh
    StrictMode,           \* INI session.use_strict_mode
    ReleaseCmd,           \* INI redis.session.lock_release_cmd
    ServerHasReleaseCmd,  \* does the server know DELEX / DELIFEQ?
    Cookies,              \* bound: ids that requests present, None for no id
    Scripts,              \* bound: what scripts do with an open session
    MaxOpens,             \* bound: calls of PS_OPEN in a process
    MaxFaults             \* bound: lost replies, error replies, crashes

Secrets == Procs \X Nat

ASSUME ConfigAssumption ==
    /\ None \notin Sids
    /\ None \notin Secrets
    /\ LockExpire \in Nat
    /\ MaxExecutionTime \in Nat
    /\ LockRetries \in Int
    /\ LockFailureReadonly \in BOOLEAN
    /\ EarlyRefresh \in BOOLEAN
    /\ StrictMode \in BOOLEAN
    /\ ReleaseCmd \in {"EVAL", "DELEX", "DELIFEQ"}
    /\ ServerHasReleaseCmd \in BOOLEAN
    /\ Cookies \subseteq Sids \cup {None}
    /\ Scripts \subseteq {"write", "touch", "abort", "destroy", "regenerate",
                       "regenerate_delete"}
    /\ MaxOpens \in Nat
    /\ MaxFaults \in Nat

\* lock_acquire: how long a lock lives; 0 means that it has no TTL
Expiry == IF LockExpire = 0 THEN MaxExecutionTime ELSE LockExpire

\* lock_acquire: 0 retries stands for 100, -1 for no limit
Retries == IF LockRetries = 0 THEN 100 ELSE LockRetries

\* PS_CREATE_SID: attempts to lock a fresh session id
CreateTries == 3

VARIABLES
    \* the Redis server
    lock,       \* lock[s]: value of the lock key of session s
    data,       \* data[s]: value of the session key of s
    cached,     \* has the release script been loaded by an EVAL?
    late,       \* commands whose sender stopped waiting for them
    \* the request a PHP process serves
    pc,         \* the command or handler that comes next
    sid,        \* PS(id)
    plan,       \* what follows PS_CLOSE: "end", or "regen" to open again
    ret,        \* which handler called lock_release: "del" or "close"
    view,       \* the data PS_READ returned
    missing,    \* pool->session_key_missing
    \* the handler's pool
    up,         \* is the pool's socket READY?
    locked,     \* lock_status.is_locked
    skey,       \* lock_status.session_key: "null", "live" or "freed"
    lkey,       \* lock_status.lock_key
    nonce,      \* lock_status.lock_secret of p is <<p, nonce[p]>>
    attempt,    \* failed SETs of the running lock_acquire
    tries,      \* retries left in PS_CREATE_SID
    \* bounds and history
    opens,      \* calls of PS_OPEN, those to come after "regen" included
    faults,     \* faults so far
    expired,    \* secrets of locks removed by their TTL
    tainted,    \* secrets of sessions that met a fault
    overdue,    \* secrets of sessions whose SETEX was executed late
    granted     \* secrets that Redis has stored in a lock

serverVars  == <<lock, data, cached, late>>
requestVars == <<pc, sid, plan, ret, view, missing>>
poolVars    == <<up, locked, skey, lkey, nonce, attempt, tries>>
faultVars   == <<faults, tainted>>
historyVars == <<opens, expired, overdue, granted>>
vars == <<serverVars, requestVars, poolVars, faultVars, historyVars>>

Labels == {"none", "validate", "create", "createlock", "read", "readlock",
           "get", "active", "write", "setex", "touch", "destroy",
           "relcmd", "evalsha", "eval", "del", "close"}

Request == [op : {"SET", "SETEX", "DEL", "REL"}, key : Sids, tag : Secrets]

Secret(p) == <<p, nonce[p]>>

-----------------------------------------------------------------------------
(* What Redis does with a command that changes keys *)

\* Variant: the lock is released by a plain DEL, whoever holds it.
LockAfterPlainDel(r) ==
    IF r.op = "SET" /\ lock[r.key] = None
    THEN [lock EXCEPT ![r.key] = r.tag]
    ELSE IF r.op = "REL" THEN [lock EXCEPT ![r.key] = None] ELSE lock

\* SET NX stores the lock of a free session; the release script, DELEX and
\* DELIFEQ delete the lock only if it holds the sender's secret.
LockAfter(r) ==
    IF r.op = "SET" /\ lock[r.key] = None
    THEN [lock EXCEPT ![r.key] = r.tag]
    ELSE IF r.op = "REL" /\ lock[r.key] = r.tag
    THEN [lock EXCEPT ![r.key] = None]
    ELSE lock

DataAfter(r) ==
    IF r.op = "SETEX" THEN [data EXCEPT ![r.key] = r.tag]
    ELSE IF r.op = "DEL" THEN [data EXCEPT ![r.key] = None]
    ELSE data

Execute(r) == lock' = LockAfter(r) /\ data' = DataAfter(r)

Cmd(op, p, s) == [op |-> op, key |-> s, tag |-> Secret(p)]

-----------------------------------------------------------------------------
(* Faults *)

Fault(p) ==
    /\ faults < MaxFaults
    /\ faults' = faults + 1
    /\ tainted' = tainted \cup {Secret(p)}

\* A read timeout or EOF: redis_sock_gets closes the socket and throws.
Lost(p, r) ==
    /\ Fault(p)
    /\ late' = late \cup {r}
    /\ up' = [up EXCEPT ![p] = FALSE]

\* Redis answers with an error and does not execute the command.
Refused(p) == Fault(p) /\ UNCHANGED <<late, up>>

\* A command that changes no key is not answered: timeout or error reply.
Unanswered(p) == Fault(p) /\ \E b \in BOOLEAN : up' = [up EXCEPT ![p] = b]

\* redis_pool_get_sock: redis_sock_server_open connects a socket that is down
Connected(p) == up' = [up EXCEPT ![p] = TRUE]
NoSock(p) == ~up[p] /\ Fault(p) /\ UNCHANGED up

-----------------------------------------------------------------------------
(* Control of a request *)

Goto(p, l) == pc' = [pc EXCEPT ![p] = l]

\* The pool is freed: by PS_CLOSE, or because the process dies.
Freed(p, next) ==
    /\ Goto(p, next)
    /\ sid'     = [sid EXCEPT ![p] = None]
    /\ plan'    = [plan EXCEPT ![p] = "end"]
    /\ ret'     = [ret EXCEPT ![p] = "close"]
    /\ view'    = [view EXCEPT ![p] = None]
    /\ missing' = [missing EXCEPT ![p] = FALSE]
    /\ up'      = [up EXCEPT ![p] = FALSE]
    /\ locked'  = [locked EXCEPT ![p] = FALSE]
    /\ skey'    = [skey EXCEPT ![p] = "null"]
    /\ lkey'    = [lkey EXCEPT ![p] = None]
    /\ attempt' = [attempt EXCEPT ![p] = 0]
    /\ tries'   = [tries EXCEPT ![p] = CreateTries]
    /\ UNCHANGED nonce

\* After PS_CLOSE; session_regenerate_id opens the handler again (PS_OPEN
\* makes a new pool) and asks for a new id.
Closed(p) == Freed(p, IF plan[p] = "regen" THEN "create" ELSE "none")

\* A failing PS_WRITE or PS_DESTROY ends session_regenerate_id early.
FailToClose(p) ==
    /\ Goto(p, "close")
    /\ plan' = [plan EXCEPT ![p] = "end"]
    /\ UNCHANGED <<sid, ret, view, missing>>

\* session_start: PS_OPEN, then the id of the cookie is read, validated
\* (strict mode), or there is none and one is created.
Open(p) ==
    /\ pc[p] = "none"
    /\ opens[p] < MaxOpens
    /\ opens' = [opens EXCEPT ![p] = @ + 1]
    /\ \E s \in Cookies :
          /\ sid' = [sid EXCEPT ![p] = s]
          /\ Goto(p, IF s = None THEN "create"
                     ELSE IF StrictMode THEN "validate" ELSE "read")
    /\ UNCHANGED <<serverVars, plan, ret, view, missing, poolVars, faultVars,
                   expired, overdue, granted>>

-----------------------------------------------------------------------------
(* PS_VALIDATE_SID: EXISTS session; an unknown id is replaced *)

Validate(p) ==
    /\ pc[p] = "validate"
    /\ Connected(p)
    /\ Goto(p, IF data[sid[p]] # None THEN "read" ELSE "create")
    /\ UNCHANGED <<serverVars, sid, plan, ret, view, missing, locked, skey, lkey,
                   nonce, attempt, tries, faultVars, historyVars>>

ValidateFails(p) ==
    /\ pc[p] = "validate"
    /\ NoSock(p) \/ Unanswered(p)
    /\ Goto(p, "create")
    /\ UNCHANGED <<serverVars, sid, plan, ret, view, missing, locked, skey, lkey,
                   nonce, attempt, tries, historyVars>>

-----------------------------------------------------------------------------
(* lock_acquire: generate_lock_key, generate_lock_secret, SET key secret NX *)

\* Variant: the secret identifies the process only (the fallback of
\* generate_lock_secret, host name and pid).
NewLockPid(p, s) ==
    /\ skey'    = [skey EXCEPT ![p] = "live"]
    /\ lkey'    = [lkey EXCEPT ![p] = s]
    /\ nonce'   = [nonce EXCEPT ![p] = 1]
    /\ attempt' = [attempt EXCEPT ![p] = 0]

\* The lock status before the first SET, for session s
NewLock(p, s) ==
    /\ skey'    = [skey EXCEPT ![p] = "live"]
    /\ lkey'    = [lkey EXCEPT ![p] = s]
    /\ nonce'   = [nonce EXCEPT ![p] = @ + 1]
    /\ attempt' = [attempt EXCEPT ![p] = 0]

\* if (retries >= 0 && attempt++ >= retries) break;
GivesUp(p) == Retries >= 0 /\ attempt[p] >= Retries

\* Variant: failed attempts are not counted.
TryAgainUncounted(p) ==
    ~GivesUp(p) /\ UNCHANGED <<attempt, pc, skey>>

TryAgain(p) ==
    /\ ~GivesUp(p)
    /\ attempt' = [attempt EXCEPT ![p] = IF Retries >= 0 THEN @ + 1 ELSE @]
    /\ UNCHANGED <<pc, skey>>

\* Variant: PS_CREATE_SID loops without looking at retries.
LockFailedNoLimit(p) ==
    /\ UNCHANGED attempt
    /\ \/ /\ pc[p] = "createlock"
          /\ skey' = [skey EXCEPT ![p] = "freed"]
          /\ Goto(p, "create")
       \/ /\ pc[p] = "readlock"
          /\ UNCHANGED skey
          /\ Goto(p, IF LockFailureReadonly THEN "get" ELSE "close")

\* lock_acquire returns FAILURE.  PS_CREATE_SID releases session_key without
\* clearing the pointer, and loops or returns NULL (session_start then closes).
\* PS_READ fails (then closes) or goes on with a read-only session.
LockFailed(p) ==
    /\ UNCHANGED attempt
    /\ \/ /\ pc[p] = "createlock"
          /\ skey' = [skey EXCEPT ![p] = "freed"]
          /\ Goto(p, IF tries[p] = 0 THEN "close" ELSE "create")
       \/ /\ pc[p] = "readlock"
          /\ UNCHANGED skey
          /\ Goto(p, IF LockFailureReadonly THEN "get" ELSE "close")

\* No "+OK" came back though the command was sent.
NotLocked(p) == TryAgain(p) \/ (GivesUp(p) /\ LockFailed(p))

Locking(p) == pc[p] \in {"createlock", "readlock"}

\* Variant: the SET is sent again over a new connection after a lost reply.
LockGrantedAgain(p) ==
    /\ Locking(p)
    /\ lock[lkey[p]] = None
    /\ Execute(Cmd("SET", p, lkey[p]))
    /\ locked' = [locked EXCEPT ![p] = TRUE]
    /\ granted' = granted \cup {Secret(p)}
    /\ Goto(p, IF pc[p] = "createlock" THEN "read" ELSE "get")
    /\ UNCHANGED <<cached, late, sid, plan, ret, view, missing, up, skey, lkey,
                   nonce, attempt, tries, faultVars, opens, expired, overdue>>

LockGranted(p) ==
    /\ Locking(p) /\ up[p]
    /\ lock[lkey[p]] = None
    /\ Execute(Cmd("SET", p, lkey[p]))
    /\ locked' = [locked EXCEPT ![p] = TRUE]
    /\ granted' = granted \cup {Secret(p)}
    /\ Goto(p, IF pc[p] = "createlock" THEN "read" ELSE "get")
    /\ UNCHANGED <<cached, late, sid, plan, ret, view, missing, up, skey, lkey,
                   nonce, attempt, tries, faultVars, opens, expired, overdue>>

LockBusy(p) ==
    /\ Locking(p) /\ up[p]
    /\ lock[lkey[p]] # None
    /\ NotLocked(p)
    /\ UNCHANGED <<serverVars, sid, plan, ret, view, missing, up, locked, lkey,
                   nonce, tries, faultVars, historyVars>>

LockLost(p) ==
    /\ Locking(p) /\ up[p]
    /\ Lost(p, Cmd("SET", p, lkey[p])) \/ Refused(p)
    /\ NotLocked(p)
    /\ UNCHANGED <<lock, data, cached, sid, plan, ret, view, missing, locked,
                   lkey, nonce, tries, historyVars>>

\* The socket was closed by the previous attempt: redis_sock_write returns -1.
LockUnsent(p) ==
    /\ Locking(p) /\ ~up[p]
    /\ LockFailed(p)
    /\ UNCHANGED <<serverVars, sid, plan, ret, view, missing, up, locked, lkey,
                   nonce, tries, faultVars, historyVars>>

-----------------------------------------------------------------------------
(* PS_CREATE_SID *)

CreateSid(p) ==
    /\ pc[p] = "create"
    /\ Connected(p)
    /\ \E s \in Sids : sid' = [sid EXCEPT ![p] = s] /\ NewLock(p, s)
    /\ tries' = [tries EXCEPT ![p] = @ - 1]
    /\ Goto(p, "createlock")
    /\ UNCHANGED <<serverVars, plan, ret, view, missing, locked, faultVars,
                   historyVars>>

\* "Redis connection not available": an id without a lock
CreateSidNoSock(p) ==
    /\ pc[p] = "create"
    /\ NoSock(p)
    /\ \E s \in Sids : sid' = [sid EXCEPT ![p] = s]
    /\ Goto(p, "read")
    /\ UNCHANGED <<serverVars, plan, ret, view, missing, locked, skey, lkey,
                   nonce, attempt, tries, historyVars>>

-----------------------------------------------------------------------------
(* PS_READ *)

\* Variant: lock_acquire does not look at is_locked first.
ReadRelocks(p) ==
    /\ pc[p] = "read"
    /\ Connected(p)
    /\ NewLock(p, sid[p])
    /\ Goto(p, "readlock")
    /\ UNCHANGED <<serverVars, sid, plan, ret, view, missing, locked, tries,
                   faultVars, historyVars>>

Read(p) ==
    /\ pc[p] = "read"
    /\ Connected(p)
    /\ \/ /\ locked[p]              \* lock_acquire: already locked
          /\ skey' = [skey EXCEPT ![p] = "live"]
          /\ Goto(p, "get")
          /\ UNCHANGED <<lkey, nonce, attempt>>
       \/ /\ ~locked[p]
          /\ NewLock(p, sid[p])
          /\ Goto(p, "readlock")
    /\ UNCHANGED <<serverVars, sid, plan, ret, view, missing, locked, tries,
                   faultVars, historyVars>>

ReadNoSock(p) ==
    /\ pc[p] = "read"
    /\ NoSock(p)
    /\ Goto(p, "close")
    /\ UNCHANGED <<serverVars, sid, plan, ret, view, missing, locked, skey, lkey,
                   nonce, attempt, tries, historyVars>>

\* GET or GETEX; a missing key is an empty session
Get(p) ==
    /\ pc[p] = "get" /\ up[p]
    /\ view' = [view EXCEPT ![p] = data[sid[p]]]
    /\ missing' = [missing EXCEPT ![p] = data[sid[p]] = None]
    /\ Goto(p, "active")
    /\ UNCHANGED <<serverVars, sid, plan, ret, poolVars, faultVars, historyVars>>

GetFails(p) ==
    /\ pc[p] = "get"
    /\ \/ ~up[p] /\ UNCHANGED <<up, faultVars>>
       \/ up[p] /\ Unanswered(p)
    /\ Goto(p, "close")
    /\ UNCHANGED <<serverVars, sid, plan, ret, view, missing, locked, skey, lkey,
                   nonce, attempt, tries, historyVars>>

-----------------------------------------------------------------------------
(* The script: what it does with an open session, and the handler that runs *)

Handler == [write |-> "write", regenerate |-> "write", touch |-> "touch",
            abort |-> "close", destroy |-> "destroy",
            regenerate_delete |-> "destroy"]

Regenerates(script) == script \in {"regenerate", "regenerate_delete"}

Script(p) ==
    /\ pc[p] = "active"
    /\ \E script \in Scripts :
          /\ Goto(p, Handler[script])
          /\ \/ /\ ~Regenerates(script)
                /\ UNCHANGED <<plan, opens>>
             \/ /\ Regenerates(script)
                /\ opens[p] < MaxOpens
                /\ opens' = [opens EXCEPT ![p] = @ + 1]
                /\ plan' = [plan EXCEPT ![p] = "regen"]
    /\ UNCHANGED <<serverVars, sid, ret, view, missing, poolVars, faultVars,
                   expired, overdue, granted>>

-----------------------------------------------------------------------------
(* PS_WRITE: write_allowed, then SETEX.  The socket PS_READ used is still up. *)

\* "session lock not held": a read-only session
WriteDenied(p) ==
    /\ pc[p] = "write" /\ ~locked[p]
    /\ Connected(p)
    /\ FailToClose(p)
    /\ UNCHANGED <<serverVars, locked, skey, lkey, nonce, attempt, tries,
                   faultVars, historyVars>>

\* lock_expire = 0: the code takes the lock for granted
WriteUnchecked(p) ==
    /\ pc[p] = "write" /\ locked[p]
    /\ LockExpire = 0
    /\ Connected(p)
    /\ Goto(p, "setex")
    /\ UNCHANGED <<serverVars, sid, plan, ret, view, missing, locked, skey, lkey,
                   nonce, attempt, tries, faultVars, historyVars>>

\* GET lock_key, compared with the secret
WriteChecked(p) ==
    /\ pc[p] = "write" /\ locked[p]
    /\ LockExpire # 0
    /\ Connected(p)
    /\ \/ /\ lock[lkey[p]] = Secret(p)
          /\ Goto(p, "setex")
          /\ UNCHANGED <<sid, plan, ret, view, missing, locked>>
       \/ /\ lock[lkey[p]] # Secret(p)
          /\ locked' = [locked EXCEPT ![p] = FALSE]
          /\ FailToClose(p)
    /\ UNCHANGED <<serverVars, skey, lkey, nonce, attempt, tries, faultVars,
                   historyVars>>

WriteCheckFails(p) ==
    /\ pc[p] = "write" /\ locked[p]
    /\ LockExpire # 0
    /\ Unanswered(p)
    /\ locked' = [locked EXCEPT ![p] = FALSE]
    /\ FailToClose(p)
    /\ UNCHANGED <<serverVars, skey, lkey, nonce, attempt, tries, historyVars>>

Setex(p) ==
    /\ pc[p] = "setex"
    /\ Execute(Cmd("SETEX", p, sid[p]))
    /\ Goto(p, "close")
    /\ UNCHANGED <<cached, late, sid, plan, ret, view, missing, poolVars,
                   faultVars, historyVars>>

SetexFails(p) ==
    /\ pc[p] = "setex"
    /\ Lost(p, Cmd("SETEX", p, sid[p])) \/ Refused(p)
    /\ FailToClose(p)
    /\ UNCHANGED <<lock, data, cached, locked, skey, lkey, nonce, attempt, tries,
                   historyVars>>

-----------------------------------------------------------------------------
(* PS_UPDATE_TIMESTAMP: EXPIRE session; a session that is gone is written *)

RefreshedByRead(p) == EarlyRefresh /\ ~missing[p]

TouchSkipped(p) ==
    /\ pc[p] = "touch"
    /\ RefreshedByRead(p)
    /\ Goto(p, "close")
    /\ UNCHANGED <<serverVars, sid, plan, ret, view, missing, poolVars,
                   faultVars, historyVars>>

Touch(p) ==
    /\ pc[p] = "touch"
    /\ ~RefreshedByRead(p)
    /\ Connected(p)
    /\ Goto(p, IF data[sid[p]] = None THEN "write" ELSE "close")
    /\ UNCHANGED <<serverVars, sid, plan, ret, view, missing, locked, skey, lkey,
                   nonce, attempt, tries, faultVars, historyVars>>

TouchFails(p) ==
    /\ pc[p] = "touch"
    /\ ~RefreshedByRead(p)
    /\ Unanswered(p)
    /\ Goto(p, "close")
    /\ UNCHANGED <<serverVars, sid, plan, ret, view, missing, locked, skey, lkey,
                   nonce, attempt, tries, historyVars>>

-----------------------------------------------------------------------------
(* lock_release, called by PS_DESTROY (then DEL) and by PS_CLOSE *)

\* The first command lock_release sends
ReleaseStart(p, caller) ==
    /\ Connected(p)
    /\ ret' = [ret EXCEPT ![p] = caller]
    /\ Goto(p, IF ReleaseCmd = "EVAL" THEN "evalsha" ELSE "relcmd")

\* Back to the caller: l is the new is_locked, u tells if the socket is up
ReleaseEnd(p, l, u) ==
    \/ /\ ret[p] = "close"
       /\ Closed(p)
    \/ /\ ret[p] = "del"
       /\ Goto(p, "del")
       /\ locked' = [locked EXCEPT ![p] = l]
       /\ up' = [up EXCEPT ![p] = u]
       /\ UNCHANGED <<sid, plan, ret, view, missing, skey, lkey, nonce,
                      attempt, tries>>

\* lock_release_delex, lock_release_delifeq.  get_del_result compares the
\* reply's length with 4, so ":1" is DEL_FAILURE too: is_locked stays set and
\* the Lua script is not tried.
Delex(p) ==
    /\ pc[p] = "relcmd" /\ ServerHasReleaseCmd
    /\ Execute(Cmd("REL", p, lkey[p]))
    /\ ReleaseEnd(p, locked[p], TRUE)
    /\ UNCHANGED <<cached, late, faultVars, historyVars>>

\* "ERR unknown command": DEL_NO_CMD, the Lua script follows
DelexUnknown(p) ==
    /\ pc[p] = "relcmd" /\ ~ServerHasReleaseCmd
    /\ Goto(p, "evalsha")
    /\ UNCHANGED <<serverVars, sid, plan, ret, view, missing, poolVars,
                   faultVars, historyVars>>

DelexFails(p) ==
    /\ pc[p] = "relcmd"
    /\ Fault(p)
    /\ \/ /\ late' = IF ServerHasReleaseCmd
                     THEN late \cup {Cmd("REL", p, lkey[p])} ELSE late
          /\ ReleaseEnd(p, locked[p], FALSE)
       \/ /\ UNCHANGED late
          /\ ReleaseEnd(p, locked[p], TRUE)
    /\ UNCHANGED <<lock, data, cached, historyVars>>

\* lock_release_lua sends nothing unless is_locked is set.
ReleaseNothing(p) ==
    /\ pc[p] = "evalsha" /\ ~locked[p]
    /\ ReleaseEnd(p, FALSE, up[p])
    /\ UNCHANGED <<serverVars, faultVars, historyVars>>

\* Variant: NOSCRIPT is taken for an answer of the script.
EvalShaNoFallback(p) ==
    /\ pc[p] = "evalsha" /\ locked[p]
    /\ IF cached THEN Execute(Cmd("REL", p, lkey[p])) ELSE UNCHANGED <<lock, data>>
    /\ ReleaseEnd(p, FALSE, TRUE)
    /\ UNCHANGED <<cached, late, faultVars, historyVars>>

\* Any reply of EVALSHA or EVAL clears is_locked.
EvalSha(p) ==
    /\ pc[p] = "evalsha" /\ locked[p]
    /\ \/ /\ cached
          /\ Execute(Cmd("REL", p, lkey[p]))
          /\ ReleaseEnd(p, FALSE, TRUE)
       \/ /\ ~cached                          \* NOSCRIPT
          /\ Goto(p, "eval")
          /\ UNCHANGED <<lock, data, sid, plan, ret, view, missing, poolVars>>
    /\ UNCHANGED <<cached, late, faultVars, historyVars>>

EvalShaFails(p) ==
    /\ pc[p] = "evalsha" /\ locked[p]
    /\ Lost(p, Cmd("REL", p, lkey[p])) \/ Refused(p)
    /\ Goto(p, "eval")
    /\ UNCHANGED <<lock, data, cached, sid, plan, ret, view, missing, locked,
                   skey, lkey, nonce, attempt, tries, historyVars>>

Eval(p) ==
    /\ pc[p] = "eval" /\ up[p]
    /\ Execute(Cmd("REL", p, lkey[p]))
    /\ cached' = TRUE
    /\ ReleaseEnd(p, FALSE, TRUE)
    /\ UNCHANGED <<late, faultVars, historyVars>>

\* "Failed to release session lock": is_locked stays set
EvalFails(p) ==
    /\ pc[p] = "eval"
    /\ \/ /\ ~up[p]
          /\ ReleaseEnd(p, TRUE, FALSE)
          /\ UNCHANGED <<late, faultVars>>
       \/ /\ up[p] /\ Fault(p)
          /\ late' = late \cup {Cmd("REL", p, lkey[p])}
          /\ ReleaseEnd(p, TRUE, FALSE)
       \/ /\ up[p] /\ Fault(p)
          /\ ReleaseEnd(p, TRUE, TRUE)
          /\ UNCHANGED late
    /\ UNCHANGED <<lock, data, cached, historyVars>>

-----------------------------------------------------------------------------
(* PS_DESTROY: lock_release, then DEL session *)

Destroy(p) ==
    /\ pc[p] = "destroy"
    /\ ReleaseStart(p, "del")
    /\ UNCHANGED <<serverVars, sid, plan, view, missing, locked, skey, lkey,
                   nonce, attempt, tries, faultVars, historyVars>>

Del(p) ==
    /\ pc[p] = "del" /\ up[p]
    /\ Execute(Cmd("DEL", p, sid[p]))
    /\ Goto(p, "close")
    /\ UNCHANGED <<cached, late, sid, plan, ret, view, missing, poolVars,
                   faultVars, historyVars>>

DelFails(p) ==
    /\ pc[p] = "del"
    /\ \/ ~up[p] /\ UNCHANGED <<late, up, faultVars>>
       \/ up[p] /\ (Lost(p, Cmd("DEL", p, sid[p])) \/ Refused(p))
    /\ FailToClose(p)
    /\ UNCHANGED <<lock, data, cached, locked, skey, lkey, nonce, attempt, tries,
                   historyVars>>

-----------------------------------------------------------------------------
(* PS_CLOSE *)

Close(p) ==
    /\ pc[p] = "close" /\ skey[p] # "null"
    /\ ReleaseStart(p, "close")
    /\ UNCHANGED <<serverVars, sid, plan, view, missing, locked, skey, lkey,
                   nonce, attempt, tries, faultVars, historyVars>>

CloseNoSock(p) ==
    /\ pc[p] = "close" /\ skey[p] # "null"
    /\ ~up[p] /\ Fault(p)
    /\ Closed(p)
    /\ UNCHANGED <<serverVars, historyVars>>

\* No session_key was ever stored: nothing to release
CloseUnkeyed(p) ==
    /\ pc[p] = "close" /\ skey[p] = "null"
    /\ Closed(p)
    /\ UNCHANGED <<serverVars, faultVars, historyVars>>

-----------------------------------------------------------------------------
(* The environment *)

\* A killed process releases nothing.
Crash(p) ==
    /\ pc[p] # "none"
    /\ Fault(p)
    /\ Freed(p, "none")
    /\ UNCHANGED <<serverVars, historyVars>>

\* PS_CREATE_SID left session_key dangling; using it again may kill the process.
DanglingCrash(p) ==
    /\ skey[p] = "freed"
    /\ pc[p] \in {"create", "read", "close"}
    /\ tainted' = tainted \cup {Secret(p)}
    /\ Freed(p, "none")
    /\ UNCHANGED <<serverVars, faults, historyVars>>

LockExpires(s) ==
    /\ Expiry > 0
    /\ lock[s] # None
    /\ lock' = [lock EXCEPT ![s] = None]
    /\ expired' = expired \cup {lock[s]}
    /\ UNCHANGED <<data, cached, late, requestVars, poolVars, faultVars, opens,
                   overdue, granted>>

\* session.gc_maxlifetime is the TTL of the session key.
DataExpires(s) ==
    /\ data[s] # None
    /\ data' = [data EXCEPT ![s] = None]
    /\ UNCHANGED <<lock, cached, late, requestVars, poolVars, faultVars,
                   historyVars>>

\* Redis executes, or never receives, a command whose sender gave up on it.
LateCommand(r) ==
    /\ late' = late \ {r}
    /\ \/ /\ Execute(r)
          /\ overdue' = IF r.op = "SETEX" THEN overdue \cup {r.tag} ELSE overdue
          /\ granted' = IF r.op = "SET" /\ lock[r.key] = None
                        THEN granted \cup {r.tag} ELSE granted
       \/ UNCHANGED <<lock, data, overdue, granted>>
    /\ UNCHANGED <<cached, requestVars, poolVars, faultVars, opens, expired>>

\* All sessions of the bounded history are over.
Finished ==
    /\ \A p \in Procs : pc[p] = "none" /\ opens[p] = MaxOpens
    /\ UNCHANGED vars

-----------------------------------------------------------------------------

Init ==
    /\ lock    = [s \in Sids |-> None]
    /\ data    = [s \in Sids |-> None]
    /\ cached  = FALSE
    /\ late    = {}
    /\ pc      = [p \in Procs |-> "none"]
    /\ sid     = [p \in Procs |-> None]
    /\ plan    = [p \in Procs |-> "end"]
    /\ ret     = [p \in Procs |-> "close"]
    /\ view    = [p \in Procs |-> None]
    /\ missing = [p \in Procs |-> FALSE]
    /\ up      = [p \in Procs |-> FALSE]
    /\ locked  = [p \in Procs |-> FALSE]
    /\ skey    = [p \in Procs |-> "null"]
    /\ lkey    = [p \in Procs |-> None]
    /\ nonce   = [p \in Procs |-> 0]
    /\ attempt = [p \in Procs |-> 0]
    /\ tries   = [p \in Procs |-> CreateTries]
    /\ opens   = [p \in Procs |-> 0]
    /\ faults  = 0
    /\ expired = {}
    /\ tainted = {}
    /\ overdue = {}
    /\ granted = {}

Start(p) ==
    \/ Validate(p) \/ ValidateFails(p)
    \/ CreateSid(p) \/ CreateSidNoSock(p)
    \/ LockGranted(p) \/ LockBusy(p) \/ LockLost(p) \/ LockUnsent(p)
    \/ Read(p) \/ ReadNoSock(p) \/ Get(p) \/ GetFails(p)

Save(p) ==
    \/ WriteDenied(p) \/ WriteUnchecked(p)
    \/ WriteChecked(p) \/ WriteCheckFails(p) \/ Setex(p) \/ SetexFails(p)
    \/ TouchSkipped(p) \/ Touch(p) \/ TouchFails(p)

Finish(p) ==
    \/ Delex(p) \/ DelexUnknown(p) \/ DelexFails(p) \/ ReleaseNothing(p)
    \/ EvalSha(p) \/ EvalShaFails(p) \/ Eval(p) \/ EvalFails(p)
    \/ Destroy(p) \/ Del(p) \/ DelFails(p)
    \/ Close(p) \/ CloseNoSock(p) \/ CloseUnkeyed(p)

\* A request that was started runs on.
Step(p) == Start(p) \/ Script(p) \/ Save(p) \/ Finish(p)

Next ==
    \/ \E p \in Procs : Open(p) \/ Step(p) \/ Crash(p) \/ DanglingCrash(p)
    \/ \E s \in Sids : LockExpires(s) \/ DataExpires(s)
    \/ \E r \in late : LateCommand(r)
    \/ Finished

Spec == Init /\ [][Next]_vars

\* PHP runs a request to its end: handlers return, scripts finish, and request
\* shutdown closes the session.  Nothing forces a request to come, a key to
\* expire or an abandoned command to be executed.
FairSpec == Spec /\ \A p \in Procs : WF_vars(Step(p))

-----------------------------------------------------------------------------
(* Properties *)

TypeOK ==
    /\ lock \in [Sids -> Secrets \cup {None}]
    /\ data \in [Sids -> Secrets \cup {None}]
    /\ cached \in BOOLEAN
    /\ late \subseteq Request
    /\ pc \in [Procs -> Labels]
    /\ sid \in [Procs -> Sids \cup {None}]
    /\ plan \in [Procs -> {"end", "regen"}]
    /\ ret \in [Procs -> {"del", "close"}]
    /\ view \in [Procs -> Secrets \cup {None}]
    /\ missing \in [Procs -> BOOLEAN]
    /\ up \in [Procs -> BOOLEAN]
    /\ locked \in [Procs -> BOOLEAN]
    /\ skey \in [Procs -> {"null", "live", "freed"}]
    /\ lkey \in [Procs -> Sids \cup {None}]
    /\ nonce \in [Procs -> Nat]
    /\ attempt \in [Procs -> Nat]
    /\ tries \in [Procs -> 0..CreateTries]
    /\ opens \in [Procs -> 0..MaxOpens]
    /\ faults \in 0..MaxFaults
    /\ expired \subseteq Secrets
    /\ tainted \subseteq Secrets
    /\ overdue \subseteq Secrets
    /\ granted \subseteq Secrets

\* The process may still read or write the session under its lock.
Holding(p) ==
    locked[p] /\ pc[p] \in {"read", "get", "active", "write", "setex", "touch",
                           "destroy"}

\* Two processes are in the same session under a lock only if the lock of one
\* of them ran out: whatever is lost, retried, released twice or executed late
\* (lock_acquire, lock_release_lua, PS_CREATE_SID, PS_DESTROY, PS_CLOSE).
MutualExclusion ==
    \A p, q \in Procs :
        p # q /\ Holding(p) /\ Holding(q) /\ lkey[p] = lkey[q]
            => Secret(p) \in expired \/ Secret(q) \in expired

\* No lost update: from PS_READ to PS_WRITE the session data is what the holder
\* of the lock has read, or the session is gone.  Only a write of a process
\* whose own lock had run out, or one its sender gave up on, can get between.
StableSession ==
    \A p \in Procs :
        /\ Holding(p) /\ Secret(p) \notin expired
        /\ pc[p] \in {"active", "write", "setex", "touch", "destroy"}
        => data[sid[p]] \in {view[p], None} \cup expired \cup overdue

\* A lock in Redis belongs to a process that knows that it has it and has yet
\* to pass PS_CLOSE, unless a fault hit that session: no path through
\* PS_CREATE_SID, PS_READ, session_regenerate_id or lock_release leaks a lock.
NoOrphanLock ==
    \A s \in Sids :
        lock[s] # None /\ lock[s] \notin tainted
            => LET p == lock[s][1]
               IN  /\ lock[s] = Secret(p)
                   /\ locked[p] /\ lkey[p] = s
                   /\ pc[p] # "none"

\* The server side of the sessions is a store with exclusive leases: each secret
\* is a lease granted at most once, and only the lease in force writes, or one
\* that ran out or whose write the sender gave up on.
Store == INSTANCE SessionStore WITH
            Sessions <- Sids, Leases <- Secrets, owner <- lock, value <- data,
            lapsed <- expired \cup overdue

StoreSpec == Store!Spec

\* When write_allowed lets PS_WRITE go on, Redis holds the writer's lock
\* (redis_session.c:431: without lock_expire the TTL is max_execution_time, "therefore
\* it is guaranteed that the current process is still holding the lock"): the lock is
\* not asked for, its TTL is wall-clock time, and max_execution_time is not.
WriteAllowedHolds ==
    [][\A p \in Procs : pc[p] = "write" /\ pc'[p] = "setex"
            => lock[sid[p]] = Secret(p)]_vars

\* session_start returns and the session ends: with a bounded number of retries
\* no process waits for a lock forever, not even for one that nobody releases.
SessionsEnd == \A p \in Procs : pc[p] # "none" ~> pc[p] = "none"

\* Every lock that is taken is given back, unless a fault hit its session.
LocksReleased ==
    \A s \in Sids : (lock[s] # None /\ lock[s] \notin tainted)
                      ~> (lock[s] = None \/ lock[s] \in tainted)

=============================================================================
