------------------------- MODULE SessionLockProofs --------------------------
(***************************************************************************)
(* Type correctness of SessionLock, and its safety: mutual exclusion, no    *)
(* lost update, no orphan lock and what write_allowed guarantees.           *)
(*                                                                         *)
(* TypeOK alone is not inductive: which pointers of the lock status are set *)
(* depends on the command that comes next (Shape), and the commands that    *)
(* are sent are built from them.                                           *)
(*                                                                         *)
(* The argument: a secret that was issued once is never issued again, so   *)
(* a command that carries it acts for one session of one process only.     *)
(* As long as that session may use its lock no release of that secret can  *)
(* be on its way, so the lock can only end by its TTL.                     *)
(***************************************************************************)
EXTENDS SessionLock, TLAPS

-----------------------------------------------------------------------------
(* Types *)

ServerTypes ==
    /\ lock \in [Sids -> Secrets \cup {None}]
    /\ data \in [Sids -> Secrets \cup {None}]
    /\ cached \in BOOLEAN
    /\ late \subseteq Request

RequestTypes ==
    /\ pc \in [Procs -> Labels]
    /\ sid \in [Procs -> Sids \cup {None}]
    /\ plan \in [Procs -> {"end", "regen"}]
    /\ ret \in [Procs -> {"del", "close"}]
    /\ view \in [Procs -> Secrets \cup {None}]
    /\ missing \in [Procs -> BOOLEAN]

PoolTypes ==
    /\ up \in [Procs -> BOOLEAN]
    /\ locked \in [Procs -> BOOLEAN]
    /\ skey \in [Procs -> {"null", "live", "freed"}]
    /\ lkey \in [Procs -> Sids \cup {None}]
    /\ nonce \in [Procs -> Nat]
    /\ attempt \in [Procs -> Nat]
    /\ tries \in [Procs -> 0..CreateTries]

HistoryTypes ==
    /\ opens \in [Procs -> 0..MaxOpens]
    /\ faults \in 0..MaxFaults
    /\ expired \subseteq Secrets
    /\ tainted \subseteq Secrets
    /\ overdue \subseteq Secrets
    /\ granted \subseteq Secrets

LEMMA TypeParts ==
    TypeOK <=> ServerTypes /\ RequestTypes /\ PoolTypes /\ HistoryTypes
BY DEF TypeOK, ServerTypes, RequestTypes, PoolTypes, HistoryTypes

\* What the program counter says about the other variables of a process
Shape ==
    \A p \in Procs :
        /\ pc[p] \notin {"none", "create"} => sid[p] \in Sids
        /\ pc[p] \in {"none", "validate", "create"} => tries[p] > 0
        /\ locked[p] => /\ skey[p] # "null"
                        /\ pc[p] \notin {"none", "validate", "create",
                                         "createlock", "readlock"}
        /\ skey[p] # "null" => lkey[p] \in Sids
        /\ pc[p] \in {"createlock", "readlock", "get", "active", "write",
                      "setex", "touch", "destroy", "relcmd", "evalsha",
                      "eval", "del"}
             => skey[p] # "null"
        /\ Holding(p) \/ Locking(p) => lkey[p] = sid[p]
        /\ pc[p] \in {"setex", "eval"} => locked[p]

LEMMA TypePartsNext ==
    ServerTypes' /\ RequestTypes' /\ PoolTypes' /\ HistoryTypes' => TypeOK'
BY DEF TypeOK, ServerTypes, RequestTypes, PoolTypes, HistoryTypes

LEMMA NotLockedType ==
    ASSUME TypeOK, NEW p \in Procs, NotLocked(p)
    PROVE  /\ pc' \in [Procs -> Labels]
           /\ skey' \in [Procs -> {"null", "live", "freed"}]
           /\ attempt' \in [Procs -> Nat]
<1>1. CASE TryAgain(p)
  BY <1>1 DEF TypeOK, TryAgain
<1>2. CASE LockFailed(p)
  BY <1>2 DEF TypeOK, LockFailed, Goto, Labels
<1>3. QED
  BY <1>1, <1>2 DEF NotLocked

LEMMA CmdType ==
    ASSUME TypeOK, NEW p \in Procs, NEW s \in Sids
    PROVE  /\ Cmd("SET", p, s) \in Request
           /\ Cmd("SETEX", p, s) \in Request
           /\ Cmd("DEL", p, s) \in Request
           /\ Cmd("REL", p, s) \in Request
BY DEF TypeOK, Cmd, Request, Secret, Secrets

LEMMA SecretType ==
    ASSUME TypeOK, NEW p \in Procs
    PROVE  Secret(p) \in Secrets
BY DEF TypeOK, Secret, Secrets

LEMMA ExecuteType ==
    ASSUME TypeOK, NEW r \in Request, Execute(r)
    PROVE  /\ lock' \in [Sids -> Secrets \cup {None}]
           /\ data' \in [Sids -> Secrets \cup {None}]
BY DEF TypeOK, Execute, LockAfter, DataAfter, Request

LEMMA FaultType ==
    ASSUME TypeOK, NEW p \in Procs, Fault(p)
    PROVE  faults' \in 0..MaxFaults /\ tainted' \subseteq Secrets
BY SecretType, ConfigAssumption DEF TypeOK, Fault

LEMMA FreedType ==
    ASSUME TypeOK, NEW p \in Procs, NEW l \in Labels, Freed(p, l)
    PROVE  RequestTypes' /\ PoolTypes'
BY DEF TypeOK, Freed, Goto, RequestTypes, PoolTypes, CreateTries

LEMMA ReleaseEndType ==
    ASSUME TypeOK, NEW p \in Procs, NEW l \in BOOLEAN, NEW u \in BOOLEAN,
           ReleaseEnd(p, l, u)
    PROVE  RequestTypes' /\ PoolTypes'
<1>1. CASE Closed(p)
  <2>1. (IF plan[p] = "regen" THEN "create" ELSE "none") \in Labels
    BY DEF Labels
  <2>2. QED
    BY <1>1, <2>1, FreedType DEF Closed
<1>2. CASE ~Closed(p)
  BY <1>2 DEF TypeOK, ReleaseEnd, Goto, Labels, RequestTypes, PoolTypes
<1>3. QED
  BY <1>1, <1>2

LEMMA TypeInit == Init => TypeOK /\ Shape
<1> SUFFICES ASSUME Init PROVE TypeOK /\ Shape
  OBVIOUS
<1>1. TypeOK
  <2>1. ServerTypes /\ RequestTypes
    BY DEF Init, ServerTypes, RequestTypes, Labels
  <2>2. PoolTypes
    BY DEF Init, PoolTypes, CreateTries
  <2>3. HistoryTypes
    BY ConfigAssumption DEF Init, HistoryTypes
  <2>4. QED
    BY <2>1, <2>2, <2>3, TypeParts
<1>2. Shape
  <2> SUFFICES ASSUME NEW p \in Procs
      PROVE  /\ pc[p] = "none" /\ tries[p] > 0
             /\ ~locked[p] /\ skey[p] = "null"
    BY DEF Shape, Holding, Locking
  <2>1. QED
    BY DEF Init, CreateTries
<1>3. QED
  BY <1>1, <1>2

\* Every step keeps the types.
LEMMA TypeStep ==
    ASSUME TypeOK, Shape, [Next]_vars
    PROVE  TypeOK'
<1>1. ASSUME NEW p \in Procs, Validate(p) PROVE TypeOK'
  BY <1>1 DEF TypeOK, Labels, CreateTries, Validate, Connected, Goto,
    serverVars, faultVars, historyVars
<1>2. ASSUME NEW p \in Procs, ValidateFails(p) PROVE TypeOK'
  BY <1>2, ConfigAssumption, SecretType DEF TypeOK, Labels, CreateTries,
    ValidateFails, NoSock, Unanswered, Goto, serverVars, historyVars, Fault
<1>3. ASSUME NEW p \in Procs, CreateSid(p) PROVE TypeOK'
  BY <1>3 DEF Shape, TypeOK, Labels, CreateTries, CreateSid, Connected,
    NewLock, Goto, serverVars, faultVars, historyVars
<1>4. ASSUME NEW p \in Procs, CreateSidNoSock(p) PROVE TypeOK'
  BY <1>4, ConfigAssumption, SecretType DEF Shape, TypeOK, Labels,
    CreateTries, CreateSidNoSock, NoSock, Goto, serverVars, historyVars, Fault
<1>5. ASSUME NEW p \in Procs, LockGranted(p) PROVE TypeOK'
  <2>1. lkey[p] \in Sids
    BY <1>5 DEF Shape, Locking, LockGranted
  <2>2. Cmd("SET", p, lkey[p]) \in Request
    BY <2>1, CmdType
  <2>3. ServerTypes'
    BY <1>5, <2>2, ExecuteType DEF TypeOK, ServerTypes, LockGranted, Locking,
      Goto, faultVars
  <2>4. RequestTypes' /\ PoolTypes'
    BY <1>5 DEF TypeOK, RequestTypes, PoolTypes, Labels, LockGranted, Locking,
      Goto, faultVars
  <2>5. HistoryTypes'
    BY <1>5, FaultType, SecretType DEF TypeOK, HistoryTypes, LockGranted,
      Locking, Goto, faultVars
  <2>6. QED
    BY <2>3, <2>4, <2>5, TypePartsNext
<1>6. ASSUME NEW p \in Procs, LockBusy(p) PROVE TypeOK'
  BY <1>6 DEF TypeOK, Labels, CreateTries, LockBusy, Locking, NotLocked,
    serverVars, faultVars, historyVars, TryAgain, GivesUp, LockFailed, Goto
<1>7. ASSUME NEW p \in Procs, LockLost(p) PROVE TypeOK'
  <2>1. lkey[p] \in Sids
    BY <1>7 DEF Shape, Locking, LockLost
  <2>2. Cmd("SET", p, lkey[p]) \in Request
    BY <2>1, CmdType
  <2>3. ServerTypes'
    BY <1>7, <2>2, ExecuteType DEF TypeOK, ServerTypes, LockLost, Locking,
      Lost, Refused, NotLocked, historyVars, TryAgain, GivesUp, LockFailed,
      Goto
  <2>4. RequestTypes' /\ PoolTypes'
    BY <1>7, NotLockedType DEF TypeOK, RequestTypes, PoolTypes, LockLost,
      Lost, Refused, historyVars
  <2>5. HistoryTypes'
    BY <1>7, FaultType, SecretType DEF TypeOK, HistoryTypes, LockLost,
      Locking, Lost, Refused, NotLocked, historyVars, TryAgain, GivesUp,
      LockFailed, Goto
  <2>6. QED
    BY <2>3, <2>4, <2>5, TypePartsNext
<1>8. ASSUME NEW p \in Procs, LockUnsent(p) PROVE TypeOK'
  BY <1>8 DEF TypeOK, Labels, CreateTries, LockUnsent, Locking, LockFailed,
    serverVars, faultVars, historyVars, Goto
<1>9. ASSUME NEW p \in Procs, Read(p) PROVE TypeOK'
  BY <1>9 DEF Shape, TypeOK, Labels, CreateTries, Read, Connected, Goto,
    NewLock, serverVars, faultVars, historyVars
<1>10. ASSUME NEW p \in Procs, ReadNoSock(p) PROVE TypeOK'
  BY <1>10, ConfigAssumption, SecretType DEF TypeOK, Labels, CreateTries,
    ReadNoSock, NoSock, Goto, serverVars, historyVars, Fault
<1>11. ASSUME NEW p \in Procs, Get(p) PROVE TypeOK'
  BY <1>11 DEF Shape, TypeOK, Labels, CreateTries, Get, Goto, serverVars,
    poolVars, faultVars, historyVars
<1>12. ASSUME NEW p \in Procs, GetFails(p) PROVE TypeOK'
  BY <1>12, ConfigAssumption, SecretType DEF TypeOK, Labels, CreateTries,
    GetFails, faultVars, Unanswered, Goto, serverVars, historyVars, Fault
<1>13. ASSUME NEW p \in Procs, Script(p) PROVE TypeOK'
  BY <1>13, ConfigAssumption DEF TypeOK, Labels, CreateTries, Script, Goto,
    Handler, Regenerates, serverVars, poolVars, faultVars
<1>14. ASSUME NEW p \in Procs, WriteDenied(p) PROVE TypeOK'
  BY <1>14 DEF TypeOK, Labels, CreateTries, WriteDenied, Connected,
    FailToClose, serverVars, faultVars, historyVars, Goto
<1>15. ASSUME NEW p \in Procs, WriteUnchecked(p) PROVE TypeOK'
  BY <1>15 DEF TypeOK, Labels, CreateTries, WriteUnchecked, Connected, Goto,
    serverVars, faultVars, historyVars
<1>16. ASSUME NEW p \in Procs, WriteChecked(p) PROVE TypeOK'
  BY <1>16 DEF TypeOK, Labels, CreateTries, WriteChecked, Connected, Goto,
    FailToClose, serverVars, faultVars, historyVars
<1>17. ASSUME NEW p \in Procs, WriteCheckFails(p) PROVE TypeOK'
  BY <1>17, ConfigAssumption, SecretType DEF TypeOK, Labels, CreateTries,
    WriteCheckFails, Unanswered, FailToClose, serverVars, historyVars, Fault,
    Goto
<1>18. ASSUME NEW p \in Procs, Setex(p) PROVE TypeOK'
  <2>1. sid[p] \in Sids
    BY <1>18 DEF Shape, Setex
  <2>2. Cmd("SETEX", p, sid[p]) \in Request
    BY <2>1, CmdType
  <2>3. ServerTypes'
    BY <1>18, <2>2, ExecuteType DEF TypeOK, ServerTypes, Setex, Goto,
      poolVars, faultVars, historyVars
  <2>4. RequestTypes' /\ PoolTypes'
    BY <1>18 DEF TypeOK, RequestTypes, PoolTypes, Labels, Setex, Goto,
      poolVars, faultVars, historyVars
  <2>5. HistoryTypes'
    BY <1>18, FaultType, SecretType DEF TypeOK, HistoryTypes, Setex, Goto,
      poolVars, faultVars, historyVars
  <2>6. QED
    BY <2>3, <2>4, <2>5, TypePartsNext
<1>19. ASSUME NEW p \in Procs, SetexFails(p) PROVE TypeOK'
  <2>1. sid[p] \in Sids
    BY <1>19 DEF Shape, SetexFails
  <2>2. Cmd("SETEX", p, sid[p]) \in Request
    BY <2>1, CmdType
  <2>3. ServerTypes'
    BY <1>19, <2>2, ExecuteType DEF TypeOK, ServerTypes, SetexFails, Lost,
      Refused, FailToClose, historyVars, Goto
  <2>4. RequestTypes' /\ PoolTypes'
    BY <1>19 DEF TypeOK, RequestTypes, PoolTypes, Labels, SetexFails, Lost,
      Refused, FailToClose, historyVars, Goto
  <2>5. HistoryTypes'
    BY <1>19, FaultType, SecretType DEF TypeOK, HistoryTypes, SetexFails,
      Lost, Refused, FailToClose, historyVars, Goto
  <2>6. QED
    BY <2>3, <2>4, <2>5, TypePartsNext
<1>20. ASSUME NEW p \in Procs, TouchSkipped(p) PROVE TypeOK'
  BY <1>20 DEF TypeOK, Labels, CreateTries, TouchSkipped, RefreshedByRead,
    Goto, serverVars, poolVars, faultVars, historyVars
<1>21. ASSUME NEW p \in Procs, Touch(p) PROVE TypeOK'
  BY <1>21 DEF TypeOK, Labels, CreateTries, Touch, RefreshedByRead, Connected,
    Goto, serverVars, faultVars, historyVars
<1>22. ASSUME NEW p \in Procs, TouchFails(p) PROVE TypeOK'
  BY <1>22, ConfigAssumption, SecretType DEF TypeOK, Labels, CreateTries,
    TouchFails, RefreshedByRead, Unanswered, Goto, serverVars, historyVars,
    Fault
<1>23. ASSUME NEW p \in Procs, Delex(p) PROVE TypeOK'
  <2>1. lkey[p] \in Sids
    BY <1>23 DEF Shape, Delex
  <2>2. Cmd("REL", p, lkey[p]) \in Request
    BY <2>1, CmdType
  <2>3. ServerTypes'
    BY <1>23, <2>2, ExecuteType DEF TypeOK, ServerTypes, Delex, faultVars,
      historyVars
  <2>4. RequestTypes' /\ PoolTypes'
    BY <1>23, ReleaseEndType DEF TypeOK, RequestTypes, PoolTypes, Labels,
      Delex, faultVars, historyVars
  <2>5. HistoryTypes'
    BY <1>23 DEF TypeOK, HistoryTypes, Delex, faultVars, historyVars
  <2>6. QED
    BY <2>3, <2>4, <2>5, TypePartsNext
<1>24. ASSUME NEW p \in Procs, DelexUnknown(p) PROVE TypeOK'
  BY <1>24 DEF TypeOK, Labels, CreateTries, DelexUnknown, Goto, serverVars,
    poolVars, faultVars, historyVars
<1>25. ASSUME NEW p \in Procs, DelexFails(p) PROVE TypeOK'
  <2>1. lkey[p] \in Sids
    BY <1>25 DEF Shape, DelexFails
  <2>2. Cmd("REL", p, lkey[p]) \in Request
    BY <2>1, CmdType
  <2>3. ServerTypes'
    BY <1>25, <2>2 DEF TypeOK, ServerTypes, DelexFails, historyVars
  <2>4. RequestTypes' /\ PoolTypes'
    BY <1>25, ReleaseEndType DEF TypeOK, RequestTypes, PoolTypes, Labels,
      DelexFails, historyVars
  <2>5. HistoryTypes'
    BY <1>25, FaultType DEF TypeOK, HistoryTypes, DelexFails, historyVars
  <2>6. QED
    BY <2>3, <2>4, <2>5, TypePartsNext
<1>26. ASSUME NEW p \in Procs, ReleaseNothing(p) PROVE TypeOK'
  <2>1. up[p] \in BOOLEAN /\ locked[p] \in BOOLEAN
    BY DEF TypeOK
  <2>2. TRUE
    OBVIOUS
  <2>3. ServerTypes'
    BY <1>26, <2>2 DEF TypeOK, ServerTypes, ReleaseNothing, serverVars,
      faultVars, historyVars
  <2>4. RequestTypes' /\ PoolTypes'
    BY <1>26, ReleaseEndType DEF TypeOK, RequestTypes, PoolTypes, Labels,
      ReleaseNothing, serverVars, faultVars, historyVars
  <2>5. HistoryTypes'
    BY <1>26 DEF TypeOK, HistoryTypes, ReleaseNothing, serverVars, faultVars,
      historyVars
  <2>6. QED
    BY <2>3, <2>4, <2>5, TypePartsNext
<1>27. ASSUME NEW p \in Procs, EvalSha(p) PROVE TypeOK'
  <2>1. lkey[p] \in Sids
    BY <1>27 DEF Shape, EvalSha
  <2>2. Cmd("REL", p, lkey[p]) \in Request
    BY <2>1, CmdType
  <2>3. ServerTypes'
    BY <1>27, <2>2, ExecuteType DEF TypeOK, ServerTypes, EvalSha, Goto,
      poolVars, faultVars, historyVars
  <2>4. RequestTypes' /\ PoolTypes'
    BY <1>27, ReleaseEndType DEF TypeOK, RequestTypes, PoolTypes, Labels,
      EvalSha, Goto, poolVars, faultVars, historyVars
  <2>5. HistoryTypes'
    BY <1>27 DEF TypeOK, HistoryTypes, EvalSha, Goto, poolVars, faultVars,
      historyVars
  <2>6. QED
    BY <2>3, <2>4, <2>5, TypePartsNext
<1>28. ASSUME NEW p \in Procs, EvalShaFails(p) PROVE TypeOK'
  <2>1. lkey[p] \in Sids
    BY <1>28 DEF Shape, EvalShaFails
  <2>2. Cmd("REL", p, lkey[p]) \in Request
    BY <2>1, CmdType
  <2>3. ServerTypes'
    BY <1>28, <2>2, ExecuteType DEF TypeOK, ServerTypes, EvalShaFails, Lost,
      Refused, Goto, historyVars
  <2>4. RequestTypes' /\ PoolTypes'
    BY <1>28 DEF TypeOK, RequestTypes, PoolTypes, Labels, EvalShaFails, Lost,
      Refused, Goto, historyVars
  <2>5. HistoryTypes'
    BY <1>28, FaultType, SecretType DEF TypeOK, HistoryTypes, EvalShaFails,
      Lost, Refused, Goto, historyVars
  <2>6. QED
    BY <2>3, <2>4, <2>5, TypePartsNext
<1>29. ASSUME NEW p \in Procs, Eval(p) PROVE TypeOK'
  <2>1. lkey[p] \in Sids
    BY <1>29 DEF Shape, Eval
  <2>2. Cmd("REL", p, lkey[p]) \in Request
    BY <2>1, CmdType
  <2>3. ServerTypes'
    BY <1>29, <2>2, ExecuteType DEF TypeOK, ServerTypes, Eval, faultVars,
      historyVars
  <2>4. RequestTypes' /\ PoolTypes'
    BY <1>29, ReleaseEndType DEF TypeOK, RequestTypes, PoolTypes, Labels,
      Eval, faultVars, historyVars
  <2>5. HistoryTypes'
    BY <1>29 DEF TypeOK, HistoryTypes, Eval, faultVars, historyVars
  <2>6. QED
    BY <2>3, <2>4, <2>5, TypePartsNext
<1>30. ASSUME NEW p \in Procs, EvalFails(p) PROVE TypeOK'
  <2>1. lkey[p] \in Sids
    BY <1>30 DEF Shape, EvalFails
  <2>2. Cmd("REL", p, lkey[p]) \in Request
    BY <2>1, CmdType
  <2>3. ServerTypes'
    BY <1>30, <2>2 DEF TypeOK, ServerTypes, EvalFails, faultVars, historyVars
  <2>4. RequestTypes' /\ PoolTypes'
    BY <1>30, ReleaseEndType DEF TypeOK, RequestTypes, PoolTypes, Labels,
      EvalFails, faultVars, historyVars
  <2>5. HistoryTypes'
    BY <1>30, FaultType DEF TypeOK, HistoryTypes, EvalFails, faultVars,
      historyVars
  <2>6. QED
    BY <2>3, <2>4, <2>5, TypePartsNext
<1>31. ASSUME NEW p \in Procs, Destroy(p) PROVE TypeOK'
  BY <1>31 DEF TypeOK, Labels, CreateTries, Destroy, ReleaseStart, serverVars,
    faultVars, historyVars, Connected, Goto
<1>32. ASSUME NEW p \in Procs, Del(p) PROVE TypeOK'
  <2>1. sid[p] \in Sids
    BY <1>32 DEF Shape, Del
  <2>2. Cmd("DEL", p, sid[p]) \in Request
    BY <2>1, CmdType
  <2>3. ServerTypes'
    BY <1>32, <2>2, ExecuteType DEF TypeOK, ServerTypes, Del, Goto, poolVars,
      faultVars, historyVars
  <2>4. RequestTypes' /\ PoolTypes'
    BY <1>32 DEF TypeOK, RequestTypes, PoolTypes, Labels, Del, Goto, poolVars,
      faultVars, historyVars
  <2>5. HistoryTypes'
    BY <1>32, FaultType, SecretType DEF TypeOK, HistoryTypes, Del, Goto,
      poolVars, faultVars, historyVars
  <2>6. QED
    BY <2>3, <2>4, <2>5, TypePartsNext
<1>33. ASSUME NEW p \in Procs, DelFails(p) PROVE TypeOK'
  <2>1. sid[p] \in Sids
    BY <1>33 DEF Shape, DelFails
  <2>2. Cmd("DEL", p, sid[p]) \in Request
    BY <2>1, CmdType
  <2>3. ServerTypes'
    BY <1>33, <2>2, ExecuteType DEF TypeOK, ServerTypes, DelFails, faultVars,
      Lost, Refused, FailToClose, historyVars, Goto
  <2>4. RequestTypes' /\ PoolTypes'
    BY <1>33 DEF TypeOK, RequestTypes, PoolTypes, Labels, DelFails, faultVars,
      Lost, Refused, FailToClose, historyVars, Goto
  <2>5. HistoryTypes'
    BY <1>33, FaultType, SecretType DEF TypeOK, HistoryTypes, DelFails,
      faultVars, Lost, Refused, FailToClose, historyVars, Goto
  <2>6. QED
    BY <2>3, <2>4, <2>5, TypePartsNext
<1>34. ASSUME NEW p \in Procs, Close(p) PROVE TypeOK'
  BY <1>34 DEF TypeOK, Labels, CreateTries, Close, ReleaseStart, serverVars,
    faultVars, historyVars, Connected, Goto
<1>35. ASSUME NEW p \in Procs, CloseNoSock(p) PROVE TypeOK'
  <2>1. (IF plan[p] = "regen" THEN "create" ELSE "none") \in Labels
    BY DEF Labels
  <2>2. RequestTypes' /\ PoolTypes'
    BY <1>35, <2>1, FreedType DEF CloseNoSock, Closed
  <2>3. ServerTypes'
    BY <1>35 DEF TypeOK, ServerTypes, serverVars, CloseNoSock
  <2>4. HistoryTypes'
    BY <1>35, FaultType, SecretType DEF TypeOK, HistoryTypes, CloseNoSock,
      Closed, historyVars
  <2>5. QED
    BY <2>2, <2>3, <2>4, TypePartsNext
<1>36. ASSUME NEW p \in Procs, CloseUnkeyed(p) PROVE TypeOK'
  <2>1. (IF plan[p] = "regen" THEN "create" ELSE "none") \in Labels
    BY DEF Labels
  <2>2. RequestTypes' /\ PoolTypes'
    BY <1>36, <2>1, FreedType DEF CloseUnkeyed, Closed
  <2>3. ServerTypes'
    BY <1>36 DEF TypeOK, ServerTypes, serverVars, CloseUnkeyed
  <2>4. HistoryTypes'
    BY <1>36, FaultType, SecretType DEF TypeOK, HistoryTypes, CloseUnkeyed,
      Closed, faultVars, historyVars
  <2>5. QED
    BY <2>2, <2>3, <2>4, TypePartsNext
<1>37. ASSUME NEW p \in Procs, Open(p) PROVE TypeOK'
  BY <1>37, ConfigAssumption DEF TypeOK, Labels, CreateTries, Open, Goto,
    serverVars, poolVars, faultVars
<1>38. ASSUME NEW p \in Procs, Crash(p) PROVE TypeOK'
  <2>1. "none" \in Labels
    BY DEF Labels
  <2>2. RequestTypes' /\ PoolTypes'
    BY <1>38, <2>1, FreedType DEF Crash
  <2>3. ServerTypes'
    BY <1>38 DEF TypeOK, ServerTypes, serverVars, Crash
  <2>4. HistoryTypes'
    BY <1>38, FaultType, SecretType DEF TypeOK, HistoryTypes, Crash,
      historyVars
  <2>5. QED
    BY <2>2, <2>3, <2>4, TypePartsNext
<1>39. ASSUME NEW p \in Procs, DanglingCrash(p) PROVE TypeOK'
  <2>1. "none" \in Labels
    BY DEF Labels
  <2>2. RequestTypes' /\ PoolTypes'
    BY <1>39, <2>1, FreedType DEF DanglingCrash
  <2>3. ServerTypes'
    BY <1>39 DEF TypeOK, ServerTypes, serverVars, DanglingCrash
  <2>4. HistoryTypes'
    BY <1>39, FaultType, SecretType DEF TypeOK, HistoryTypes, DanglingCrash,
      historyVars
  <2>5. QED
    BY <2>2, <2>3, <2>4, TypePartsNext
<1>40. ASSUME NEW s \in Sids, LockExpires(s) PROVE TypeOK'
  BY <1>40 DEF TypeOK, Labels, CreateTries, LockExpires, Expiry, requestVars,
    poolVars, faultVars
<1>41. ASSUME NEW s \in Sids, DataExpires(s) PROVE TypeOK'
  BY <1>41 DEF TypeOK, Labels, CreateTries, DataExpires, requestVars,
    poolVars, faultVars, historyVars
<1>42. ASSUME NEW r \in late, LateCommand(r) PROVE TypeOK'
  <2>1. r \in Request
    BY DEF TypeOK
  <2>2. ServerTypes'
    BY <1>42, <2>1, ExecuteType DEF TypeOK, ServerTypes, LateCommand
  <2>3. RequestTypes' /\ PoolTypes'
    BY <1>42 DEF TypeOK, RequestTypes, PoolTypes, LateCommand, requestVars,
      poolVars
  <2>4. HistoryTypes'
    BY <1>42, <2>1 DEF TypeOK, HistoryTypes, Request, LateCommand, faultVars
  <2>5. QED
    BY <2>2, <2>3, <2>4, TypePartsNext
<1>43. CASE UNCHANGED vars
  BY <1>43 DEF TypeOK, vars, serverVars, requestVars, poolVars, faultVars,
    historyVars
<1>44. QED
  BY <1>1, <1>2, <1>3, <1>4, <1>5, <1>6, <1>7, <1>8, <1>9, <1>10, <1>11,
    <1>12, <1>13, <1>14, <1>15, <1>16, <1>17, <1>18, <1>19, <1>20, <1>21,
    <1>22, <1>23, <1>24, <1>25, <1>26, <1>27, <1>28, <1>29, <1>30, <1>31,
    <1>32, <1>33, <1>34, <1>35, <1>36, <1>37, <1>38, <1>39, <1>40, <1>41,
    <1>42, <1>43 DEF Next, Step, Start, Save, Finish, Finished

\* Every step keeps the shape of the processes.
LEMMA ShapeStep ==
    ASSUME TypeOK, Shape, [Next]_vars
    PROVE  Shape'
<1>1. ASSUME NEW p \in Procs, Validate(p) PROVE Shape'
  BY <1>1 DEF TypeOK, Shape, Holding, Labels, Locking, Validate, Connected,
    Goto, serverVars, faultVars, historyVars
<1>2. ASSUME NEW p \in Procs, ValidateFails(p) PROVE Shape'
  BY <1>2 DEF TypeOK, Shape, Holding, Labels, Locking, ValidateFails, NoSock,
    Unanswered, Goto, serverVars, historyVars
<1>3. ASSUME NEW p \in Procs, CreateSid(p) PROVE Shape'
  BY <1>3 DEF TypeOK, Shape, Holding, Labels, Locking, CreateSid, Connected,
    NewLock, Goto, serverVars, faultVars, historyVars
<1>4. ASSUME NEW p \in Procs, CreateSidNoSock(p) PROVE Shape'
  BY <1>4 DEF TypeOK, Shape, Holding, Labels, Locking, CreateSidNoSock,
    NoSock, Goto, serverVars, historyVars
<1>5. ASSUME NEW p \in Procs, LockGranted(p) PROVE Shape'
  BY <1>5 DEF TypeOK, Shape, Holding, Labels, Locking, LockGranted, Goto,
    faultVars
<1>6. ASSUME NEW p \in Procs, LockBusy(p) PROVE Shape'
  BY <1>6 DEF TypeOK, Shape, Holding, Labels, Locking, LockBusy, NotLocked,
    serverVars, faultVars, historyVars, TryAgain, GivesUp, LockFailed, Goto
<1>7. ASSUME NEW p \in Procs, LockLost(p) PROVE Shape'
  BY <1>7 DEF TypeOK, Shape, Holding, Labels, Locking, LockLost, Lost,
    Refused, NotLocked, historyVars, TryAgain, GivesUp, LockFailed, Goto
<1>8. ASSUME NEW p \in Procs, LockUnsent(p) PROVE Shape'
  BY <1>8 DEF TypeOK, Shape, Holding, Labels, Locking, LockUnsent, LockFailed,
    serverVars, faultVars, historyVars, Goto
<1>9. ASSUME NEW p \in Procs, Read(p) PROVE Shape'
  BY <1>9 DEF TypeOK, Shape, Holding, Labels, Locking, Read, Connected, Goto,
    NewLock, serverVars, faultVars, historyVars
<1>10. ASSUME NEW p \in Procs, ReadNoSock(p) PROVE Shape'
  BY <1>10 DEF TypeOK, Shape, Holding, Labels, Locking, ReadNoSock, NoSock,
    Goto, serverVars, historyVars
<1>11. ASSUME NEW p \in Procs, Get(p) PROVE Shape'
  BY <1>11 DEF TypeOK, Shape, Holding, Labels, Locking, Get, Goto, serverVars,
    poolVars, faultVars, historyVars
<1>12. ASSUME NEW p \in Procs, GetFails(p) PROVE Shape'
  BY <1>12 DEF TypeOK, Shape, Holding, Labels, Locking, GetFails, faultVars,
    Unanswered, Goto, serverVars, historyVars
<1>13. ASSUME NEW p \in Procs, Script(p) PROVE Shape'
  BY <1>13, ConfigAssumption DEF TypeOK, Shape, Holding, Labels, Locking,
    Script, Goto, Handler, Regenerates, serverVars, poolVars, faultVars
<1>14. ASSUME NEW p \in Procs, WriteDenied(p) PROVE Shape'
  BY <1>14 DEF TypeOK, Shape, Holding, Labels, Locking, WriteDenied,
    Connected, FailToClose, serverVars, faultVars, historyVars, Goto
<1>15. ASSUME NEW p \in Procs, WriteUnchecked(p) PROVE Shape'
  BY <1>15 DEF TypeOK, Shape, Holding, Labels, Locking, WriteUnchecked,
    Connected, Goto, serverVars, faultVars, historyVars
<1>16. ASSUME NEW p \in Procs, WriteChecked(p) PROVE Shape'
  BY <1>16 DEF TypeOK, Shape, Holding, Labels, Locking, WriteChecked,
    Connected, Goto, FailToClose, serverVars, faultVars, historyVars
<1>17. ASSUME NEW p \in Procs, WriteCheckFails(p) PROVE Shape'
  BY <1>17 DEF TypeOK, Shape, Holding, Labels, Locking, WriteCheckFails,
    Unanswered, FailToClose, serverVars, historyVars, Goto
<1>18. ASSUME NEW p \in Procs, Setex(p) PROVE Shape'
  BY <1>18 DEF TypeOK, Shape, Holding, Labels, Locking, Setex, Goto, poolVars,
    faultVars, historyVars
<1>19. ASSUME NEW p \in Procs, SetexFails(p) PROVE Shape'
  BY <1>19 DEF TypeOK, Shape, Holding, Labels, Locking, SetexFails, Lost,
    Refused, FailToClose, historyVars, Goto
<1>20. ASSUME NEW p \in Procs, TouchSkipped(p) PROVE Shape'
  BY <1>20 DEF TypeOK, Shape, Holding, Labels, Locking, TouchSkipped,
    RefreshedByRead, Goto, serverVars, poolVars, faultVars, historyVars
<1>21. ASSUME NEW p \in Procs, Touch(p) PROVE Shape'
  BY <1>21 DEF TypeOK, Shape, Holding, Labels, Locking, Touch,
    RefreshedByRead, Connected, Goto, serverVars, faultVars, historyVars
<1>22. ASSUME NEW p \in Procs, TouchFails(p) PROVE Shape'
  BY <1>22 DEF TypeOK, Shape, Holding, Labels, Locking, TouchFails,
    RefreshedByRead, Unanswered, Goto, serverVars, historyVars
<1>23. ASSUME NEW p \in Procs, Delex(p) PROVE Shape'
  BY <1>23 DEF TypeOK, Shape, Holding, Labels, Locking, Delex, ReleaseEnd,
    faultVars, historyVars, Closed, Goto, Freed, CreateTries
<1>24. ASSUME NEW p \in Procs, DelexUnknown(p) PROVE Shape'
  BY <1>24 DEF TypeOK, Shape, Holding, Labels, Locking, DelexUnknown, Goto,
    serverVars, poolVars, faultVars, historyVars
<1>25. ASSUME NEW p \in Procs, DelexFails(p) PROVE Shape'
  BY <1>25 DEF TypeOK, Shape, Holding, Labels, Locking, DelexFails,
    ReleaseEnd, historyVars, Closed, Goto, Freed, CreateTries
<1>26. ASSUME NEW p \in Procs, ReleaseNothing(p) PROVE Shape'
  BY <1>26 DEF TypeOK, Shape, Holding, Labels, Locking, ReleaseNothing,
    ReleaseEnd, serverVars, faultVars, historyVars, Closed, Goto, Freed,
    CreateTries
<1>27. ASSUME NEW p \in Procs, EvalSha(p) PROVE Shape'
  BY <1>27 DEF TypeOK, Shape, Holding, Labels, Locking, EvalSha, ReleaseEnd,
    Goto, poolVars, faultVars, historyVars, Closed, Freed, CreateTries
<1>28. ASSUME NEW p \in Procs, EvalShaFails(p) PROVE Shape'
  BY <1>28 DEF TypeOK, Shape, Holding, Labels, Locking, EvalShaFails, Lost,
    Refused, Goto, historyVars
<1>29. ASSUME NEW p \in Procs, Eval(p) PROVE Shape'
  BY <1>29 DEF TypeOK, Shape, Holding, Labels, Locking, Eval, ReleaseEnd,
    faultVars, historyVars, Closed, Goto, Freed, CreateTries
<1>30. ASSUME NEW p \in Procs, EvalFails(p) PROVE Shape'
  BY <1>30 DEF TypeOK, Shape, Holding, Labels, Locking, EvalFails, ReleaseEnd,
    faultVars, historyVars, Closed, Goto, Freed, CreateTries
<1>31. ASSUME NEW p \in Procs, Destroy(p) PROVE Shape'
  BY <1>31 DEF TypeOK, Shape, Holding, Labels, Locking, Destroy, ReleaseStart,
    serverVars, faultVars, historyVars, Connected, Goto
<1>32. ASSUME NEW p \in Procs, Del(p) PROVE Shape'
  BY <1>32 DEF TypeOK, Shape, Holding, Labels, Locking, Del, Goto, poolVars,
    faultVars, historyVars
<1>33. ASSUME NEW p \in Procs, DelFails(p) PROVE Shape'
  BY <1>33 DEF TypeOK, Shape, Holding, Labels, Locking, DelFails, faultVars,
    Lost, Refused, FailToClose, historyVars, Goto
<1>34. ASSUME NEW p \in Procs, Close(p) PROVE Shape'
  BY <1>34 DEF TypeOK, Shape, Holding, Labels, Locking, Close, ReleaseStart,
    serverVars, faultVars, historyVars, Connected, Goto
<1>35. ASSUME NEW p \in Procs, CloseNoSock(p) PROVE Shape'
  BY <1>35 DEF TypeOK, Shape, Holding, Labels, Locking, CloseNoSock, Closed,
    serverVars, historyVars, Freed, Goto, CreateTries
<1>36. ASSUME NEW p \in Procs, CloseUnkeyed(p) PROVE Shape'
  BY <1>36 DEF TypeOK, Shape, Holding, Labels, Locking, CloseUnkeyed, Closed,
    serverVars, faultVars, historyVars, Freed, Goto, CreateTries
<1>37. ASSUME NEW p \in Procs, Open(p) PROVE Shape'
  BY <1>37, ConfigAssumption DEF TypeOK, Shape, Holding, Labels, Locking,
    Open, Goto, serverVars, poolVars, faultVars
<1>38. ASSUME NEW p \in Procs, Crash(p) PROVE Shape'
  BY <1>38 DEF TypeOK, Shape, Holding, Labels, Locking, Crash, Freed,
    serverVars, historyVars, Goto, CreateTries
<1>39. ASSUME NEW p \in Procs, DanglingCrash(p) PROVE Shape'
  BY <1>39 DEF TypeOK, Shape, Holding, Labels, Locking, DanglingCrash, Freed,
    serverVars, historyVars, Goto, CreateTries
<1>40. ASSUME NEW s \in Sids, LockExpires(s) PROVE Shape'
  BY <1>40 DEF TypeOK, Shape, Holding, Labels, Locking, LockExpires, Expiry,
    requestVars, poolVars, faultVars
<1>41. ASSUME NEW s \in Sids, DataExpires(s) PROVE Shape'
  BY <1>41 DEF TypeOK, Shape, Holding, Labels, Locking, DataExpires,
    requestVars, poolVars, faultVars, historyVars
<1>42. ASSUME NEW r \in late, LateCommand(r) PROVE Shape'
  BY <1>42 DEF TypeOK, Shape, Holding, Labels, Locking, LateCommand,
    requestVars, poolVars, faultVars
<1>43. CASE UNCHANGED vars
  BY <1>43 DEF Shape, Holding, Locking, vars, serverVars, requestVars,
    poolVars, faultVars, historyVars
<1>44. QED
  BY <1>1, <1>2, <1>3, <1>4, <1>5, <1>6, <1>7, <1>8, <1>9, <1>10, <1>11,
    <1>12, <1>13, <1>14, <1>15, <1>16, <1>17, <1>18, <1>19, <1>20, <1>21,
    <1>22, <1>23, <1>24, <1>25, <1>26, <1>27, <1>28, <1>29, <1>30, <1>31,
    <1>32, <1>33, <1>34, <1>35, <1>36, <1>37, <1>38, <1>39, <1>40, <1>41,
    <1>42, <1>43 DEF Next, Step, Start, Save, Finish, Finished

\* Types: the values of every variable, for every number of processes and
\* sessions, every configuration of the handler and every bound.
THEOREM TypeCorrect == Spec => []TypeOK
<1>1. Init => TypeOK /\ Shape
  BY TypeInit
<1>2. TypeOK /\ Shape /\ [Next]_vars => (TypeOK /\ Shape)'
  BY TypeStep, ShapeStep
<1>3. QED
  BY <1>1, <1>2, PTL DEF Spec


-----------------------------------------------------------------------------
(* Exclusion *)

\* A secret is issued once its process has come to its number.
Issued(t) == t[2] <= nonce[t[1]]

\* Secrets in Redis and on their way to it have been issued, so that a new
\* secret is in no lock and in no late command.
SecretsIssued ==
    /\ \A s \in Sids : lock[s] # None => Issued(lock[s])
    /\ \A r \in late : Issued(r.tag)

\* Redis holds the lock of a process in the session, unless it ran out.
HoldersOwn ==
    \A p \in Procs :
        Holding(p) => lock[lkey[p]] = Secret(p) \/ Secret(p) \in expired

\* No abandoned release threatens a lock in use or about to be taken.
NoLateRelease ==
    \A p \in Procs : Holding(p) \/ Locking(p) =>
        \A r \in late : r.op = "REL" => r.tag # Secret(p)

Exclusion == SecretsIssued /\ HoldersOwn /\ NoLateRelease

\* Every step keeps the invariant.
LEMMA ExclusionStep ==
    ASSUME TypeOK, Shape, Exclusion, [Next]_vars
    PROVE  Exclusion'
<1>1. ASSUME NEW p \in Procs, Validate(p) PROVE Exclusion'
  BY <1>1 DEF TypeOK, Shape, Exclusion, SecretsIssued, HoldersOwn,
    NoLateRelease, Issued, Holding, Locking, Secret, Secrets, Request,
    Validate, Connected, Goto, serverVars, faultVars, historyVars
<1>2. ASSUME NEW p \in Procs, ValidateFails(p) PROVE Exclusion'
  BY <1>2 DEF TypeOK, Shape, Exclusion, SecretsIssued, HoldersOwn,
    NoLateRelease, Issued, Holding, Locking, Secret, Secrets, Request,
    ValidateFails, NoSock, Unanswered, Goto, serverVars, historyVars, Fault
<1>3. ASSUME NEW p \in Procs, CreateSid(p) PROVE Exclusion'
  BY <1>3 DEF TypeOK, Shape, Exclusion, SecretsIssued, HoldersOwn,
    NoLateRelease, Issued, Holding, Locking, Secret, Secrets, Request,
    CreateSid, Connected, NewLock, Goto, serverVars, faultVars, historyVars
<1>4. ASSUME NEW p \in Procs, CreateSidNoSock(p) PROVE Exclusion'
  BY <1>4 DEF TypeOK, Shape, Exclusion, SecretsIssued, HoldersOwn,
    NoLateRelease, Issued, Holding, Locking, Secret, Secrets, Request,
    CreateSidNoSock, NoSock, Goto, serverVars, historyVars, Fault
<1>5. ASSUME NEW p \in Procs, LockGranted(p) PROVE Exclusion'
  <2>1. SecretsIssued'
    BY <1>5 DEF TypeOK, Shape, Exclusion, SecretsIssued, Issued, Holding,
      Locking, Secret, Secrets, Request, LockGranted, Execute, Cmd, Goto,
      faultVars, LockAfter, DataAfter
  <2>2. HoldersOwn'
    <3> SUFFICES ASSUME NEW q \in Procs, Holding(q)'
                 PROVE  (lock[lkey[q]] = Secret(q) \/ Secret(q) \in expired)'
      BY DEF HoldersOwn
    <3>1. /\ lkey[p] \in Sids /\ lock[lkey[p]] = None
          /\ lock' = [lock EXCEPT ![lkey[p]] = Secret(p)]
      BY <1>5 DEF LockGranted, Execute, LockAfter, Cmd, Shape, Locking
    <3>2. CASE q = p
      BY <1>5, <3>1, <3>2 DEF TypeOK, LockGranted, Secret
    <3>3. CASE q # p
      <4>1. Holding(q) /\ lkey[q] \in Sids
        BY <1>5, <3>3 DEF TypeOK, LockGranted, Goto, Holding, Shape
      <4>2. Secret(q) # None
        BY SecretType, ConfigAssumption
      <4>3. QED
        BY <1>5, <3>1, <4>1, <4>2 DEF TypeOK, LockGranted, Exclusion,
          HoldersOwn, Secret
    <3>4. QED
      BY <3>2, <3>3
  <2>3. NoLateRelease'
    BY <1>5 DEF TypeOK, Shape, Exclusion, NoLateRelease, Issued, Holding,
      Locking, Secret, Secrets, Request, LockGranted, Execute, Cmd, Goto,
      faultVars, LockAfter, DataAfter
  <2>4. QED
    BY <2>1, <2>2, <2>3 DEF Exclusion
<1>6. ASSUME NEW p \in Procs, LockBusy(p) PROVE Exclusion'
  BY <1>6 DEF TypeOK, Shape, Exclusion, SecretsIssued, HoldersOwn,
    NoLateRelease, Issued, Holding, Locking, Secret, Secrets, Request,
    LockBusy, NotLocked, serverVars, faultVars, historyVars, TryAgain,
    GivesUp, LockFailed, Goto
<1>7. ASSUME NEW p \in Procs, LockLost(p) PROVE Exclusion'
  BY <1>7 DEF TypeOK, Shape, Exclusion, SecretsIssued, HoldersOwn,
    NoLateRelease, Issued, Holding, Locking, Secret, Secrets, Request,
    LockLost, Lost, Cmd, Refused, NotLocked, historyVars, Fault, TryAgain,
    GivesUp, LockFailed, Goto
<1>8. ASSUME NEW p \in Procs, LockUnsent(p) PROVE Exclusion'
  BY <1>8 DEF TypeOK, Shape, Exclusion, SecretsIssued, HoldersOwn,
    NoLateRelease, Issued, Holding, Locking, Secret, Secrets, Request,
    LockUnsent, LockFailed, serverVars, faultVars, historyVars, Goto
<1>9. ASSUME NEW p \in Procs, Read(p) PROVE Exclusion'
  BY <1>9 DEF TypeOK, Shape, Exclusion, SecretsIssued, HoldersOwn,
    NoLateRelease, Issued, Holding, Locking, Secret, Secrets, Request, Read,
    Connected, Goto, NewLock, serverVars, faultVars, historyVars
<1>10. ASSUME NEW p \in Procs, ReadNoSock(p) PROVE Exclusion'
  BY <1>10 DEF TypeOK, Shape, Exclusion, SecretsIssued, HoldersOwn,
    NoLateRelease, Issued, Holding, Locking, Secret, Secrets, Request,
    ReadNoSock, NoSock, Goto, serverVars, historyVars, Fault
<1>11. ASSUME NEW p \in Procs, Get(p) PROVE Exclusion'
  BY <1>11 DEF TypeOK, Shape, Exclusion, SecretsIssued, HoldersOwn,
    NoLateRelease, Issued, Holding, Locking, Secret, Secrets, Request, Get,
    Goto, serverVars, poolVars, faultVars, historyVars
<1>12. ASSUME NEW p \in Procs, GetFails(p) PROVE Exclusion'
  BY <1>12 DEF TypeOK, Shape, Exclusion, SecretsIssued, HoldersOwn,
    NoLateRelease, Issued, Holding, Locking, Secret, Secrets, Request,
    GetFails, faultVars, Unanswered, Goto, serverVars, historyVars, Fault
<1>13. ASSUME NEW p \in Procs, Script(p) PROVE Exclusion'
  BY <1>13, ConfigAssumption DEF TypeOK, Shape, Exclusion, SecretsIssued,
    HoldersOwn, NoLateRelease, Issued, Holding, Locking, Secret, Secrets,
    Request, Script, Goto, Handler, Regenerates, serverVars, poolVars,
    faultVars
<1>14. ASSUME NEW p \in Procs, WriteDenied(p) PROVE Exclusion'
  BY <1>14 DEF TypeOK, Shape, Exclusion, SecretsIssued, HoldersOwn,
    NoLateRelease, Issued, Holding, Locking, Secret, Secrets, Request,
    WriteDenied, Connected, FailToClose, serverVars, faultVars, historyVars,
    Goto
<1>15. ASSUME NEW p \in Procs, WriteUnchecked(p) PROVE Exclusion'
  BY <1>15 DEF TypeOK, Shape, Exclusion, SecretsIssued, HoldersOwn,
    NoLateRelease, Issued, Holding, Locking, Secret, Secrets, Request,
    WriteUnchecked, Connected, Goto, serverVars, faultVars, historyVars
<1>16. ASSUME NEW p \in Procs, WriteChecked(p) PROVE Exclusion'
  BY <1>16 DEF TypeOK, Shape, Exclusion, SecretsIssued, HoldersOwn,
    NoLateRelease, Issued, Holding, Locking, Secret, Secrets, Request,
    WriteChecked, Connected, Goto, FailToClose, serverVars, faultVars,
    historyVars
<1>17. ASSUME NEW p \in Procs, WriteCheckFails(p) PROVE Exclusion'
  BY <1>17 DEF TypeOK, Shape, Exclusion, SecretsIssued, HoldersOwn,
    NoLateRelease, Issued, Holding, Locking, Secret, Secrets, Request,
    WriteCheckFails, Unanswered, FailToClose, serverVars, historyVars, Fault,
    Goto
<1>18. ASSUME NEW p \in Procs, Setex(p) PROVE Exclusion'
  BY <1>18 DEF TypeOK, Shape, Exclusion, SecretsIssued, HoldersOwn,
    NoLateRelease, Issued, Holding, Locking, Secret, Secrets, Request, Setex,
    Execute, Cmd, Goto, poolVars, faultVars, historyVars, LockAfter, DataAfter
<1>19. ASSUME NEW p \in Procs, SetexFails(p) PROVE Exclusion'
  BY <1>19 DEF TypeOK, Shape, Exclusion, SecretsIssued, HoldersOwn,
    NoLateRelease, Issued, Holding, Locking, Secret, Secrets, Request,
    SetexFails, Lost, Cmd, Refused, FailToClose, historyVars, Fault, Goto
<1>20. ASSUME NEW p \in Procs, TouchSkipped(p) PROVE Exclusion'
  BY <1>20 DEF TypeOK, Shape, Exclusion, SecretsIssued, HoldersOwn,
    NoLateRelease, Issued, Holding, Locking, Secret, Secrets, Request,
    TouchSkipped, RefreshedByRead, Goto, serverVars, poolVars, faultVars,
    historyVars
<1>21. ASSUME NEW p \in Procs, Touch(p) PROVE Exclusion'
  BY <1>21 DEF TypeOK, Shape, Exclusion, SecretsIssued, HoldersOwn,
    NoLateRelease, Issued, Holding, Locking, Secret, Secrets, Request, Touch,
    RefreshedByRead, Connected, Goto, serverVars, faultVars, historyVars
<1>22. ASSUME NEW p \in Procs, TouchFails(p) PROVE Exclusion'
  BY <1>22 DEF TypeOK, Shape, Exclusion, SecretsIssued, HoldersOwn,
    NoLateRelease, Issued, Holding, Locking, Secret, Secrets, Request,
    TouchFails, RefreshedByRead, Unanswered, Goto, serverVars, historyVars,
    Fault
<1>23. ASSUME NEW p \in Procs, Delex(p) PROVE Exclusion'
  <2>1. SecretsIssued'
    BY <1>23 DEF TypeOK, Shape, Exclusion, SecretsIssued, Issued, Holding,
      Locking, Secret, Secrets, Request, Delex, Execute, Cmd, ReleaseEnd,
      faultVars, historyVars, LockAfter, DataAfter, Closed, Goto, Freed,
      CreateTries
  <2>2. HoldersOwn'
    BY <1>23 DEF TypeOK, Shape, Exclusion, HoldersOwn, Issued, Holding,
      Locking, Secret, Secrets, Request, Delex, Execute, Cmd, ReleaseEnd,
      faultVars, historyVars, LockAfter, DataAfter, Closed, Goto, Freed,
      CreateTries
  <2>3. NoLateRelease'
    BY <1>23 DEF TypeOK, Shape, Exclusion, NoLateRelease, Issued, Holding,
      Locking, Secret, Secrets, Request, Delex, Execute, Cmd, ReleaseEnd,
      faultVars, historyVars, LockAfter, DataAfter, Closed, Goto, Freed,
      CreateTries
  <2>4. QED
    BY <2>1, <2>2, <2>3 DEF Exclusion
<1>24. ASSUME NEW p \in Procs, DelexUnknown(p) PROVE Exclusion'
  BY <1>24 DEF TypeOK, Shape, Exclusion, SecretsIssued, HoldersOwn,
    NoLateRelease, Issued, Holding, Locking, Secret, Secrets, Request,
    DelexUnknown, Goto, serverVars, poolVars, faultVars, historyVars
<1>25. ASSUME NEW p \in Procs, DelexFails(p) PROVE Exclusion'
  <2>1. SecretsIssued'
    BY <1>25 DEF TypeOK, Shape, Exclusion, SecretsIssued, Issued, Holding,
      Locking, Secret, Secrets, Request, DelexFails, Fault, Cmd, ReleaseEnd,
      historyVars, Closed, Goto, Freed, CreateTries
  <2>2. HoldersOwn'
    BY <1>25 DEF TypeOK, Shape, Exclusion, HoldersOwn, Issued, Holding,
      Locking, Secret, Secrets, Request, DelexFails, Fault, Cmd, ReleaseEnd,
      historyVars, Closed, Goto, Freed, CreateTries
  <2>3. NoLateRelease'
    BY <1>25 DEF TypeOK, Shape, Exclusion, NoLateRelease, Issued, Holding,
      Locking, Secret, Secrets, Request, DelexFails, Fault, Cmd, ReleaseEnd,
      historyVars, Closed, Goto, Freed, CreateTries
  <2>4. QED
    BY <2>1, <2>2, <2>3 DEF Exclusion
<1>26. ASSUME NEW p \in Procs, ReleaseNothing(p) PROVE Exclusion'
  BY <1>26 DEF TypeOK, Shape, Exclusion, SecretsIssued, HoldersOwn,
    NoLateRelease, Issued, Holding, Locking, Secret, Secrets, Request,
    ReleaseNothing, ReleaseEnd, serverVars, faultVars, historyVars, Closed,
    Goto, Freed, CreateTries
<1>27. ASSUME NEW p \in Procs, EvalSha(p) PROVE Exclusion'
  <2>1. SecretsIssued'
    BY <1>27 DEF TypeOK, Shape, Exclusion, SecretsIssued, Issued, Holding,
      Locking, Secret, Secrets, Request, EvalSha, Execute, Cmd, ReleaseEnd,
      Goto, poolVars, faultVars, historyVars, LockAfter, DataAfter, Closed,
      Freed, CreateTries
  <2>2. HoldersOwn'
    BY <1>27 DEF TypeOK, Shape, Exclusion, HoldersOwn, Issued, Holding,
      Locking, Secret, Secrets, Request, EvalSha, Execute, Cmd, ReleaseEnd,
      Goto, poolVars, faultVars, historyVars, LockAfter, DataAfter, Closed,
      Freed, CreateTries
  <2>3. NoLateRelease'
    BY <1>27 DEF TypeOK, Shape, Exclusion, NoLateRelease, Issued, Holding,
      Locking, Secret, Secrets, Request, EvalSha, Execute, Cmd, ReleaseEnd,
      Goto, poolVars, faultVars, historyVars, LockAfter, DataAfter, Closed,
      Freed, CreateTries
  <2>4. QED
    BY <2>1, <2>2, <2>3 DEF Exclusion
<1>28. ASSUME NEW p \in Procs, EvalShaFails(p) PROVE Exclusion'
  BY <1>28 DEF TypeOK, Shape, Exclusion, SecretsIssued, HoldersOwn,
    NoLateRelease, Issued, Holding, Locking, Secret, Secrets, Request,
    EvalShaFails, Lost, Cmd, Refused, Goto, historyVars, Fault
<1>29. ASSUME NEW p \in Procs, Eval(p) PROVE Exclusion'
  <2>1. SecretsIssued'
    BY <1>29 DEF TypeOK, Shape, Exclusion, SecretsIssued, Issued, Holding,
      Locking, Secret, Secrets, Request, Eval, Execute, Cmd, ReleaseEnd,
      faultVars, historyVars, LockAfter, DataAfter, Closed, Goto, Freed,
      CreateTries
  <2>2. HoldersOwn'
    BY <1>29 DEF TypeOK, Shape, Exclusion, HoldersOwn, Issued, Holding,
      Locking, Secret, Secrets, Request, Eval, Execute, Cmd, ReleaseEnd,
      faultVars, historyVars, LockAfter, DataAfter, Closed, Goto, Freed,
      CreateTries
  <2>3. NoLateRelease'
    BY <1>29 DEF TypeOK, Shape, Exclusion, NoLateRelease, Issued, Holding,
      Locking, Secret, Secrets, Request, Eval, Execute, Cmd, ReleaseEnd,
      faultVars, historyVars, LockAfter, DataAfter, Closed, Goto, Freed,
      CreateTries
  <2>4. QED
    BY <2>1, <2>2, <2>3 DEF Exclusion
<1>30. ASSUME NEW p \in Procs, EvalFails(p) PROVE Exclusion'
  <2>1. SecretsIssued'
    BY <1>30 DEF TypeOK, Shape, Exclusion, SecretsIssued, Issued, Holding,
      Locking, Secret, Secrets, Request, EvalFails, ReleaseEnd, faultVars,
      Fault, Cmd, historyVars, Closed, Goto, Freed, CreateTries
  <2>2. HoldersOwn'
    BY <1>30 DEF TypeOK, Shape, Exclusion, HoldersOwn, Issued, Holding,
      Locking, Secret, Secrets, Request, EvalFails, ReleaseEnd, faultVars,
      Fault, Cmd, historyVars, Closed, Goto, Freed, CreateTries
  <2>3. NoLateRelease'
    BY <1>30 DEF TypeOK, Shape, Exclusion, NoLateRelease, Issued, Holding,
      Locking, Secret, Secrets, Request, EvalFails, ReleaseEnd, faultVars,
      Fault, Cmd, historyVars, Closed, Goto, Freed, CreateTries
  <2>4. QED
    BY <2>1, <2>2, <2>3 DEF Exclusion
<1>31. ASSUME NEW p \in Procs, Destroy(p) PROVE Exclusion'
  BY <1>31 DEF TypeOK, Shape, Exclusion, SecretsIssued, HoldersOwn,
    NoLateRelease, Issued, Holding, Locking, Secret, Secrets, Request,
    Destroy, ReleaseStart, serverVars, faultVars, historyVars, Connected, Goto
<1>32. ASSUME NEW p \in Procs, Del(p) PROVE Exclusion'
  BY <1>32 DEF TypeOK, Shape, Exclusion, SecretsIssued, HoldersOwn,
    NoLateRelease, Issued, Holding, Locking, Secret, Secrets, Request, Del,
    Execute, Cmd, Goto, poolVars, faultVars, historyVars, LockAfter, DataAfter
<1>33. ASSUME NEW p \in Procs, DelFails(p) PROVE Exclusion'
  BY <1>33 DEF TypeOK, Shape, Exclusion, SecretsIssued, HoldersOwn,
    NoLateRelease, Issued, Holding, Locking, Secret, Secrets, Request,
    DelFails, faultVars, Lost, Cmd, Refused, FailToClose, historyVars, Fault,
    Goto
<1>34. ASSUME NEW p \in Procs, Close(p) PROVE Exclusion'
  BY <1>34 DEF TypeOK, Shape, Exclusion, SecretsIssued, HoldersOwn,
    NoLateRelease, Issued, Holding, Locking, Secret, Secrets, Request, Close,
    ReleaseStart, serverVars, faultVars, historyVars, Connected, Goto
<1>35. ASSUME NEW p \in Procs, CloseNoSock(p) PROVE Exclusion'
  BY <1>35 DEF TypeOK, Shape, Exclusion, SecretsIssued, HoldersOwn,
    NoLateRelease, Issued, Holding, Locking, Secret, Secrets, Request,
    CloseNoSock, Fault, Closed, serverVars, historyVars, Freed, Goto,
    CreateTries
<1>36. ASSUME NEW p \in Procs, CloseUnkeyed(p) PROVE Exclusion'
  BY <1>36 DEF TypeOK, Shape, Exclusion, SecretsIssued, HoldersOwn,
    NoLateRelease, Issued, Holding, Locking, Secret, Secrets, Request,
    CloseUnkeyed, Closed, serverVars, faultVars, historyVars, Freed, Goto,
    CreateTries
<1>37. ASSUME NEW p \in Procs, Open(p) PROVE Exclusion'
  BY <1>37, ConfigAssumption DEF TypeOK, Shape, Exclusion, SecretsIssued,
    HoldersOwn, NoLateRelease, Issued, Holding, Locking, Secret, Secrets,
    Request, Open, Goto, serverVars, poolVars, faultVars
<1>38. ASSUME NEW p \in Procs, Crash(p) PROVE Exclusion'
  BY <1>38 DEF TypeOK, Shape, Exclusion, SecretsIssued, HoldersOwn,
    NoLateRelease, Issued, Holding, Locking, Secret, Secrets, Request, Crash,
    Fault, Freed, serverVars, historyVars, Goto, CreateTries
<1>39. ASSUME NEW p \in Procs, DanglingCrash(p) PROVE Exclusion'
  BY <1>39 DEF TypeOK, Shape, Exclusion, SecretsIssued, HoldersOwn,
    NoLateRelease, Issued, Holding, Locking, Secret, Secrets, Request,
    DanglingCrash, Freed, serverVars, historyVars, Goto, CreateTries
<1>40. ASSUME NEW s \in Sids, LockExpires(s) PROVE Exclusion'
  BY <1>40 DEF TypeOK, Shape, Exclusion, SecretsIssued, HoldersOwn,
    NoLateRelease, Issued, Holding, Locking, Secret, Secrets, Request,
    LockExpires, Expiry, requestVars, poolVars, faultVars
<1>41. ASSUME NEW s \in Sids, DataExpires(s) PROVE Exclusion'
  BY <1>41 DEF TypeOK, Shape, Exclusion, SecretsIssued, HoldersOwn,
    NoLateRelease, Issued, Holding, Locking, Secret, Secrets, Request,
    DataExpires, requestVars, poolVars, faultVars, historyVars
<1>42. ASSUME NEW r \in late, LateCommand(r) PROVE Exclusion'
  <2>0. r \in Request /\ Issued(r.tag)
    BY DEF TypeOK, Exclusion, SecretsIssued
  <2>1. SecretsIssued'
    BY <1>42, <2>0 DEF TypeOK, Shape, Exclusion, SecretsIssued, Issued,
      Holding, Locking, Secret, Secrets, Request, LateCommand, Execute,
      requestVars, poolVars, faultVars, LockAfter, DataAfter
  <2>2. HoldersOwn'
    <3> SUFFICES ASSUME NEW q \in Procs, Holding(q)'
                 PROVE  (lock[lkey[q]] = Secret(q) \/ Secret(q) \in expired)'
      BY DEF HoldersOwn
    <3>1. /\ Holding(q)
          /\ lock' = LockAfter(r) \/ lock' = lock
          /\ UNCHANGED <<lkey, nonce, expired>>
      BY <1>42 DEF LateCommand, Execute, Holding, requestVars, poolVars
    <3>2. lkey[q] \in Sids /\ (r.op = "REL" => r.tag # Secret(q))
      BY <3>1 DEF Shape, Holding, Exclusion, NoLateRelease
    <3>3. CASE Secret(q) \in expired
      BY <3>1, <3>3 DEF Secret
    <3>4. CASE lock[lkey[q]] = Secret(q)
      <4>1. lock[lkey[q]] # None
        BY <3>4, SecretType, ConfigAssumption
      <4>2. lock'[lkey[q]] = lock[lkey[q]]
        BY <2>0, <3>1, <3>2, <3>4, <4>1 DEF TypeOK, LockAfter, Request
      <4>3. QED
        BY <3>1, <3>4, <4>2 DEF Secret
    <3>5. QED
      BY <3>1, <3>3, <3>4 DEF Exclusion, HoldersOwn
  <2>3. NoLateRelease'
    BY <1>42, <2>0 DEF TypeOK, Shape, Exclusion, NoLateRelease, Issued,
      Holding, Locking, Secret, Secrets, Request, LateCommand, Execute,
      requestVars, poolVars, faultVars, LockAfter, DataAfter
  <2>4. QED
    BY <2>1, <2>2, <2>3 DEF Exclusion
<1>43. CASE UNCHANGED vars
  BY <1>43 DEF Exclusion, SecretsIssued, HoldersOwn, NoLateRelease, Issued,
    Holding, Locking, Secret, vars, serverVars, requestVars, poolVars,
    faultVars, historyVars
<1>44. QED
  BY <1>1, <1>2, <1>3, <1>4, <1>5, <1>6, <1>7, <1>8, <1>9, <1>10, <1>11,
    <1>12, <1>13, <1>14, <1>15, <1>16, <1>17, <1>18, <1>19, <1>20, <1>21,
    <1>22, <1>23, <1>24, <1>25, <1>26, <1>27, <1>28, <1>29, <1>30, <1>31,
    <1>32, <1>33, <1>34, <1>35, <1>36, <1>37, <1>38, <1>39, <1>40, <1>41,
    <1>42, <1>43 DEF Next, Step, Start, Save, Finish, Finished

-----------------------------------------------------------------------------
(* No orphan lock *)

\* A command whose sender gave up on it belongs to a session that met a fault.
LateTainted == \A r \in late : r.tag \in tainted

\* lock_release starts with a socket that is up, and loses it by a fault only.
UnsentTainted ==
    \A p \in Procs : pc[p] \in {"relcmd", "evalsha", "eval"} /\ ~up[p]
                        => Secret(p) \in tainted

Accounted == LateTainted /\ UnsentTainted /\ NoOrphanLock

\* Every step keeps the invariant.
LEMMA AccountedStep ==
    ASSUME TypeOK, Shape, Accounted, [Next]_vars
    PROVE  Accounted'
<1>1. ASSUME NEW p \in Procs, Validate(p) PROVE Accounted'
  BY <1>1, ConfigAssumption DEF TypeOK, Shape, Accounted, LateTainted,
    UnsentTainted, NoOrphanLock, Holding, Locking, Secret, Secrets, Request,
    Validate, Connected, Goto, serverVars, faultVars, historyVars
<1>2. ASSUME NEW p \in Procs, ValidateFails(p) PROVE Accounted'
  BY <1>2, ConfigAssumption DEF TypeOK, Shape, Accounted, LateTainted,
    UnsentTainted, NoOrphanLock, Holding, Locking, Secret, Secrets, Request,
    ValidateFails, NoSock, Unanswered, Goto, serverVars, historyVars, Fault
<1>3. ASSUME NEW p \in Procs, CreateSid(p) PROVE Accounted'
  BY <1>3, ConfigAssumption DEF TypeOK, Shape, Accounted, LateTainted,
    UnsentTainted, NoOrphanLock, Holding, Locking, Secret, Secrets, Request,
    CreateSid, Connected, NewLock, Goto, serverVars, faultVars, historyVars
<1>4. ASSUME NEW p \in Procs, CreateSidNoSock(p) PROVE Accounted'
  BY <1>4, ConfigAssumption DEF TypeOK, Shape, Accounted, LateTainted,
    UnsentTainted, NoOrphanLock, Holding, Locking, Secret, Secrets, Request,
    CreateSidNoSock, NoSock, Goto, serverVars, historyVars, Fault
<1>5. ASSUME NEW p \in Procs, LockGranted(p) PROVE Accounted'
  <2>1. LateTainted'
    BY <1>5, ConfigAssumption DEF TypeOK, Shape, Accounted, LateTainted,
      UnsentTainted, NoOrphanLock, Holding, Locking, Secret, Secrets, Request,
      LockGranted, Execute, Cmd, Goto, faultVars, LockAfter, DataAfter
  <2>2. UnsentTainted'
    BY <1>5, ConfigAssumption DEF TypeOK, Shape, Accounted, LateTainted,
      UnsentTainted, NoOrphanLock, Holding, Locking, Secret, Secrets, Request,
      LockGranted, Execute, Cmd, Goto, faultVars, LockAfter, DataAfter
  <2>3. NoOrphanLock'
    BY <1>5, ConfigAssumption DEF TypeOK, Shape, Accounted, LateTainted,
      UnsentTainted, NoOrphanLock, Holding, Locking, Secret, Secrets, Request,
      LockGranted, Execute, Cmd, Goto, faultVars, LockAfter, DataAfter
  <2>4. QED
    BY <2>1, <2>2, <2>3 DEF Accounted
<1>6. ASSUME NEW p \in Procs, LockBusy(p) PROVE Accounted'
  BY <1>6, ConfigAssumption DEF TypeOK, Shape, Accounted, LateTainted,
    UnsentTainted, NoOrphanLock, Holding, Locking, Secret, Secrets, Request,
    LockBusy, NotLocked, serverVars, faultVars, historyVars, TryAgain,
    GivesUp, LockFailed, Goto
<1>7. ASSUME NEW p \in Procs, LockLost(p) PROVE Accounted'
  BY <1>7, ConfigAssumption DEF TypeOK, Shape, Accounted, LateTainted,
    UnsentTainted, NoOrphanLock, Holding, Locking, Secret, Secrets, Request,
    LockLost, Lost, Cmd, Refused, NotLocked, historyVars, Fault, TryAgain,
    GivesUp, LockFailed, Goto
<1>8. ASSUME NEW p \in Procs, LockUnsent(p) PROVE Accounted'
  BY <1>8, ConfigAssumption DEF TypeOK, Shape, Accounted, LateTainted,
    UnsentTainted, NoOrphanLock, Holding, Locking, Secret, Secrets, Request,
    LockUnsent, LockFailed, serverVars, faultVars, historyVars, Goto
<1>9. ASSUME NEW p \in Procs, Read(p) PROVE Accounted'
  BY <1>9, ConfigAssumption DEF TypeOK, Shape, Accounted, LateTainted,
    UnsentTainted, NoOrphanLock, Holding, Locking, Secret, Secrets, Request,
    Read, Connected, Goto, NewLock, serverVars, faultVars, historyVars
<1>10. ASSUME NEW p \in Procs, ReadNoSock(p) PROVE Accounted'
  BY <1>10, ConfigAssumption DEF TypeOK, Shape, Accounted, LateTainted,
    UnsentTainted, NoOrphanLock, Holding, Locking, Secret, Secrets, Request,
    ReadNoSock, NoSock, Goto, serverVars, historyVars, Fault
<1>11. ASSUME NEW p \in Procs, Get(p) PROVE Accounted'
  BY <1>11, ConfigAssumption DEF TypeOK, Shape, Accounted, LateTainted,
    UnsentTainted, NoOrphanLock, Holding, Locking, Secret, Secrets, Request,
    Get, Goto, serverVars, poolVars, faultVars, historyVars
<1>12. ASSUME NEW p \in Procs, GetFails(p) PROVE Accounted'
  BY <1>12, ConfigAssumption DEF TypeOK, Shape, Accounted, LateTainted,
    UnsentTainted, NoOrphanLock, Holding, Locking, Secret, Secrets, Request,
    GetFails, faultVars, Unanswered, Goto, serverVars, historyVars, Fault
<1>13. ASSUME NEW p \in Procs, Script(p) PROVE Accounted'
  BY <1>13, ConfigAssumption DEF TypeOK, Shape, Accounted, LateTainted,
    UnsentTainted, NoOrphanLock, Holding, Locking, Secret, Secrets, Request,
    Script, Goto, Handler, Regenerates, serverVars, poolVars, faultVars
<1>14. ASSUME NEW p \in Procs, WriteDenied(p) PROVE Accounted'
  BY <1>14, ConfigAssumption DEF TypeOK, Shape, Accounted, LateTainted,
    UnsentTainted, NoOrphanLock, Holding, Locking, Secret, Secrets, Request,
    WriteDenied, Connected, FailToClose, serverVars, faultVars, historyVars,
    Goto
<1>15. ASSUME NEW p \in Procs, WriteUnchecked(p) PROVE Accounted'
  BY <1>15, ConfigAssumption DEF TypeOK, Shape, Accounted, LateTainted,
    UnsentTainted, NoOrphanLock, Holding, Locking, Secret, Secrets, Request,
    WriteUnchecked, Connected, Goto, serverVars, faultVars, historyVars
<1>16. ASSUME NEW p \in Procs, WriteChecked(p) PROVE Accounted'
  BY <1>16, ConfigAssumption DEF TypeOK, Shape, Accounted, LateTainted,
    UnsentTainted, NoOrphanLock, Holding, Locking, Secret, Secrets, Request,
    WriteChecked, Connected, Goto, FailToClose, serverVars, faultVars,
    historyVars
<1>17. ASSUME NEW p \in Procs, WriteCheckFails(p) PROVE Accounted'
  BY <1>17, ConfigAssumption DEF TypeOK, Shape, Accounted, LateTainted,
    UnsentTainted, NoOrphanLock, Holding, Locking, Secret, Secrets, Request,
    WriteCheckFails, Unanswered, FailToClose, serverVars, historyVars, Fault,
    Goto
<1>18. ASSUME NEW p \in Procs, Setex(p) PROVE Accounted'
  BY <1>18, ConfigAssumption DEF TypeOK, Shape, Accounted, LateTainted,
    UnsentTainted, NoOrphanLock, Holding, Locking, Secret, Secrets, Request,
    Setex, Execute, Cmd, Goto, poolVars, faultVars, historyVars, LockAfter,
    DataAfter
<1>19. ASSUME NEW p \in Procs, SetexFails(p) PROVE Accounted'
  BY <1>19, ConfigAssumption DEF TypeOK, Shape, Accounted, LateTainted,
    UnsentTainted, NoOrphanLock, Holding, Locking, Secret, Secrets, Request,
    SetexFails, Lost, Cmd, Refused, FailToClose, historyVars, Fault, Goto
<1>20. ASSUME NEW p \in Procs, TouchSkipped(p) PROVE Accounted'
  BY <1>20, ConfigAssumption DEF TypeOK, Shape, Accounted, LateTainted,
    UnsentTainted, NoOrphanLock, Holding, Locking, Secret, Secrets, Request,
    TouchSkipped, RefreshedByRead, Goto, serverVars, poolVars, faultVars,
    historyVars
<1>21. ASSUME NEW p \in Procs, Touch(p) PROVE Accounted'
  BY <1>21, ConfigAssumption DEF TypeOK, Shape, Accounted, LateTainted,
    UnsentTainted, NoOrphanLock, Holding, Locking, Secret, Secrets, Request,
    Touch, RefreshedByRead, Connected, Goto, serverVars, faultVars,
    historyVars
<1>22. ASSUME NEW p \in Procs, TouchFails(p) PROVE Accounted'
  BY <1>22, ConfigAssumption DEF TypeOK, Shape, Accounted, LateTainted,
    UnsentTainted, NoOrphanLock, Holding, Locking, Secret, Secrets, Request,
    TouchFails, RefreshedByRead, Unanswered, Goto, serverVars, historyVars,
    Fault
<1>23. ASSUME NEW p \in Procs, Delex(p) PROVE Accounted'
  <2>1. LateTainted'
    BY <1>23, ConfigAssumption DEF TypeOK, Shape, Accounted, LateTainted,
      UnsentTainted, NoOrphanLock, Holding, Locking, Secret, Secrets, Request,
      Delex, Execute, Cmd, ReleaseEnd, faultVars, historyVars, LockAfter,
      DataAfter, Closed, Goto, Freed, CreateTries
  <2>2. UnsentTainted'
    BY <1>23, ConfigAssumption DEF TypeOK, Shape, Accounted, LateTainted,
      UnsentTainted, NoOrphanLock, Holding, Locking, Secret, Secrets, Request,
      Delex, Execute, Cmd, ReleaseEnd, faultVars, historyVars, LockAfter,
      DataAfter, Closed, Goto, Freed, CreateTries
  <2>3. NoOrphanLock'
    BY <1>23, ConfigAssumption DEF TypeOK, Shape, Accounted, LateTainted,
      UnsentTainted, NoOrphanLock, Holding, Locking, Secret, Secrets, Request,
      Delex, Execute, Cmd, ReleaseEnd, faultVars, historyVars, LockAfter,
      DataAfter, Closed, Goto, Freed, CreateTries
  <2>4. QED
    BY <2>1, <2>2, <2>3 DEF Accounted
<1>24. ASSUME NEW p \in Procs, DelexUnknown(p) PROVE Accounted'
  BY <1>24, ConfigAssumption DEF TypeOK, Shape, Accounted, LateTainted,
    UnsentTainted, NoOrphanLock, Holding, Locking, Secret, Secrets, Request,
    DelexUnknown, Goto, serverVars, poolVars, faultVars, historyVars
<1>25. ASSUME NEW p \in Procs, DelexFails(p) PROVE Accounted'
  <2>1. LateTainted'
    BY <1>25, ConfigAssumption DEF TypeOK, Shape, Accounted, LateTainted,
      UnsentTainted, NoOrphanLock, Holding, Locking, Secret, Secrets, Request,
      DelexFails, Fault, Cmd, ReleaseEnd, historyVars, Closed, Goto, Freed,
      CreateTries
  <2>2. UnsentTainted'
    BY <1>25, ConfigAssumption DEF TypeOK, Shape, Accounted, LateTainted,
      UnsentTainted, NoOrphanLock, Holding, Locking, Secret, Secrets, Request,
      DelexFails, Fault, Cmd, ReleaseEnd, historyVars, Closed, Goto, Freed,
      CreateTries
  <2>3. NoOrphanLock'
    BY <1>25, ConfigAssumption DEF TypeOK, Shape, Accounted, LateTainted,
      UnsentTainted, NoOrphanLock, Holding, Locking, Secret, Secrets, Request,
      DelexFails, Fault, Cmd, ReleaseEnd, historyVars, Closed, Goto, Freed,
      CreateTries
  <2>4. QED
    BY <2>1, <2>2, <2>3 DEF Accounted
<1>26. ASSUME NEW p \in Procs, ReleaseNothing(p) PROVE Accounted'
  BY <1>26, ConfigAssumption DEF TypeOK, Shape, Accounted, LateTainted,
    UnsentTainted, NoOrphanLock, Holding, Locking, Secret, Secrets, Request,
    ReleaseNothing, ReleaseEnd, serverVars, faultVars, historyVars, Closed,
    Goto, Freed, CreateTries
<1>27. ASSUME NEW p \in Procs, EvalSha(p) PROVE Accounted'
  <2>1. LateTainted'
    BY <1>27, ConfigAssumption DEF TypeOK, Shape, Accounted, LateTainted,
      UnsentTainted, NoOrphanLock, Holding, Locking, Secret, Secrets, Request,
      EvalSha, Execute, Cmd, ReleaseEnd, Goto, poolVars, faultVars,
      historyVars, LockAfter, DataAfter, Closed, Freed, CreateTries
  <2>2. UnsentTainted'
    BY <1>27, ConfigAssumption DEF TypeOK, Shape, Accounted, LateTainted,
      UnsentTainted, NoOrphanLock, Holding, Locking, Secret, Secrets, Request,
      EvalSha, Execute, Cmd, ReleaseEnd, Goto, poolVars, faultVars,
      historyVars, LockAfter, DataAfter, Closed, Freed, CreateTries
  <2>3. NoOrphanLock'
    BY <1>27, ConfigAssumption DEF TypeOK, Shape, Accounted, LateTainted,
      UnsentTainted, NoOrphanLock, Holding, Locking, Secret, Secrets, Request,
      EvalSha, Execute, Cmd, ReleaseEnd, Goto, poolVars, faultVars,
      historyVars, LockAfter, DataAfter, Closed, Freed, CreateTries
  <2>4. QED
    BY <2>1, <2>2, <2>3 DEF Accounted
<1>28. ASSUME NEW p \in Procs, EvalShaFails(p) PROVE Accounted'
  BY <1>28, ConfigAssumption DEF TypeOK, Shape, Accounted, LateTainted,
    UnsentTainted, NoOrphanLock, Holding, Locking, Secret, Secrets, Request,
    EvalShaFails, Lost, Cmd, Refused, Goto, historyVars, Fault
<1>29. ASSUME NEW p \in Procs, Eval(p) PROVE Accounted'
  <2>1. LateTainted'
    BY <1>29, ConfigAssumption DEF TypeOK, Shape, Accounted, LateTainted,
      UnsentTainted, NoOrphanLock, Holding, Locking, Secret, Secrets, Request,
      Eval, Execute, Cmd, ReleaseEnd, faultVars, historyVars, LockAfter,
      DataAfter, Closed, Goto, Freed, CreateTries
  <2>2. UnsentTainted'
    BY <1>29, ConfigAssumption DEF TypeOK, Shape, Accounted, LateTainted,
      UnsentTainted, NoOrphanLock, Holding, Locking, Secret, Secrets, Request,
      Eval, Execute, Cmd, ReleaseEnd, faultVars, historyVars, LockAfter,
      DataAfter, Closed, Goto, Freed, CreateTries
  <2>3. NoOrphanLock'
    BY <1>29, ConfigAssumption DEF TypeOK, Shape, Accounted, LateTainted,
      UnsentTainted, NoOrphanLock, Holding, Locking, Secret, Secrets, Request,
      Eval, Execute, Cmd, ReleaseEnd, faultVars, historyVars, LockAfter,
      DataAfter, Closed, Goto, Freed, CreateTries
  <2>4. QED
    BY <2>1, <2>2, <2>3 DEF Accounted
<1>30. ASSUME NEW p \in Procs, EvalFails(p) PROVE Accounted'
  <2>1. LateTainted'
    BY <1>30, ConfigAssumption DEF TypeOK, Shape, Accounted, LateTainted,
      UnsentTainted, NoOrphanLock, Holding, Locking, Secret, Secrets, Request,
      EvalFails, ReleaseEnd, faultVars, Fault, Cmd, historyVars, Closed, Goto,
      Freed, CreateTries
  <2>2. UnsentTainted'
    BY <1>30, ConfigAssumption DEF TypeOK, Shape, Accounted, LateTainted,
      UnsentTainted, NoOrphanLock, Holding, Locking, Secret, Secrets, Request,
      EvalFails, ReleaseEnd, faultVars, Fault, Cmd, historyVars, Closed, Goto,
      Freed, CreateTries
  <2>3. NoOrphanLock'
    BY <1>30, ConfigAssumption DEF TypeOK, Shape, Accounted, LateTainted,
      UnsentTainted, NoOrphanLock, Holding, Locking, Secret, Secrets, Request,
      EvalFails, ReleaseEnd, faultVars, Fault, Cmd, historyVars, Closed, Goto,
      Freed, CreateTries
  <2>4. QED
    BY <2>1, <2>2, <2>3 DEF Accounted
<1>31. ASSUME NEW p \in Procs, Destroy(p) PROVE Accounted'
  BY <1>31, ConfigAssumption DEF TypeOK, Shape, Accounted, LateTainted,
    UnsentTainted, NoOrphanLock, Holding, Locking, Secret, Secrets, Request,
    Destroy, ReleaseStart, serverVars, faultVars, historyVars, Connected, Goto
<1>32. ASSUME NEW p \in Procs, Del(p) PROVE Accounted'
  BY <1>32, ConfigAssumption DEF TypeOK, Shape, Accounted, LateTainted,
    UnsentTainted, NoOrphanLock, Holding, Locking, Secret, Secrets, Request,
    Del, Execute, Cmd, Goto, poolVars, faultVars, historyVars, LockAfter,
    DataAfter
<1>33. ASSUME NEW p \in Procs, DelFails(p) PROVE Accounted'
  BY <1>33, ConfigAssumption DEF TypeOK, Shape, Accounted, LateTainted,
    UnsentTainted, NoOrphanLock, Holding, Locking, Secret, Secrets, Request,
    DelFails, faultVars, Lost, Cmd, Refused, FailToClose, historyVars, Fault,
    Goto
<1>34. ASSUME NEW p \in Procs, Close(p) PROVE Accounted'
  BY <1>34, ConfigAssumption DEF TypeOK, Shape, Accounted, LateTainted,
    UnsentTainted, NoOrphanLock, Holding, Locking, Secret, Secrets, Request,
    Close, ReleaseStart, serverVars, faultVars, historyVars, Connected, Goto
<1>35. ASSUME NEW p \in Procs, CloseNoSock(p) PROVE Accounted'
  BY <1>35, ConfigAssumption DEF TypeOK, Shape, Accounted, LateTainted,
    UnsentTainted, NoOrphanLock, Holding, Locking, Secret, Secrets, Request,
    CloseNoSock, Fault, Closed, serverVars, historyVars, Freed, Goto,
    CreateTries
<1>36. ASSUME NEW p \in Procs, CloseUnkeyed(p) PROVE Accounted'
  BY <1>36, ConfigAssumption DEF TypeOK, Shape, Accounted, LateTainted,
    UnsentTainted, NoOrphanLock, Holding, Locking, Secret, Secrets, Request,
    CloseUnkeyed, Closed, serverVars, faultVars, historyVars, Freed, Goto,
    CreateTries
<1>37. ASSUME NEW p \in Procs, Open(p) PROVE Accounted'
  BY <1>37, ConfigAssumption DEF TypeOK, Shape, Accounted, LateTainted,
    UnsentTainted, NoOrphanLock, Holding, Locking, Secret, Secrets, Request,
    Open, Goto, serverVars, poolVars, faultVars
<1>38. ASSUME NEW p \in Procs, Crash(p) PROVE Accounted'
  BY <1>38, ConfigAssumption DEF TypeOK, Shape, Accounted, LateTainted,
    UnsentTainted, NoOrphanLock, Holding, Locking, Secret, Secrets, Request,
    Crash, Fault, Freed, serverVars, historyVars, Goto, CreateTries
<1>39. ASSUME NEW p \in Procs, DanglingCrash(p) PROVE Accounted'
  BY <1>39, ConfigAssumption DEF TypeOK, Shape, Accounted, LateTainted,
    UnsentTainted, NoOrphanLock, Holding, Locking, Secret, Secrets, Request,
    DanglingCrash, Freed, serverVars, historyVars, Goto, CreateTries
<1>40. ASSUME NEW s \in Sids, LockExpires(s) PROVE Accounted'
  BY <1>40, ConfigAssumption DEF TypeOK, Shape, Accounted, LateTainted,
    UnsentTainted, NoOrphanLock, Holding, Locking, Secret, Secrets, Request,
    LockExpires, Expiry, requestVars, poolVars, faultVars
<1>41. ASSUME NEW s \in Sids, DataExpires(s) PROVE Accounted'
  BY <1>41, ConfigAssumption DEF TypeOK, Shape, Accounted, LateTainted,
    UnsentTainted, NoOrphanLock, Holding, Locking, Secret, Secrets, Request,
    DataExpires, requestVars, poolVars, faultVars, historyVars
<1>42. ASSUME NEW r \in late, LateCommand(r) PROVE Accounted'
  <2>1. LateTainted'
    BY <1>42, ConfigAssumption DEF TypeOK, Shape, Accounted, LateTainted,
      UnsentTainted, NoOrphanLock, Holding, Locking, Secret, Secrets, Request,
      LateCommand, Execute, requestVars, poolVars, faultVars, LockAfter,
      DataAfter
  <2>2. UnsentTainted'
    BY <1>42, ConfigAssumption DEF TypeOK, Shape, Accounted, LateTainted,
      UnsentTainted, NoOrphanLock, Holding, Locking, Secret, Secrets, Request,
      LateCommand, Execute, requestVars, poolVars, faultVars, LockAfter,
      DataAfter
  <2>3. NoOrphanLock'
    <3> SUFFICES ASSUME NEW s \in Sids, lock'[s] # None, lock'[s] \notin tainted
                 PROVE  /\ lock[s] # None /\ lock'[s] = lock[s]
                        /\ UNCHANGED <<tainted, locked, lkey, nonce, pc>>
      BY <1>42 DEF Accounted, NoOrphanLock, LateCommand, Secret, requestVars,
        poolVars, faultVars
    <3>1. UNCHANGED <<tainted, locked, lkey, nonce, pc>>
      BY <1>42 DEF LateCommand, requestVars, poolVars, faultVars
    <3>2. lock' = LockAfter(r) \/ lock' = lock
      BY <1>42 DEF LateCommand, Execute
    <3>3. r \in Request /\ r.tag \in tainted
      BY DEF TypeOK, Accounted, LateTainted
    <3>4. QED
      BY <3>1, <3>2, <3>3 DEF TypeOK, LockAfter, Request
  <2>4. QED
    BY <2>1, <2>2, <2>3 DEF Accounted
<1>43. CASE UNCHANGED vars
  BY <1>43 DEF Accounted, LateTainted, UnsentTainted, NoOrphanLock, Secret,
    vars, serverVars, requestVars, poolVars, faultVars, historyVars
<1>44. QED
  BY <1>1, <1>2, <1>3, <1>4, <1>5, <1>6, <1>7, <1>8, <1>9, <1>10, <1>11,
    <1>12, <1>13, <1>14, <1>15, <1>16, <1>17, <1>18, <1>19, <1>20, <1>21,
    <1>22, <1>23, <1>24, <1>25, <1>26, <1>27, <1>28, <1>29, <1>30, <1>31,
    <1>32, <1>33, <1>34, <1>35, <1>36, <1>37, <1>38, <1>39, <1>40, <1>41,
    <1>42, <1>43 DEF Next, Step, Start, Save, Finish, Finished

-----------------------------------------------------------------------------
(* Stable sessions *)

\* Every step keeps the invariant.
LEMMA StableStep ==
    ASSUME TypeOK, Shape, Exclusion, StableSession, [Next]_vars
    PROVE  StableSession'
<1>1. ASSUME NEW p \in Procs, Validate(p) PROVE StableSession'
  BY <1>1, ConfigAssumption DEF TypeOK, Shape, StableSession, Exclusion,
    HoldersOwn, Holding, Locking, Secret, Secrets, Request, Validate,
    Connected, Goto, serverVars, faultVars, historyVars
<1>2. ASSUME NEW p \in Procs, ValidateFails(p) PROVE StableSession'
  BY <1>2, ConfigAssumption DEF TypeOK, Shape, StableSession, Exclusion,
    HoldersOwn, Holding, Locking, Secret, Secrets, Request, ValidateFails,
    NoSock, Unanswered, Goto, serverVars, historyVars, Fault
<1>3. ASSUME NEW p \in Procs, CreateSid(p) PROVE StableSession'
  BY <1>3, ConfigAssumption DEF TypeOK, Shape, StableSession, Exclusion,
    HoldersOwn, Holding, Locking, Secret, Secrets, Request, CreateSid,
    Connected, NewLock, Goto, serverVars, faultVars, historyVars
<1>4. ASSUME NEW p \in Procs, CreateSidNoSock(p) PROVE StableSession'
  BY <1>4, ConfigAssumption DEF TypeOK, Shape, StableSession, Exclusion,
    HoldersOwn, Holding, Locking, Secret, Secrets, Request, CreateSidNoSock,
    NoSock, Goto, serverVars, historyVars, Fault
<1>5. ASSUME NEW p \in Procs, LockGranted(p) PROVE StableSession'
  BY <1>5, ConfigAssumption DEF TypeOK, Shape, StableSession, Exclusion,
    HoldersOwn, Holding, Locking, Secret, Secrets, Request, LockGranted,
    Execute, Cmd, Goto, faultVars, LockAfter, DataAfter
<1>6. ASSUME NEW p \in Procs, LockBusy(p) PROVE StableSession'
  BY <1>6, ConfigAssumption DEF TypeOK, Shape, StableSession, Exclusion,
    HoldersOwn, Holding, Locking, Secret, Secrets, Request, LockBusy,
    NotLocked, serverVars, faultVars, historyVars, TryAgain, GivesUp,
    LockFailed, Goto
<1>7. ASSUME NEW p \in Procs, LockLost(p) PROVE StableSession'
  BY <1>7, ConfigAssumption DEF TypeOK, Shape, StableSession, Exclusion,
    HoldersOwn, Holding, Locking, Secret, Secrets, Request, LockLost, Lost,
    Cmd, Refused, NotLocked, historyVars, Fault, TryAgain, GivesUp,
    LockFailed, Goto
<1>8. ASSUME NEW p \in Procs, LockUnsent(p) PROVE StableSession'
  BY <1>8, ConfigAssumption DEF TypeOK, Shape, StableSession, Exclusion,
    HoldersOwn, Holding, Locking, Secret, Secrets, Request, LockUnsent,
    LockFailed, serverVars, faultVars, historyVars, Goto
<1>9. ASSUME NEW p \in Procs, Read(p) PROVE StableSession'
  BY <1>9, ConfigAssumption DEF TypeOK, Shape, StableSession, Exclusion,
    HoldersOwn, Holding, Locking, Secret, Secrets, Request, Read, Connected,
    Goto, NewLock, serverVars, faultVars, historyVars
<1>10. ASSUME NEW p \in Procs, ReadNoSock(p) PROVE StableSession'
  BY <1>10, ConfigAssumption DEF TypeOK, Shape, StableSession, Exclusion,
    HoldersOwn, Holding, Locking, Secret, Secrets, Request, ReadNoSock,
    NoSock, Goto, serverVars, historyVars, Fault
<1>11. ASSUME NEW p \in Procs, Get(p) PROVE StableSession'
  BY <1>11, ConfigAssumption DEF TypeOK, Shape, StableSession, Exclusion,
    HoldersOwn, Holding, Locking, Secret, Secrets, Request, Get, Goto,
    serverVars, poolVars, faultVars, historyVars
<1>12. ASSUME NEW p \in Procs, GetFails(p) PROVE StableSession'
  BY <1>12, ConfigAssumption DEF TypeOK, Shape, StableSession, Exclusion,
    HoldersOwn, Holding, Locking, Secret, Secrets, Request, GetFails,
    faultVars, Unanswered, Goto, serverVars, historyVars, Fault
<1>13. ASSUME NEW p \in Procs, Script(p) PROVE StableSession'
  BY <1>13, ConfigAssumption DEF TypeOK, Shape, StableSession, Exclusion,
    HoldersOwn, Holding, Locking, Secret, Secrets, Request, Script, Goto,
    Handler, Regenerates, serverVars, poolVars, faultVars
<1>14. ASSUME NEW p \in Procs, WriteDenied(p) PROVE StableSession'
  BY <1>14, ConfigAssumption DEF TypeOK, Shape, StableSession, Exclusion,
    HoldersOwn, Holding, Locking, Secret, Secrets, Request, WriteDenied,
    Connected, FailToClose, serverVars, faultVars, historyVars, Goto
<1>15. ASSUME NEW p \in Procs, WriteUnchecked(p) PROVE StableSession'
  BY <1>15, ConfigAssumption DEF TypeOK, Shape, StableSession, Exclusion,
    HoldersOwn, Holding, Locking, Secret, Secrets, Request, WriteUnchecked,
    Connected, Goto, serverVars, faultVars, historyVars
<1>16. ASSUME NEW p \in Procs, WriteChecked(p) PROVE StableSession'
  BY <1>16, ConfigAssumption DEF TypeOK, Shape, StableSession, Exclusion,
    HoldersOwn, Holding, Locking, Secret, Secrets, Request, WriteChecked,
    Connected, Goto, FailToClose, serverVars, faultVars, historyVars
<1>17. ASSUME NEW p \in Procs, WriteCheckFails(p) PROVE StableSession'
  BY <1>17, ConfigAssumption DEF TypeOK, Shape, StableSession, Exclusion,
    HoldersOwn, Holding, Locking, Secret, Secrets, Request, WriteCheckFails,
    Unanswered, FailToClose, serverVars, historyVars, Fault, Goto
<1>18. ASSUME NEW p \in Procs, Setex(p) PROVE StableSession'
  BY <1>18, ConfigAssumption DEF TypeOK, Shape, StableSession, Exclusion,
    HoldersOwn, Holding, Locking, Secret, Secrets, Request, Setex, Execute,
    Cmd, Goto, poolVars, faultVars, historyVars, LockAfter, DataAfter
<1>19. ASSUME NEW p \in Procs, SetexFails(p) PROVE StableSession'
  BY <1>19, ConfigAssumption DEF TypeOK, Shape, StableSession, Exclusion,
    HoldersOwn, Holding, Locking, Secret, Secrets, Request, SetexFails, Lost,
    Cmd, Refused, FailToClose, historyVars, Fault, Goto
<1>20. ASSUME NEW p \in Procs, TouchSkipped(p) PROVE StableSession'
  BY <1>20, ConfigAssumption DEF TypeOK, Shape, StableSession, Exclusion,
    HoldersOwn, Holding, Locking, Secret, Secrets, Request, TouchSkipped,
    RefreshedByRead, Goto, serverVars, poolVars, faultVars, historyVars
<1>21. ASSUME NEW p \in Procs, Touch(p) PROVE StableSession'
  BY <1>21, ConfigAssumption DEF TypeOK, Shape, StableSession, Exclusion,
    HoldersOwn, Holding, Locking, Secret, Secrets, Request, Touch,
    RefreshedByRead, Connected, Goto, serverVars, faultVars, historyVars
<1>22. ASSUME NEW p \in Procs, TouchFails(p) PROVE StableSession'
  BY <1>22, ConfigAssumption DEF TypeOK, Shape, StableSession, Exclusion,
    HoldersOwn, Holding, Locking, Secret, Secrets, Request, TouchFails,
    RefreshedByRead, Unanswered, Goto, serverVars, historyVars, Fault
<1>23. ASSUME NEW p \in Procs, Delex(p) PROVE StableSession'
  BY <1>23, ConfigAssumption DEF TypeOK, Shape, StableSession, Exclusion,
    HoldersOwn, Holding, Locking, Secret, Secrets, Request, Delex, Execute,
    Cmd, ReleaseEnd, faultVars, historyVars, LockAfter, DataAfter, Closed,
    Goto, Freed, CreateTries
<1>24. ASSUME NEW p \in Procs, DelexUnknown(p) PROVE StableSession'
  BY <1>24, ConfigAssumption DEF TypeOK, Shape, StableSession, Exclusion,
    HoldersOwn, Holding, Locking, Secret, Secrets, Request, DelexUnknown,
    Goto, serverVars, poolVars, faultVars, historyVars
<1>25. ASSUME NEW p \in Procs, DelexFails(p) PROVE StableSession'
  BY <1>25, ConfigAssumption DEF TypeOK, Shape, StableSession, Exclusion,
    HoldersOwn, Holding, Locking, Secret, Secrets, Request, DelexFails, Fault,
    Cmd, ReleaseEnd, historyVars, Closed, Goto, Freed, CreateTries
<1>26. ASSUME NEW p \in Procs, ReleaseNothing(p) PROVE StableSession'
  BY <1>26, ConfigAssumption DEF TypeOK, Shape, StableSession, Exclusion,
    HoldersOwn, Holding, Locking, Secret, Secrets, Request, ReleaseNothing,
    ReleaseEnd, serverVars, faultVars, historyVars, Closed, Goto, Freed,
    CreateTries
<1>27. ASSUME NEW p \in Procs, EvalSha(p) PROVE StableSession'
  BY <1>27, ConfigAssumption DEF TypeOK, Shape, StableSession, Exclusion,
    HoldersOwn, Holding, Locking, Secret, Secrets, Request, EvalSha, Execute,
    Cmd, ReleaseEnd, Goto, poolVars, faultVars, historyVars, LockAfter,
    DataAfter, Closed, Freed, CreateTries
<1>28. ASSUME NEW p \in Procs, EvalShaFails(p) PROVE StableSession'
  BY <1>28, ConfigAssumption DEF TypeOK, Shape, StableSession, Exclusion,
    HoldersOwn, Holding, Locking, Secret, Secrets, Request, EvalShaFails,
    Lost, Cmd, Refused, Goto, historyVars, Fault
<1>29. ASSUME NEW p \in Procs, Eval(p) PROVE StableSession'
  BY <1>29, ConfigAssumption DEF TypeOK, Shape, StableSession, Exclusion,
    HoldersOwn, Holding, Locking, Secret, Secrets, Request, Eval, Execute,
    Cmd, ReleaseEnd, faultVars, historyVars, LockAfter, DataAfter, Closed,
    Goto, Freed, CreateTries
<1>30. ASSUME NEW p \in Procs, EvalFails(p) PROVE StableSession'
  BY <1>30, ConfigAssumption DEF TypeOK, Shape, StableSession, Exclusion,
    HoldersOwn, Holding, Locking, Secret, Secrets, Request, EvalFails,
    ReleaseEnd, faultVars, Fault, Cmd, historyVars, Closed, Goto, Freed,
    CreateTries
<1>31. ASSUME NEW p \in Procs, Destroy(p) PROVE StableSession'
  BY <1>31, ConfigAssumption DEF TypeOK, Shape, StableSession, Exclusion,
    HoldersOwn, Holding, Locking, Secret, Secrets, Request, Destroy,
    ReleaseStart, serverVars, faultVars, historyVars, Connected, Goto
<1>32. ASSUME NEW p \in Procs, Del(p) PROVE StableSession'
  BY <1>32, ConfigAssumption DEF TypeOK, Shape, StableSession, Exclusion,
    HoldersOwn, Holding, Locking, Secret, Secrets, Request, Del, Execute, Cmd,
    Goto, poolVars, faultVars, historyVars, LockAfter, DataAfter
<1>33. ASSUME NEW p \in Procs, DelFails(p) PROVE StableSession'
  BY <1>33, ConfigAssumption DEF TypeOK, Shape, StableSession, Exclusion,
    HoldersOwn, Holding, Locking, Secret, Secrets, Request, DelFails,
    faultVars, Lost, Cmd, Refused, FailToClose, historyVars, Fault, Goto
<1>34. ASSUME NEW p \in Procs, Close(p) PROVE StableSession'
  BY <1>34, ConfigAssumption DEF TypeOK, Shape, StableSession, Exclusion,
    HoldersOwn, Holding, Locking, Secret, Secrets, Request, Close,
    ReleaseStart, serverVars, faultVars, historyVars, Connected, Goto
<1>35. ASSUME NEW p \in Procs, CloseNoSock(p) PROVE StableSession'
  BY <1>35, ConfigAssumption DEF TypeOK, Shape, StableSession, Exclusion,
    HoldersOwn, Holding, Locking, Secret, Secrets, Request, CloseNoSock,
    Fault, Closed, serverVars, historyVars, Freed, Goto, CreateTries
<1>36. ASSUME NEW p \in Procs, CloseUnkeyed(p) PROVE StableSession'
  BY <1>36, ConfigAssumption DEF TypeOK, Shape, StableSession, Exclusion,
    HoldersOwn, Holding, Locking, Secret, Secrets, Request, CloseUnkeyed,
    Closed, serverVars, faultVars, historyVars, Freed, Goto, CreateTries
<1>37. ASSUME NEW p \in Procs, Open(p) PROVE StableSession'
  BY <1>37, ConfigAssumption DEF TypeOK, Shape, StableSession, Exclusion,
    HoldersOwn, Holding, Locking, Secret, Secrets, Request, Open, Goto,
    serverVars, poolVars, faultVars
<1>38. ASSUME NEW p \in Procs, Crash(p) PROVE StableSession'
  BY <1>38, ConfigAssumption DEF TypeOK, Shape, StableSession, Exclusion,
    HoldersOwn, Holding, Locking, Secret, Secrets, Request, Crash, Fault,
    Freed, serverVars, historyVars, Goto, CreateTries
<1>39. ASSUME NEW p \in Procs, DanglingCrash(p) PROVE StableSession'
  BY <1>39, ConfigAssumption DEF TypeOK, Shape, StableSession, Exclusion,
    HoldersOwn, Holding, Locking, Secret, Secrets, Request, DanglingCrash,
    Freed, serverVars, historyVars, Goto, CreateTries
<1>40. ASSUME NEW s \in Sids, LockExpires(s) PROVE StableSession'
  BY <1>40, ConfigAssumption DEF TypeOK, Shape, StableSession, Exclusion,
    HoldersOwn, Holding, Locking, Secret, Secrets, Request, LockExpires,
    Expiry, requestVars, poolVars, faultVars
<1>41. ASSUME NEW s \in Sids, DataExpires(s) PROVE StableSession'
  BY <1>41, ConfigAssumption DEF TypeOK, Shape, StableSession, Exclusion,
    HoldersOwn, Holding, Locking, Secret, Secrets, Request, DataExpires,
    requestVars, poolVars, faultVars, historyVars
<1>42. ASSUME NEW r \in late, LateCommand(r) PROVE StableSession'
  BY <1>42, ConfigAssumption DEF TypeOK, Shape, StableSession, Exclusion,
    HoldersOwn, Holding, Locking, Secret, Secrets, Request, LateCommand,
    Execute, requestVars, poolVars, faultVars, LockAfter, DataAfter
<1>43. CASE UNCHANGED vars
  BY <1>43 DEF StableSession, Holding, Secret, vars, serverVars, requestVars,
    poolVars, faultVars, historyVars
<1>44. QED
  BY <1>1, <1>2, <1>3, <1>4, <1>5, <1>6, <1>7, <1>8, <1>9, <1>10, <1>11,
    <1>12, <1>13, <1>14, <1>15, <1>16, <1>17, <1>18, <1>19, <1>20, <1>21,
    <1>22, <1>23, <1>24, <1>25, <1>26, <1>27, <1>28, <1>29, <1>30, <1>31,
    <1>32, <1>33, <1>34, <1>35, <1>36, <1>37, <1>38, <1>39, <1>40, <1>41,
    <1>42, <1>43 DEF Next, Step, Start, Save, Finish, Finished

-----------------------------------------------------------------------------
(* The theorems *)

\* The inductive invariant
Safe == TypeOK /\ Shape /\ Exclusion /\ Accounted /\ StableSession

LEMMA SafeInit == Init => Safe
<1> SUFFICES ASSUME Init PROVE Safe
  OBVIOUS
<1>1. TypeOK /\ Shape
  BY TypeInit
<1>2. \A p \in Procs : pc[p] = "none" /\ ~locked[p]
  BY DEF Init
<1>3. Exclusion
  BY <1>2 DEF Init, Exclusion, SecretsIssued, HoldersOwn, NoLateRelease, Holding,
    Locking
<1>4. Accounted
  BY <1>2 DEF Init, Accounted, LateTainted, UnsentTainted, NoOrphanLock
<1>5. StableSession
  BY <1>2 DEF Init, StableSession
<1>6. QED
  BY <1>1, <1>3, <1>4, <1>5 DEF Safe

LEMMA SafeStep == Safe /\ [Next]_vars => Safe'
BY TypeStep, ShapeStep, ExclusionStep, AccountedStep, StableStep
  DEF Safe

LEMMA AlwaysSafe == Spec => []Safe
BY SafeInit, SafeStep, PTL DEF Spec

\* Mutual exclusion: two processes are in a session under a lock only if the
\* lock of one of them ran out.  Redis holds one secret per lock key, and the
\* secrets of two processes differ.
THEOREM Excludes == Spec => []MutualExclusion
<1>1. Safe => MutualExclusion
  <2> SUFFICES ASSUME Safe, NEW p \in Procs, NEW q \in Procs, p # q,
                      Holding(p), Holding(q), lkey[p] = lkey[q],
                      Secret(p) \notin expired, Secret(q) \notin expired
               PROVE  FALSE
    BY DEF MutualExclusion
  <2>1. lock[lkey[p]] = Secret(p) /\ lock[lkey[p]] = Secret(q)
    BY DEF Safe, Exclusion, HoldersOwn
  <2>2. QED
    BY <2>1 DEF Secret
<1>2. QED
  BY <1>1, AlwaysSafe, PTL

\* No lock is left behind in Redis, by whatever path a session ends, unless a
\* fault hit that session.
THEOREM LeaksNoLock == Spec => []NoOrphanLock
<1>1. Safe => NoOrphanLock
  BY DEF Safe, Accounted
<1>2. QED
  BY <1>1, AlwaysSafe, PTL

\* The data of a session does not change under a process that holds its lock.
THEOREM LosesNoUpdate == Spec => []StableSession
<1>1. Safe => StableSession
  BY DEF Safe
<1>2. QED
  BY <1>1, AlwaysSafe, PTL

=============================================================================
