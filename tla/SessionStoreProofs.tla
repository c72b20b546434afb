------------------------- MODULE SessionStoreProofs -------------------------
(***************************************************************************)
(* SessionLock implements SessionStore.                                    *)
(***************************************************************************)
EXTENDS SessionLockProofs

-----------------------------------------------------------------------------
(* The abstract store *)

GrantedIssued == \A t \in granted : Issued(t)

\* A process that knows that it has the lock was granted it ...
HoldersGranted == \A p \in Procs : locked[p] => Secret(p) \in granted

\* ... and one that can still send its SET was not, nor will a late SET do it.
LockersNew ==
    \A p \in Procs : Locking(p) /\ up[p] =>
        /\ Secret(p) \notin granted
        /\ \A r \in late : r.op = "SET" => r.tag # Secret(p)

LateLeases ==
    \A r \in late : /\ r.op = "SET" => r.tag \notin granted
                    /\ r.op = "SETEX" => r.tag \in granted

LateSetsUnique ==
    \A r1, r2 \in late :
        r1.op = "SET" /\ r2.op = "SET" /\ r1.tag = r2.tag => r1 = r2

\* A secret becomes a lease at most once.
LeasesUnique ==
    GrantedIssued /\ HoldersGranted /\ LockersNew /\ LateLeases /\ LateSetsUnique

\* Every step keeps the invariant.
LEMMA LeasesStep ==
    ASSUME TypeOK, Shape, SecretsIssued, LeasesUnique, [Next]_vars
    PROVE  LeasesUnique'
<1>1. ASSUME NEW p \in Procs, Validate(p) PROVE LeasesUnique'
  BY <1>1, ConfigAssumption DEF TypeOK, Shape, LeasesUnique, GrantedIssued,
    HoldersGranted, LockersNew, LateLeases, LateSetsUnique, SecretsIssued,
    Issued, Holding, Locking, Secret, Secrets, Request, Validate, Connected,
    Goto, serverVars, faultVars, historyVars
<1>2. ASSUME NEW p \in Procs, ValidateFails(p) PROVE LeasesUnique'
  BY <1>2, ConfigAssumption DEF TypeOK, Shape, LeasesUnique, GrantedIssued,
    HoldersGranted, LockersNew, LateLeases, LateSetsUnique, SecretsIssued,
    Issued, Holding, Locking, Secret, Secrets, Request, ValidateFails, NoSock,
    Unanswered, Goto, serverVars, historyVars, Fault
<1>3. ASSUME NEW p \in Procs, CreateSid(p) PROVE LeasesUnique'
  BY <1>3, ConfigAssumption DEF TypeOK, Shape, LeasesUnique, GrantedIssued,
    HoldersGranted, LockersNew, LateLeases, LateSetsUnique, SecretsIssued,
    Issued, Holding, Locking, Secret, Secrets, Request, CreateSid, Connected,
    NewLock, Goto, serverVars, faultVars, historyVars
<1>4. ASSUME NEW p \in Procs, CreateSidNoSock(p) PROVE LeasesUnique'
  BY <1>4, ConfigAssumption DEF TypeOK, Shape, LeasesUnique, GrantedIssued,
    HoldersGranted, LockersNew, LateLeases, LateSetsUnique, SecretsIssued,
    Issued, Holding, Locking, Secret, Secrets, Request, CreateSidNoSock,
    NoSock, Goto, serverVars, historyVars, Fault
<1>5. ASSUME NEW p \in Procs, LockGranted(p) PROVE LeasesUnique'
  <2>1. GrantedIssued'
    BY <1>5, ConfigAssumption DEF TypeOK, Shape, LeasesUnique, GrantedIssued,
      HoldersGranted, LockersNew, LateLeases, LateSetsUnique, SecretsIssued,
      Issued, Holding, Locking, Secret, Secrets, Request, LockGranted,
      Execute, Cmd, Goto, faultVars, LockAfter, DataAfter
  <2>2. HoldersGranted'
    BY <1>5, ConfigAssumption DEF TypeOK, Shape, LeasesUnique, GrantedIssued,
      HoldersGranted, LockersNew, LateLeases, LateSetsUnique, SecretsIssued,
      Issued, Holding, Locking, Secret, Secrets, Request, LockGranted,
      Execute, Cmd, Goto, faultVars, LockAfter, DataAfter
  <2>3. LockersNew'
    BY <1>5, ConfigAssumption DEF TypeOK, Shape, LeasesUnique, GrantedIssued,
      HoldersGranted, LockersNew, LateLeases, LateSetsUnique, SecretsIssued,
      Issued, Holding, Locking, Secret, Secrets, Request, LockGranted,
      Execute, Cmd, Goto, faultVars, LockAfter, DataAfter
  <2>4. LateLeases'
    BY <1>5, ConfigAssumption DEF TypeOK, Shape, LeasesUnique, GrantedIssued,
      HoldersGranted, LockersNew, LateLeases, LateSetsUnique, SecretsIssued,
      Issued, Holding, Locking, Secret, Secrets, Request, LockGranted,
      Execute, Cmd, Goto, faultVars, LockAfter, DataAfter
  <2>5. LateSetsUnique'
    BY <1>5, ConfigAssumption DEF TypeOK, Shape, LeasesUnique, GrantedIssued,
      HoldersGranted, LockersNew, LateLeases, LateSetsUnique, SecretsIssued,
      Issued, Holding, Locking, Secret, Secrets, Request, LockGranted,
      Execute, Cmd, Goto, faultVars, LockAfter, DataAfter
  <2>6. QED
    BY <2>1, <2>2, <2>3, <2>4, <2>5 DEF LeasesUnique
<1>6. ASSUME NEW p \in Procs, LockBusy(p) PROVE LeasesUnique'
  BY <1>6, ConfigAssumption DEF TypeOK, Shape, LeasesUnique, GrantedIssued,
    HoldersGranted, LockersNew, LateLeases, LateSetsUnique, SecretsIssued,
    Issued, Holding, Locking, Secret, Secrets, Request, LockBusy, NotLocked,
    serverVars, faultVars, historyVars, TryAgain, GivesUp, LockFailed, Goto
<1>7. ASSUME NEW p \in Procs, LockLost(p) PROVE LeasesUnique'
  BY <1>7, ConfigAssumption DEF TypeOK, Shape, LeasesUnique, GrantedIssued,
    HoldersGranted, LockersNew, LateLeases, LateSetsUnique, SecretsIssued,
    Issued, Holding, Locking, Secret, Secrets, Request, LockLost, Lost, Cmd,
    Refused, NotLocked, historyVars, Fault, TryAgain, GivesUp, LockFailed,
    Goto
<1>8. ASSUME NEW p \in Procs, LockUnsent(p) PROVE LeasesUnique'
  BY <1>8, ConfigAssumption DEF TypeOK, Shape, LeasesUnique, GrantedIssued,
    HoldersGranted, LockersNew, LateLeases, LateSetsUnique, SecretsIssued,
    Issued, Holding, Locking, Secret, Secrets, Request, LockUnsent,
    LockFailed, serverVars, faultVars, historyVars, Goto
<1>9. ASSUME NEW p \in Procs, Read(p) PROVE LeasesUnique'
  BY <1>9, ConfigAssumption DEF TypeOK, Shape, LeasesUnique, GrantedIssued,
    HoldersGranted, LockersNew, LateLeases, LateSetsUnique, SecretsIssued,
    Issued, Holding, Locking, Secret, Secrets, Request, Read, Connected, Goto,
    NewLock, serverVars, faultVars, historyVars
<1>10. ASSUME NEW p \in Procs, ReadNoSock(p) PROVE LeasesUnique'
  BY <1>10, ConfigAssumption DEF TypeOK, Shape, LeasesUnique, GrantedIssued,
    HoldersGranted, LockersNew, LateLeases, LateSetsUnique, SecretsIssued,
    Issued, Holding, Locking, Secret, Secrets, Request, ReadNoSock, NoSock,
    Goto, serverVars, historyVars, Fault
<1>11. ASSUME NEW p \in Procs, Get(p) PROVE LeasesUnique'
  BY <1>11, ConfigAssumption DEF TypeOK, Shape, LeasesUnique, GrantedIssued,
    HoldersGranted, LockersNew, LateLeases, LateSetsUnique, SecretsIssued,
    Issued, Holding, Locking, Secret, Secrets, Request, Get, Goto, serverVars,
    poolVars, faultVars, historyVars
<1>12. ASSUME NEW p \in Procs, GetFails(p) PROVE LeasesUnique'
  BY <1>12, ConfigAssumption DEF TypeOK, Shape, LeasesUnique, GrantedIssued,
    HoldersGranted, LockersNew, LateLeases, LateSetsUnique, SecretsIssued,
    Issued, Holding, Locking, Secret, Secrets, Request, GetFails, faultVars,
    Unanswered, Goto, serverVars, historyVars, Fault
<1>13. ASSUME NEW p \in Procs, Script(p) PROVE LeasesUnique'
  BY <1>13, ConfigAssumption DEF TypeOK, Shape, LeasesUnique, GrantedIssued,
    HoldersGranted, LockersNew, LateLeases, LateSetsUnique, SecretsIssued,
    Issued, Holding, Locking, Secret, Secrets, Request, Script, Goto, Handler,
    Regenerates, serverVars, poolVars, faultVars
<1>14. ASSUME NEW p \in Procs, WriteDenied(p) PROVE LeasesUnique'
  BY <1>14, ConfigAssumption DEF TypeOK, Shape, LeasesUnique, GrantedIssued,
    HoldersGranted, LockersNew, LateLeases, LateSetsUnique, SecretsIssued,
    Issued, Holding, Locking, Secret, Secrets, Request, WriteDenied,
    Connected, FailToClose, serverVars, faultVars, historyVars, Goto
<1>15. ASSUME NEW p \in Procs, WriteUnchecked(p) PROVE LeasesUnique'
  BY <1>15, ConfigAssumption DEF TypeOK, Shape, LeasesUnique, GrantedIssued,
    HoldersGranted, LockersNew, LateLeases, LateSetsUnique, SecretsIssued,
    Issued, Holding, Locking, Secret, Secrets, Request, WriteUnchecked,
    Connected, Goto, serverVars, faultVars, historyVars
<1>16. ASSUME NEW p \in Procs, WriteChecked(p) PROVE LeasesUnique'
  BY <1>16, ConfigAssumption DEF TypeOK, Shape, LeasesUnique, GrantedIssued,
    HoldersGranted, LockersNew, LateLeases, LateSetsUnique, SecretsIssued,
    Issued, Holding, Locking, Secret, Secrets, Request, WriteChecked,
    Connected, Goto, FailToClose, serverVars, faultVars, historyVars
<1>17. ASSUME NEW p \in Procs, WriteCheckFails(p) PROVE LeasesUnique'
  BY <1>17, ConfigAssumption DEF TypeOK, Shape, LeasesUnique, GrantedIssued,
    HoldersGranted, LockersNew, LateLeases, LateSetsUnique, SecretsIssued,
    Issued, Holding, Locking, Secret, Secrets, Request, WriteCheckFails,
    Unanswered, FailToClose, serverVars, historyVars, Fault, Goto
<1>18. ASSUME NEW p \in Procs, Setex(p) PROVE LeasesUnique'
  BY <1>18, ConfigAssumption DEF TypeOK, Shape, LeasesUnique, GrantedIssued,
    HoldersGranted, LockersNew, LateLeases, LateSetsUnique, SecretsIssued,
    Issued, Holding, Locking, Secret, Secrets, Request, Setex, Execute, Cmd,
    Goto, poolVars, faultVars, historyVars, LockAfter, DataAfter
<1>19. ASSUME NEW p \in Procs, SetexFails(p) PROVE LeasesUnique'
  BY <1>19, ConfigAssumption DEF TypeOK, Shape, LeasesUnique, GrantedIssued,
    HoldersGranted, LockersNew, LateLeases, LateSetsUnique, SecretsIssued,
    Issued, Holding, Locking, Secret, Secrets, Request, SetexFails, Lost, Cmd,
    Refused, FailToClose, historyVars, Fault, Goto
<1>20. ASSUME NEW p \in Procs, TouchSkipped(p) PROVE LeasesUnique'
  BY <1>20, ConfigAssumption DEF TypeOK, Shape, LeasesUnique, GrantedIssued,
    HoldersGranted, LockersNew, LateLeases, LateSetsUnique, SecretsIssued,
    Issued, Holding, Locking, Secret, Secrets, Request, TouchSkipped,
    RefreshedByRead, Goto, serverVars, poolVars, faultVars, historyVars
<1>21. ASSUME NEW p \in Procs, Touch(p) PROVE LeasesUnique'
  BY <1>21, ConfigAssumption DEF TypeOK, Shape, LeasesUnique, GrantedIssued,
    HoldersGranted, LockersNew, LateLeases, LateSetsUnique, SecretsIssued,
    Issued, Holding, Locking, Secret, Secrets, Request, Touch,
    RefreshedByRead, Connected, Goto, serverVars, faultVars, historyVars
<1>22. ASSUME NEW p \in Procs, TouchFails(p) PROVE LeasesUnique'
  BY <1>22, ConfigAssumption DEF TypeOK, Shape, LeasesUnique, GrantedIssued,
    HoldersGranted, LockersNew, LateLeases, LateSetsUnique, SecretsIssued,
    Issued, Holding, Locking, Secret, Secrets, Request, TouchFails,
    RefreshedByRead, Unanswered, Goto, serverVars, historyVars, Fault
<1>23. ASSUME NEW p \in Procs, Delex(p) PROVE LeasesUnique'
  <2>1. GrantedIssued'
    BY <1>23, ConfigAssumption DEF TypeOK, Shape, LeasesUnique, GrantedIssued,
      HoldersGranted, LockersNew, LateLeases, LateSetsUnique, SecretsIssued,
      Issued, Holding, Locking, Secret, Secrets, Request, Delex, Execute, Cmd,
      ReleaseEnd, faultVars, historyVars, LockAfter, DataAfter, Closed, Goto,
      Freed, CreateTries
  <2>2. HoldersGranted'
    BY <1>23, ConfigAssumption DEF TypeOK, Shape, LeasesUnique, GrantedIssued,
      HoldersGranted, LockersNew, LateLeases, LateSetsUnique, SecretsIssued,
      Issued, Holding, Locking, Secret, Secrets, Request, Delex, Execute, Cmd,
      ReleaseEnd, faultVars, historyVars, LockAfter, DataAfter, Closed, Goto,
      Freed, CreateTries
  <2>3. LockersNew'
    BY <1>23, ConfigAssumption DEF TypeOK, Shape, LeasesUnique, GrantedIssued,
      HoldersGranted, LockersNew, LateLeases, LateSetsUnique, SecretsIssued,
      Issued, Holding, Locking, Secret, Secrets, Request, Delex, Execute, Cmd,
      ReleaseEnd, faultVars, historyVars, LockAfter, DataAfter, Closed, Goto,
      Freed, CreateTries
  <2>4. LateLeases'
    BY <1>23, ConfigAssumption DEF TypeOK, Shape, LeasesUnique, GrantedIssued,
      HoldersGranted, LockersNew, LateLeases, LateSetsUnique, SecretsIssued,
      Issued, Holding, Locking, Secret, Secrets, Request, Delex, Execute, Cmd,
      ReleaseEnd, faultVars, historyVars, LockAfter, DataAfter, Closed, Goto,
      Freed, CreateTries
  <2>5. LateSetsUnique'
    BY <1>23, ConfigAssumption DEF TypeOK, Shape, LeasesUnique, GrantedIssued,
      HoldersGranted, LockersNew, LateLeases, LateSetsUnique, SecretsIssued,
      Issued, Holding, Locking, Secret, Secrets, Request, Delex, Execute, Cmd,
      ReleaseEnd, faultVars, historyVars, LockAfter, DataAfter, Closed, Goto,
      Freed, CreateTries
  <2>6. QED
    BY <2>1, <2>2, <2>3, <2>4, <2>5 DEF LeasesUnique
<1>24. ASSUME NEW p \in Procs, DelexUnknown(p) PROVE LeasesUnique'
  BY <1>24, ConfigAssumption DEF TypeOK, Shape, LeasesUnique, GrantedIssued,
    HoldersGranted, LockersNew, LateLeases, LateSetsUnique, SecretsIssued,
    Issued, Holding, Locking, Secret, Secrets, Request, DelexUnknown, Goto,
    serverVars, poolVars, faultVars, historyVars
<1>25. ASSUME NEW p \in Procs, DelexFails(p) PROVE LeasesUnique'
  <2>1. GrantedIssued'
    BY <1>25, ConfigAssumption DEF TypeOK, Shape, LeasesUnique, GrantedIssued,
      HoldersGranted, LockersNew, LateLeases, LateSetsUnique, SecretsIssued,
      Issued, Holding, Locking, Secret, Secrets, Request, DelexFails, Fault,
      Cmd, ReleaseEnd, historyVars, Closed, Goto, Freed, CreateTries
  <2>2. HoldersGranted'
    BY <1>25, ConfigAssumption DEF TypeOK, Shape, LeasesUnique, GrantedIssued,
      HoldersGranted, LockersNew, LateLeases, LateSetsUnique, SecretsIssued,
      Issued, Holding, Locking, Secret, Secrets, Request, DelexFails, Fault,
      Cmd, ReleaseEnd, historyVars, Closed, Goto, Freed, CreateTries
  <2>3. LockersNew'
    BY <1>25, ConfigAssumption DEF TypeOK, Shape, LeasesUnique, GrantedIssued,
      HoldersGranted, LockersNew, LateLeases, LateSetsUnique, SecretsIssued,
      Issued, Holding, Locking, Secret, Secrets, Request, DelexFails, Fault,
      Cmd, ReleaseEnd, historyVars, Closed, Goto, Freed, CreateTries
  <2>4. LateLeases'
    BY <1>25, ConfigAssumption DEF TypeOK, Shape, LeasesUnique, GrantedIssued,
      HoldersGranted, LockersNew, LateLeases, LateSetsUnique, SecretsIssued,
      Issued, Holding, Locking, Secret, Secrets, Request, DelexFails, Fault,
      Cmd, ReleaseEnd, historyVars, Closed, Goto, Freed, CreateTries
  <2>5. LateSetsUnique'
    BY <1>25, ConfigAssumption DEF TypeOK, Shape, LeasesUnique, GrantedIssued,
      HoldersGranted, LockersNew, LateLeases, LateSetsUnique, SecretsIssued,
      Issued, Holding, Locking, Secret, Secrets, Request, DelexFails, Fault,
      Cmd, ReleaseEnd, historyVars, Closed, Goto, Freed, CreateTries
  <2>6. QED
    BY <2>1, <2>2, <2>3, <2>4, <2>5 DEF LeasesUnique
<1>26. ASSUME NEW p \in Procs, ReleaseNothing(p) PROVE LeasesUnique'
  BY <1>26, ConfigAssumption DEF TypeOK, Shape, LeasesUnique, GrantedIssued,
    HoldersGranted, LockersNew, LateLeases, LateSetsUnique, SecretsIssued,
    Issued, Holding, Locking, Secret, Secrets, Request, ReleaseNothing,
    ReleaseEnd, serverVars, faultVars, historyVars, Closed, Goto, Freed,
    CreateTries
<1>27. ASSUME NEW p \in Procs, EvalSha(p) PROVE LeasesUnique'
  <2>1. GrantedIssued'
    BY <1>27, ConfigAssumption DEF TypeOK, Shape, LeasesUnique, GrantedIssued,
      HoldersGranted, LockersNew, LateLeases, LateSetsUnique, SecretsIssued,
      Issued, Holding, Locking, Secret, Secrets, Request, EvalSha, Execute,
      Cmd, ReleaseEnd, Goto, poolVars, faultVars, historyVars, LockAfter,
      DataAfter, Closed, Freed, CreateTries
  <2>2. HoldersGranted'
    BY <1>27, ConfigAssumption DEF TypeOK, Shape, LeasesUnique, GrantedIssued,
      HoldersGranted, LockersNew, LateLeases, LateSetsUnique, SecretsIssued,
      Issued, Holding, Locking, Secret, Secrets, Request, EvalSha, Execute,
      Cmd, ReleaseEnd, Goto, poolVars, faultVars, historyVars, LockAfter,
      DataAfter, Closed, Freed, CreateTries
  <2>3. LockersNew'
    BY <1>27, ConfigAssumption DEF TypeOK, Shape, LeasesUnique, GrantedIssued,
      HoldersGranted, LockersNew, LateLeases, LateSetsUnique, SecretsIssued,
      Issued, Holding, Locking, Secret, Secrets, Request, EvalSha, Execute,
      Cmd, ReleaseEnd, Goto, poolVars, faultVars, historyVars, LockAfter,
      DataAfter, Closed, Freed, CreateTries
  <2>4. LateLeases'
    BY <1>27, ConfigAssumption DEF TypeOK, Shape, LeasesUnique, GrantedIssued,
      HoldersGranted, LockersNew, LateLeases, LateSetsUnique, SecretsIssued,
      Issued, Holding, Locking, Secret, Secrets, Request, EvalSha, Execute,
      Cmd, ReleaseEnd, Goto, poolVars, faultVars, historyVars, LockAfter,
      DataAfter, Closed, Freed, CreateTries
  <2>5. LateSetsUnique'
    BY <1>27, ConfigAssumption DEF TypeOK, Shape, LeasesUnique, GrantedIssued,
      HoldersGranted, LockersNew, LateLeases, LateSetsUnique, SecretsIssued,
      Issued, Holding, Locking, Secret, Secrets, Request, EvalSha, Execute,
      Cmd, ReleaseEnd, Goto, poolVars, faultVars, historyVars, LockAfter,
      DataAfter, Closed, Freed, CreateTries
  <2>6. QED
    BY <2>1, <2>2, <2>3, <2>4, <2>5 DEF LeasesUnique
<1>28. ASSUME NEW p \in Procs, EvalShaFails(p) PROVE LeasesUnique'
  BY <1>28, ConfigAssumption DEF TypeOK, Shape, LeasesUnique, GrantedIssued,
    HoldersGranted, LockersNew, LateLeases, LateSetsUnique, SecretsIssued,
    Issued, Holding, Locking, Secret, Secrets, Request, EvalShaFails, Lost,
    Cmd, Refused, Goto, historyVars, Fault
<1>29. ASSUME NEW p \in Procs, Eval(p) PROVE LeasesUnique'
  <2>1. GrantedIssued'
    BY <1>29, ConfigAssumption DEF TypeOK, Shape, LeasesUnique, GrantedIssued,
      HoldersGranted, LockersNew, LateLeases, LateSetsUnique, SecretsIssued,
      Issued, Holding, Locking, Secret, Secrets, Request, Eval, Execute, Cmd,
      ReleaseEnd, faultVars, historyVars, LockAfter, DataAfter, Closed, Goto,
      Freed, CreateTries
  <2>2. HoldersGranted'
    BY <1>29, ConfigAssumption DEF TypeOK, Shape, LeasesUnique, GrantedIssued,
      HoldersGranted, LockersNew, LateLeases, LateSetsUnique, SecretsIssued,
      Issued, Holding, Locking, Secret, Secrets, Request, Eval, Execute, Cmd,
      ReleaseEnd, faultVars, historyVars, LockAfter, DataAfter, Closed, Goto,
      Freed, CreateTries
  <2>3. LockersNew'
    BY <1>29, ConfigAssumption DEF TypeOK, Shape, LeasesUnique, GrantedIssued,
      HoldersGranted, LockersNew, LateLeases, LateSetsUnique, SecretsIssued,
      Issued, Holding, Locking, Secret, Secrets, Request, Eval, Execute, Cmd,
      ReleaseEnd, faultVars, historyVars, LockAfter, DataAfter, Closed, Goto,
      Freed, CreateTries
  <2>4. LateLeases'
    BY <1>29, ConfigAssumption DEF TypeOK, Shape, LeasesUnique, GrantedIssued,
      HoldersGranted, LockersNew, LateLeases, LateSetsUnique, SecretsIssued,
      Issued, Holding, Locking, Secret, Secrets, Request, Eval, Execute, Cmd,
      ReleaseEnd, faultVars, historyVars, LockAfter, DataAfter, Closed, Goto,
      Freed, CreateTries
  <2>5. LateSetsUnique'
    BY <1>29, ConfigAssumption DEF TypeOK, Shape, LeasesUnique, GrantedIssued,
      HoldersGranted, LockersNew, LateLeases, LateSetsUnique, SecretsIssued,
      Issued, Holding, Locking, Secret, Secrets, Request, Eval, Execute, Cmd,
      ReleaseEnd, faultVars, historyVars, LockAfter, DataAfter, Closed, Goto,
      Freed, CreateTries
  <2>6. QED
    BY <2>1, <2>2, <2>3, <2>4, <2>5 DEF LeasesUnique
<1>30. ASSUME NEW p \in Procs, EvalFails(p) PROVE LeasesUnique'
  <2>1. GrantedIssued'
    BY <1>30, ConfigAssumption DEF TypeOK, Shape, LeasesUnique, GrantedIssued,
      HoldersGranted, LockersNew, LateLeases, LateSetsUnique, SecretsIssued,
      Issued, Holding, Locking, Secret, Secrets, Request, EvalFails,
      ReleaseEnd, faultVars, Fault, Cmd, historyVars, Closed, Goto, Freed,
      CreateTries
  <2>2. HoldersGranted'
    BY <1>30, ConfigAssumption DEF TypeOK, Shape, LeasesUnique, GrantedIssued,
      HoldersGranted, LockersNew, LateLeases, LateSetsUnique, SecretsIssued,
      Issued, Holding, Locking, Secret, Secrets, Request, EvalFails,
      ReleaseEnd, faultVars, Fault, Cmd, historyVars, Closed, Goto, Freed,
      CreateTries
  <2>3. LockersNew'
    BY <1>30, ConfigAssumption DEF TypeOK, Shape, LeasesUnique, GrantedIssued,
      HoldersGranted, LockersNew, LateLeases, LateSetsUnique, SecretsIssued,
      Issued, Holding, Locking, Secret, Secrets, Request, EvalFails,
      ReleaseEnd, faultVars, Fault, Cmd, historyVars, Closed, Goto, Freed,
      CreateTries
  <2>4. LateLeases'
    BY <1>30, ConfigAssumption DEF TypeOK, Shape, LeasesUnique, GrantedIssued,
      HoldersGranted, LockersNew, LateLeases, LateSetsUnique, SecretsIssued,
      Issued, Holding, Locking, Secret, Secrets, Request, EvalFails,
      ReleaseEnd, faultVars, Fault, Cmd, historyVars, Closed, Goto, Freed,
      CreateTries
  <2>5. LateSetsUnique'
    BY <1>30, ConfigAssumption DEF TypeOK, Shape, LeasesUnique, GrantedIssued,
      HoldersGranted, LockersNew, LateLeases, LateSetsUnique, SecretsIssued,
      Issued, Holding, Locking, Secret, Secrets, Request, EvalFails,
      ReleaseEnd, faultVars, Fault, Cmd, historyVars, Closed, Goto, Freed,
      CreateTries
  <2>6. QED
    BY <2>1, <2>2, <2>3, <2>4, <2>5 DEF LeasesUnique
<1>31. ASSUME NEW p \in Procs, Destroy(p) PROVE LeasesUnique'
  BY <1>31, ConfigAssumption DEF TypeOK, Shape, LeasesUnique, GrantedIssued,
    HoldersGranted, LockersNew, LateLeases, LateSetsUnique, SecretsIssued,
    Issued, Holding, Locking, Secret, Secrets, Request, Destroy, ReleaseStart,
    serverVars, faultVars, historyVars, Connected, Goto
<1>32. ASSUME NEW p \in Procs, Del(p) PROVE LeasesUnique'
  BY <1>32, ConfigAssumption DEF TypeOK, Shape, LeasesUnique, GrantedIssued,
    HoldersGranted, LockersNew, LateLeases, LateSetsUnique, SecretsIssued,
    Issued, Holding, Locking, Secret, Secrets, Request, Del, Execute, Cmd,
    Goto, poolVars, faultVars, historyVars, LockAfter, DataAfter
<1>33. ASSUME NEW p \in Procs, DelFails(p) PROVE LeasesUnique'
  BY <1>33, ConfigAssumption DEF TypeOK, Shape, LeasesUnique, GrantedIssued,
    HoldersGranted, LockersNew, LateLeases, LateSetsUnique, SecretsIssued,
    Issued, Holding, Locking, Secret, Secrets, Request, DelFails, faultVars,
    Lost, Cmd, Refused, FailToClose, historyVars, Fault, Goto
<1>34. ASSUME NEW p \in Procs, Close(p) PROVE LeasesUnique'
  BY <1>34, ConfigAssumption DEF TypeOK, Shape, LeasesUnique, GrantedIssued,
    HoldersGranted, LockersNew, LateLeases, LateSetsUnique, SecretsIssued,
    Issued, Holding, Locking, Secret, Secrets, Request, Close, ReleaseStart,
    serverVars, faultVars, historyVars, Connected, Goto
<1>35. ASSUME NEW p \in Procs, CloseNoSock(p) PROVE LeasesUnique'
  BY <1>35, ConfigAssumption DEF TypeOK, Shape, LeasesUnique, GrantedIssued,
    HoldersGranted, LockersNew, LateLeases, LateSetsUnique, SecretsIssued,
    Issued, Holding, Locking, Secret, Secrets, Request, CloseNoSock, Fault,
    Closed, serverVars, historyVars, Freed, Goto, CreateTries
<1>36. ASSUME NEW p \in Procs, CloseUnkeyed(p) PROVE LeasesUnique'
  BY <1>36, ConfigAssumption DEF TypeOK, Shape, LeasesUnique, GrantedIssued,
    HoldersGranted, LockersNew, LateLeases, LateSetsUnique, SecretsIssued,
    Issued, Holding, Locking, Secret, Secrets, Request, CloseUnkeyed, Closed,
    serverVars, faultVars, historyVars, Freed, Goto, CreateTries
<1>37. ASSUME NEW p \in Procs, Open(p) PROVE LeasesUnique'
  BY <1>37, ConfigAssumption DEF TypeOK, Shape, LeasesUnique, GrantedIssued,
    HoldersGranted, LockersNew, LateLeases, LateSetsUnique, SecretsIssued,
    Issued, Holding, Locking, Secret, Secrets, Request, Open, Goto,
    serverVars, poolVars, faultVars
<1>38. ASSUME NEW p \in Procs, Crash(p) PROVE LeasesUnique'
  BY <1>38, ConfigAssumption DEF TypeOK, Shape, LeasesUnique, GrantedIssued,
    HoldersGranted, LockersNew, LateLeases, LateSetsUnique, SecretsIssued,
    Issued, Holding, Locking, Secret, Secrets, Request, Crash, Fault, Freed,
    serverVars, historyVars, Goto, CreateTries
<1>39. ASSUME NEW p \in Procs, DanglingCrash(p) PROVE LeasesUnique'
  BY <1>39, ConfigAssumption DEF TypeOK, Shape, LeasesUnique, GrantedIssued,
    HoldersGranted, LockersNew, LateLeases, LateSetsUnique, SecretsIssued,
    Issued, Holding, Locking, Secret, Secrets, Request, DanglingCrash, Freed,
    serverVars, historyVars, Goto, CreateTries
<1>40. ASSUME NEW s \in Sids, LockExpires(s) PROVE LeasesUnique'
  BY <1>40, ConfigAssumption DEF TypeOK, Shape, LeasesUnique, GrantedIssued,
    HoldersGranted, LockersNew, LateLeases, LateSetsUnique, SecretsIssued,
    Issued, Holding, Locking, Secret, Secrets, Request, LockExpires, Expiry,
    requestVars, poolVars, faultVars
<1>41. ASSUME NEW s \in Sids, DataExpires(s) PROVE LeasesUnique'
  BY <1>41, ConfigAssumption DEF TypeOK, Shape, LeasesUnique, GrantedIssued,
    HoldersGranted, LockersNew, LateLeases, LateSetsUnique, SecretsIssued,
    Issued, Holding, Locking, Secret, Secrets, Request, DataExpires,
    requestVars, poolVars, faultVars, historyVars
<1>42. ASSUME NEW r \in late, LateCommand(r) PROVE LeasesUnique'
  <2>1. GrantedIssued'
    BY <1>42, ConfigAssumption DEF TypeOK, Shape, LeasesUnique, GrantedIssued,
      HoldersGranted, LockersNew, LateLeases, LateSetsUnique, SecretsIssued,
      Issued, Holding, Locking, Secret, Secrets, Request, LateCommand,
      Execute, requestVars, poolVars, faultVars, LockAfter, DataAfter
  <2>2. HoldersGranted'
    BY <1>42, ConfigAssumption DEF TypeOK, Shape, LeasesUnique, GrantedIssued,
      HoldersGranted, LockersNew, LateLeases, LateSetsUnique, SecretsIssued,
      Issued, Holding, Locking, Secret, Secrets, Request, LateCommand,
      Execute, requestVars, poolVars, faultVars, LockAfter, DataAfter
  <2>3. LockersNew'
    BY <1>42, ConfigAssumption DEF TypeOK, Shape, LeasesUnique, GrantedIssued,
      HoldersGranted, LockersNew, LateLeases, LateSetsUnique, SecretsIssued,
      Issued, Holding, Locking, Secret, Secrets, Request, LateCommand,
      Execute, requestVars, poolVars, faultVars, LockAfter, DataAfter
  <2>4. LateLeases'
    BY <1>42, ConfigAssumption DEF TypeOK, Shape, LeasesUnique, GrantedIssued,
      HoldersGranted, LockersNew, LateLeases, LateSetsUnique, SecretsIssued,
      Issued, Holding, Locking, Secret, Secrets, Request, LateCommand,
      Execute, requestVars, poolVars, faultVars, LockAfter, DataAfter
  <2>5. LateSetsUnique'
    BY <1>42, ConfigAssumption DEF TypeOK, Shape, LeasesUnique, GrantedIssued,
      HoldersGranted, LockersNew, LateLeases, LateSetsUnique, SecretsIssued,
      Issued, Holding, Locking, Secret, Secrets, Request, LateCommand,
      Execute, requestVars, poolVars, faultVars, LockAfter, DataAfter
  <2>6. QED
    BY <2>1, <2>2, <2>3, <2>4, <2>5 DEF LeasesUnique
<1>43. CASE UNCHANGED vars
  BY <1>43 DEF LeasesUnique, GrantedIssued, HoldersGranted, LockersNew,
    LateLeases, LateSetsUnique, Issued, Locking, Secret, vars, serverVars,
    requestVars, poolVars, faultVars, historyVars
<1>44. QED
  BY <1>1, <1>2, <1>3, <1>4, <1>5, <1>6, <1>7, <1>8, <1>9, <1>10, <1>11,
    <1>12, <1>13, <1>14, <1>15, <1>16, <1>17, <1>18, <1>19, <1>20, <1>21,
    <1>22, <1>23, <1>24, <1>25, <1>26, <1>27, <1>28, <1>29, <1>30, <1>31,
    <1>32, <1>33, <1>34, <1>35, <1>36, <1>37, <1>38, <1>39, <1>40, <1>41,
    <1>42, <1>43 DEF Next, Step, Start, Save, Finish, Finished

LEMMA StoreRelease ==
    ASSUME TypeOK, NEW p \in Procs, NEW s \in Sids,
           Execute(Cmd("REL", p, s)) \/ UNCHANGED <<lock, data>>,
           UNCHANGED <<granted, expired, overdue>>
    PROVE  [Store!Next]_(Store!vars)
<1>1. CASE lock[s] = Secret(p) /\ Execute(Cmd("REL", p, s))
  <2>1. Store!Release(s)
    BY <1>1 DEF Execute, LockAfter, DataAfter, Cmd, Store!Release
  <2>2. QED
    BY <2>1 DEF Store!Next
<1>2. CASE ~(lock[s] = Secret(p) /\ Execute(Cmd("REL", p, s)))
  BY <1>2 DEF Execute, LockAfter, DataAfter, Cmd, Store!vars
<1>3. QED
  BY <1>1, <1>2

\* Every step is a step of the store or leaves it alone.
LEMMA StoreStep ==
    ASSUME TypeOK, Shape, Exclusion, LeasesUnique, [Next]_vars
    PROVE  [Store!Next]_(Store!vars)
<1>1. ASSUME NEW p \in Procs, Validate(p) PROVE [Store!Next]_(Store!vars)
  BY <1>1 DEF Store!vars, Validate, Connected, Goto, serverVars, faultVars,
    historyVars
<1>2. ASSUME NEW p \in Procs, ValidateFails(p) PROVE [Store!Next]_(Store!vars)
  BY <1>2 DEF Store!vars, ValidateFails, NoSock, Unanswered, Goto, serverVars,
    historyVars, Fault, Secret
<1>3. ASSUME NEW p \in Procs, CreateSid(p) PROVE [Store!Next]_(Store!vars)
  BY <1>3 DEF Store!vars, CreateSid, Connected, NewLock, Goto, serverVars,
    faultVars, historyVars
<1>4. ASSUME NEW p \in Procs, CreateSidNoSock(p) PROVE [Store!Next]_(Store!vars)
  BY <1>4 DEF Store!vars, CreateSidNoSock, NoSock, Goto, serverVars,
    historyVars, Fault, Secret
<1>5. ASSUME NEW p \in Procs, LockGranted(p) PROVE [Store!Next]_(Store!vars)
  <2>1. /\ lkey[p] \in Sids /\ lock[lkey[p]] = None
        /\ lock' = [lock EXCEPT ![lkey[p]] = Secret(p)] /\ data' = data
    BY <1>5 DEF LockGranted, Execute, LockAfter, DataAfter, Cmd, Shape, Locking
  <2>2. Secret(p) \in Secrets \ granted
    BY <1>5, SecretType DEF LockGranted, LeasesUnique, LockersNew
  <2>3. granted' = granted \cup {Secret(p)} /\ UNCHANGED <<expired, overdue>>
    BY <1>5 DEF LockGranted
  <2>4. Store!Grant(lkey[p], lock'[lkey[p]])
    BY <2>1, <2>2, <2>3 DEF TypeOK, Store!Grant
  <2>5. QED
    BY <2>1, <2>4 DEF Store!Next
<1>6. ASSUME NEW p \in Procs, LockBusy(p) PROVE [Store!Next]_(Store!vars)
  BY <1>6 DEF Store!vars, LockBusy, Locking, NotLocked, serverVars, faultVars,
    historyVars, TryAgain, GivesUp, LockFailed, Goto
<1>7. ASSUME NEW p \in Procs, LockLost(p) PROVE [Store!Next]_(Store!vars)
  BY <1>7 DEF Store!vars, LockLost, Locking, Lost, Refused, NotLocked,
    historyVars, Fault, TryAgain, GivesUp, LockFailed, Secret, Goto
<1>8. ASSUME NEW p \in Procs, LockUnsent(p) PROVE [Store!Next]_(Store!vars)
  BY <1>8 DEF Store!vars, LockUnsent, Locking, LockFailed, serverVars,
    faultVars, historyVars, Goto
<1>9. ASSUME NEW p \in Procs, Read(p) PROVE [Store!Next]_(Store!vars)
  BY <1>9 DEF Store!vars, Read, Connected, Goto, NewLock, serverVars,
    faultVars, historyVars
<1>10. ASSUME NEW p \in Procs, ReadNoSock(p) PROVE [Store!Next]_(Store!vars)
  BY <1>10 DEF Store!vars, ReadNoSock, NoSock, Goto, serverVars, historyVars,
    Fault, Secret
<1>11. ASSUME NEW p \in Procs, Get(p) PROVE [Store!Next]_(Store!vars)
  BY <1>11 DEF Store!vars, Get, Goto, serverVars, poolVars, faultVars,
    historyVars
<1>12. ASSUME NEW p \in Procs, GetFails(p) PROVE [Store!Next]_(Store!vars)
  BY <1>12 DEF Store!vars, GetFails, faultVars, Unanswered, Goto, serverVars,
    historyVars, Fault, Secret
<1>13. ASSUME NEW p \in Procs, Script(p) PROVE [Store!Next]_(Store!vars)
  BY <1>13 DEF Store!vars, Script, Goto, Handler, Regenerates, serverVars,
    poolVars, faultVars
<1>14. ASSUME NEW p \in Procs, WriteDenied(p) PROVE [Store!Next]_(Store!vars)
  BY <1>14 DEF Store!vars, WriteDenied, Connected, FailToClose, serverVars,
    faultVars, historyVars, Goto
<1>15. ASSUME NEW p \in Procs, WriteUnchecked(p) PROVE [Store!Next]_(Store!vars)
  BY <1>15 DEF Store!vars, WriteUnchecked, Connected, Goto, serverVars,
    faultVars, historyVars
<1>16. ASSUME NEW p \in Procs, WriteChecked(p) PROVE [Store!Next]_(Store!vars)
  BY <1>16 DEF Store!vars, WriteChecked, Connected, Secret, Goto, FailToClose,
    serverVars, faultVars, historyVars
<1>17. ASSUME NEW p \in Procs, WriteCheckFails(p) PROVE [Store!Next]_(Store!vars)
  BY <1>17 DEF Store!vars, WriteCheckFails, Unanswered, FailToClose,
    serverVars, historyVars, Fault, Goto, Secret
<1>18. ASSUME NEW p \in Procs, Setex(p) PROVE [Store!Next]_(Store!vars)
  <2>1. sid[p] \in Sids /\ Holding(p) /\ lkey[p] = sid[p]
    BY <1>18 DEF Setex, Shape, Holding
  <2>2. lock[sid[p]] = Secret(p) \/ Secret(p) \in expired
    BY <2>1 DEF Exclusion, HoldersOwn
  <2>3. /\ data' = [data EXCEPT ![sid[p]] = Secret(p)]
        /\ UNCHANGED <<lock, granted, expired, overdue>>
    BY <1>18 DEF Setex, Execute, LockAfter, DataAfter, Cmd, historyVars
  <2>4. Store!Write(sid[p], data'[sid[p]])
    BY <2>1, <2>2, <2>3 DEF TypeOK, Store!Write
  <2>5. QED
    BY <2>1, <2>4 DEF Store!Next
<1>19. ASSUME NEW p \in Procs, SetexFails(p) PROVE [Store!Next]_(Store!vars)
  BY <1>19 DEF Store!vars, SetexFails, Lost, Refused, FailToClose,
    historyVars, Fault, Goto, Secret
<1>20. ASSUME NEW p \in Procs, TouchSkipped(p) PROVE [Store!Next]_(Store!vars)
  BY <1>20 DEF Store!vars, TouchSkipped, RefreshedByRead, Goto, serverVars,
    poolVars, faultVars, historyVars
<1>21. ASSUME NEW p \in Procs, Touch(p) PROVE [Store!Next]_(Store!vars)
  BY <1>21 DEF Store!vars, Touch, RefreshedByRead, Connected, Goto,
    serverVars, faultVars, historyVars
<1>22. ASSUME NEW p \in Procs, TouchFails(p) PROVE [Store!Next]_(Store!vars)
  BY <1>22 DEF Store!vars, TouchFails, RefreshedByRead, Unanswered, Goto,
    serverVars, historyVars, Fault, Secret
<1>23. ASSUME NEW p \in Procs, Delex(p) PROVE [Store!Next]_(Store!vars)
  <2>1. lkey[p] \in Sids
    BY <1>23 DEF Shape, Delex
  <2>2. Execute(Cmd("REL", p, lkey[p])) \/ UNCHANGED <<lock, data>>
    BY <1>23 DEF Delex
  <2>3. UNCHANGED <<granted, expired, overdue>>
    BY <1>23 DEF Delex, historyVars
  <2>4. QED
    BY <2>1, <2>2, <2>3, StoreRelease
<1>24. ASSUME NEW p \in Procs, DelexUnknown(p) PROVE [Store!Next]_(Store!vars)
  BY <1>24 DEF Store!vars, DelexUnknown, Goto, serverVars, poolVars,
    faultVars, historyVars
<1>25. ASSUME NEW p \in Procs, DelexFails(p) PROVE [Store!Next]_(Store!vars)
  BY <1>25 DEF Store!vars, DelexFails, Fault, ReleaseEnd, historyVars, Secret,
    Closed, Goto, Freed, CreateTries
<1>26. ASSUME NEW p \in Procs, ReleaseNothing(p) PROVE [Store!Next]_(Store!vars)
  BY <1>26 DEF Store!vars, ReleaseNothing, ReleaseEnd, serverVars, faultVars,
    historyVars, Closed, Goto, Freed, CreateTries
<1>27. ASSUME NEW p \in Procs, EvalSha(p) PROVE [Store!Next]_(Store!vars)
  <2>1. lkey[p] \in Sids
    BY <1>27 DEF Shape, EvalSha
  <2>2. Execute(Cmd("REL", p, lkey[p])) \/ UNCHANGED <<lock, data>>
    BY <1>27 DEF EvalSha
  <2>3. UNCHANGED <<granted, expired, overdue>>
    BY <1>27 DEF EvalSha, historyVars
  <2>4. QED
    BY <2>1, <2>2, <2>3, StoreRelease
<1>28. ASSUME NEW p \in Procs, EvalShaFails(p) PROVE [Store!Next]_(Store!vars)
  BY <1>28 DEF Store!vars, EvalShaFails, Lost, Refused, Goto, historyVars,
    Fault, Secret
<1>29. ASSUME NEW p \in Procs, Eval(p) PROVE [Store!Next]_(Store!vars)
  <2>1. lkey[p] \in Sids
    BY <1>29 DEF Shape, Eval
  <2>2. Execute(Cmd("REL", p, lkey[p])) \/ UNCHANGED <<lock, data>>
    BY <1>29 DEF Eval
  <2>3. UNCHANGED <<granted, expired, overdue>>
    BY <1>29 DEF Eval, historyVars
  <2>4. QED
    BY <2>1, <2>2, <2>3, StoreRelease
<1>30. ASSUME NEW p \in Procs, EvalFails(p) PROVE [Store!Next]_(Store!vars)
  BY <1>30 DEF Store!vars, EvalFails, ReleaseEnd, faultVars, Fault,
    historyVars, Closed, Goto, Secret, Freed, CreateTries
<1>31. ASSUME NEW p \in Procs, Destroy(p) PROVE [Store!Next]_(Store!vars)
  BY <1>31 DEF Store!vars, Destroy, ReleaseStart, serverVars, faultVars,
    historyVars, Connected, Goto
<1>32. ASSUME NEW p \in Procs, Del(p) PROVE [Store!Next]_(Store!vars)
  <2>1. sid[p] \in Sids
    BY <1>32 DEF Del, Shape
  <2>2. Store!Erase(sid[p])
    BY <1>32 DEF Del, Execute, LockAfter, DataAfter, Cmd, historyVars,
      Store!Erase
  <2>3. QED
    BY <2>1, <2>2 DEF Store!Next
<1>33. ASSUME NEW p \in Procs, DelFails(p) PROVE [Store!Next]_(Store!vars)
  BY <1>33 DEF Store!vars, DelFails, faultVars, Lost, Refused, FailToClose,
    historyVars, Fault, Goto, Secret
<1>34. ASSUME NEW p \in Procs, Close(p) PROVE [Store!Next]_(Store!vars)
  BY <1>34 DEF Store!vars, Close, ReleaseStart, serverVars, faultVars,
    historyVars, Connected, Goto
<1>35. ASSUME NEW p \in Procs, CloseNoSock(p) PROVE [Store!Next]_(Store!vars)
  BY <1>35 DEF Store!vars, CloseNoSock, Fault, Closed, serverVars,
    historyVars, Secret, Freed, Goto, CreateTries
<1>36. ASSUME NEW p \in Procs, CloseUnkeyed(p) PROVE [Store!Next]_(Store!vars)
  BY <1>36 DEF Store!vars, CloseUnkeyed, Closed, serverVars, faultVars,
    historyVars, Freed, Goto, CreateTries
<1>37. ASSUME NEW p \in Procs, Open(p) PROVE [Store!Next]_(Store!vars)
  BY <1>37 DEF Store!vars, Open, Goto, serverVars, poolVars, faultVars
<1>38. ASSUME NEW p \in Procs, Crash(p) PROVE [Store!Next]_(Store!vars)
  BY <1>38 DEF Store!vars, Crash, Fault, Freed, serverVars, historyVars,
    Secret, Goto, CreateTries
<1>39. ASSUME NEW p \in Procs, DanglingCrash(p) PROVE [Store!Next]_(Store!vars)
  BY <1>39 DEF Store!vars, DanglingCrash, Secret, Freed, serverVars,
    historyVars, Goto, CreateTries
<1>40. ASSUME NEW s \in Sids, LockExpires(s) PROVE [Store!Next]_(Store!vars)
  <2>1. Store!TimeOut(s)
    BY <1>40 DEF LockExpires, Store!TimeOut
  <2>2. QED
    BY <2>1 DEF Store!Next
<1>41. ASSUME NEW s \in Sids, DataExpires(s) PROVE [Store!Next]_(Store!vars)
  <2>1. Store!Erase(s)
    BY <1>41 DEF DataExpires, historyVars, Store!Erase
  <2>2. QED
    BY <2>1 DEF Store!Next
<1>42. ASSUME NEW r \in late, LateCommand(r) PROVE [Store!Next]_(Store!vars)
  <2>1. r \in Request /\ r.key \in Sids /\ r.tag \in Secrets
    BY DEF TypeOK, Request
  <2>2. CASE UNCHANGED <<lock, data, overdue, granted>>
    BY <1>42, <2>2 DEF LateCommand, Store!vars
  <2> DEFINE over == IF r.op = "SETEX" THEN overdue \cup {r.tag} ELSE overdue
             grants == IF r.op = "SET" /\ lock[r.key] = None
                       THEN granted \cup {r.tag} ELSE granted
  <2>3. CASE Execute(r) /\ overdue' = over /\ granted' = grants
    <3>1. UNCHANGED expired
      BY <1>42 DEF LateCommand
    <3>2. CASE r.op = "SET" /\ lock[r.key] = None
      <4>1. Store!Grant(r.key, lock'[r.key])
        BY <2>1, <2>3, <3>1, <3>2 DEF TypeOK, Execute, LockAfter, DataAfter,
          LeasesUnique, LateLeases, Store!Grant
      <4>2. QED
        BY <2>1, <4>1 DEF Store!Next
    <3>3. CASE r.op = "SET" /\ lock[r.key] # None
      BY <2>3, <3>1, <3>3 DEF Execute, LockAfter, DataAfter, Store!vars
    <3>4. CASE r.op = "SETEX"
      <4>1. r.tag \in granted
        BY <3>4 DEF LeasesUnique, LateLeases
      <4>2. Store!LateWrite(r.key, data'[r.key])
        BY <2>1, <2>3, <3>1, <3>4, <4>1 DEF TypeOK, Execute, LockAfter,
          DataAfter, Store!LateWrite
      <4>3. QED
        BY <2>1, <4>2 DEF Store!Next
    <3>5. CASE r.op = "DEL"
      <4>1. Store!Erase(r.key)
        BY <2>3, <3>1, <3>5 DEF Execute, LockAfter, DataAfter, Store!Erase
      <4>2. QED
        BY <2>1, <4>1 DEF Store!Next
    <3>6. CASE r.op = "REL"
      <4>1. CASE lock[r.key] = r.tag
        <5>1. Store!Release(r.key)
          BY <2>3, <3>1, <3>6, <4>1 DEF Execute, LockAfter, DataAfter,
            Store!Release
        <5>2. QED
          BY <2>1, <5>1 DEF Store!Next
      <4>2. CASE lock[r.key] # r.tag
        BY <2>3, <3>1, <3>6, <4>2 DEF Execute, LockAfter, DataAfter, Store!vars
      <4>3. QED
        BY <4>1, <4>2
    <3>7. QED
      BY <2>1, <3>2, <3>3, <3>4, <3>5, <3>6 DEF Request
  <2>4. QED
    BY <1>42, <2>2, <2>3 DEF LateCommand
<1>43. CASE UNCHANGED vars
  BY <1>43 DEF Store!vars, vars, serverVars, requestVars, poolVars, faultVars,
    historyVars
<1>44. QED
  BY <1>1, <1>2, <1>3, <1>4, <1>5, <1>6, <1>7, <1>8, <1>9, <1>10, <1>11,
    <1>12, <1>13, <1>14, <1>15, <1>16, <1>17, <1>18, <1>19, <1>20, <1>21,
    <1>22, <1>23, <1>24, <1>25, <1>26, <1>27, <1>28, <1>29, <1>30, <1>31,
    <1>32, <1>33, <1>34, <1>35, <1>36, <1>37, <1>38, <1>39, <1>40, <1>41,
    <1>42, <1>43 DEF Next, Step, Start, Save, Finish, Finished

-----------------------------------------------------------------------------
(* The theorem *)

LEMMA LeasesInit == Init => LeasesUnique
<1> SUFFICES ASSUME Init PROVE LeasesUnique
  OBVIOUS
<1>1. \A p \in Procs : pc[p] = "none" /\ ~locked[p]
  BY DEF Init
<1>2. QED
  BY <1>1 DEF Init, LeasesUnique, GrantedIssued, HoldersGranted, LockersNew,
    LateLeases, LateSetsUnique, Locking

\* The session handler implements the store with exclusive leases: whatever is
\* lost or executed late, no secret becomes the lock of a session twice, and a
\* session is written under the lock in force or under one that lapsed.
THEOREM ImplementsStore == Spec => StoreSpec
<1>1. Init => Store!Init
  BY DEF Init, Store!Init
<1>2. LeasesUnique /\ Safe /\ [Next]_vars => LeasesUnique'
  BY LeasesStep DEF Safe, Exclusion
<1>3. LeasesUnique /\ Safe /\ [Next]_vars => [Store!Next]_(Store!vars)
  BY StoreStep DEF Safe
<1>4. QED
  BY <1>1, <1>2, <1>3, LeasesInit, AlwaysSafe, PTL DEF Spec, StoreSpec, Store!Spec

=============================================================================
