------------------------ MODULE OAuthCleanup_proofs -------------------------
(***************************************************************************)
(* What the store guarantees also where handoffs clean up: lock files are  *)
(* unlinked under processes that have them open, so that two may hold the  *)
(* lease, or the storage lock, of different inodes.  A lock on an inode    *)
(* still excludes, a token is still known to nobody else before it is      *)
(* stored, and whoever opened an unlinked lock file knows a state that is  *)
(* not there any more.                                                     *)
(***************************************************************************)
EXTENDS OAuthStore_proofs

-----------------------------------------------------------------------------
(* Each process by itself.                                                 *)

\* Where the lock file is open and locked.
Held == {"locked", "rename"} \cup Removal

\* A process has the lock file open in a section and in a removal, and a task
\* there; it has the lease unless it only reads; it has a token in hand exactly
\* while it is to store it; and a temporary file before the rename.
Proper(p) ==
  /\ lockFd[p] # 0 <=> pc[p] \in Held \cup {"try lock"}
  /\ pc[p] \in Removal => task[p] = "cleanup"
  /\ task[p] = "cleanup" => /\ pc[p] \in {"open lock", "try lock", "locked"} \cup Removal
                            /\ cmd[p] = "cleanup handoff" /\ copy[p] = source[p]
  /\ task[p] \in Writes => pc[p] \in Sectioned
  /\ pc[p] = "rename" => task[p] \in Writes /\ p \in tmp
  /\ leaseFd[p] = 0 => pc[p] \in {"idle", "open lease"} \cup Ended
                       \/ (pc[p] \in {"open lock", "try lock", "locked"} /\ task[p] = "load" /\ cmd[p] = "status")
  /\ pc[p] \in {"renew", "authorize", "work"} \/ task[p] = "tokens" => known[p].client
  /\ got[p] # 0 <=> task[p] = "tokens"
  /\ known[p].generation = 0 => known[p] = Missing

AllProper == \A p \in Procs : Proper(p)

LEMMA ProperClients == AllProper => ClientKnown
BY DEF AllProper, Proper, ClientKnown, Writes, Sectioned

\* The types of what a process has.
LEMMA FunctionTypes ==
  ASSUME TypeOK
  PROVE  /\ pc \in [Procs -> Labels] /\ task \in [Procs -> Tasks]
         /\ cmd \in [Procs -> Commands \cup {"none"}]
         /\ leaseFd \in [Procs -> Nat] /\ lockFd \in [Procs -> Nat]
         /\ known \in [Procs -> State] /\ source \in [Procs -> State] /\ copy \in [Procs -> State]
         /\ got \in [Procs -> Nat] /\ want \in [Procs -> Nat] /\ renewals \in [Procs -> Nat]
BY DEF TypeOK

LEMMA OthersKeep ==
  ASSUME TypeOK, NEW p \in Procs, Step(p) \/ Crash(p), NEW q \in Procs, q # p
  PROVE  /\ pc'[q] = pc[q] /\ task'[q] = task[q] /\ cmd'[q] = cmd[q]
         /\ leaseFd'[q] = leaseFd[q] /\ known'[q] = known[q] /\ got'[q] = got[q]
         /\ lockFd'[q] = lockFd[q] /\ source'[q] = source[q] /\ copy'[q] = copy[q]
<1>a. lockFd \in [Procs -> Nat] /\ source \in [Procs -> State] /\ copy \in [Procs -> State]
  BY FunctionTypes
<1>b. ASSUME NEW how, Ends(p, how) PROVE lockFd'[q] = lockFd[q] /\ source'[q] = source[q]
  BY <1>a, <1>b DEF Ends, Forget
<1>c. ASSUME Fails(p) \/ CallFails(p) PROVE lockFd'[q] = lockFd[q] /\ source'[q] = source[q]
  BY <1>b, <1>c DEF Fails, CallFails
<1>1. copy'[q] = copy[q]
  <2>1. copy' = copy \/ \E s : copy' = [copy EXCEPT ![p] = s]
    BY DEF Step, Crash, Start, OpenLease, TakeLease, LeaseTimesOut, OpenLock, OpenFails, TryLock,
       Load, Compare, Rename, RenameFails, Connect, Renew, RenewalLost, RenewalRefused, Register,
       Authorize, AuthorizationLost, Work, Revoke, RequestFails, ReadSource, Transfer, TransferFails,
       Validate, CheckSource, UnlinkState, UnlinkLock, UnlinkLease, RemoveDirectory
  <2> QED BY <1>a, <2>1
<1>2. lockFd'[q] = lockFd[q] /\ source'[q] = source[q]
  <2>1. CASE Crash(p) \/ LeaseTimesOut(p) \/ OpenFails(p) \/ RequestFails(p) \/ RenameFails(p)
             \/ RenewalLost(p) \/ AuthorizationLost(p) \/ TransferFails(p) \/ RemoveDirectory(p)
    BY <2>1, <1>b, <1>c DEF Crash, LeaseTimesOut, OpenFails, RequestFails, RenameFails, RenewalLost,
       AuthorizationLost, TransferFails, RemoveDirectory
  <2>2. CASE Start(p) \/ OpenLease(p) \/ TakeLease(p) \/ Connect(p) \/ Register(p) \/ Renew(p)
             \/ Authorize(p) \/ Transfer(p) \/ UnlinkState(p) \/ UnlinkLock(p) \/ UnlinkLease(p)
    BY <2>2 DEF Start, OpenLease, TakeLease, Connect, Register, Renew, Authorize, Transfer,
       UnlinkState, UnlinkLock, UnlinkLease
  <2>3. CASE OpenLock(p) \/ ReadSource(p)
    BY <2>3, <1>a, <1>c DEF OpenLock, ReadSource
  <2>4. CASE Load(p) \/ Rename(p)
    BY <2>4, <1>a, <1>b, <1>c DEF Load, Rename, Unlock
  <2>5. CASE TryLock(p) \/ Compare(p) \/ RenewalRefused(p) \/ CheckSource(p) \/ Work(p) \/ Revoke(p)
             \/ Validate(p)
    BY <2>5, <1>b, <1>c DEF TryLock, Compare, RenewalRefused, CheckSource, Work, Revoke, Validate
  <2> QED BY <2>1, <2>2, <2>3, <2>4, <2>5 DEF Step
<1> QED BY <1>1, <1>2, OthersUnchanged

\* A process that is over has nothing open and nothing in hand.
Over(p) ==
  /\ pc'[p] \in Ended /\ task'[p] = "none" /\ cmd'[p] = cmd[p]
  /\ leaseFd'[p] = 0 /\ lockFd'[p] = 0 /\ known'[p] = Missing /\ got'[p] = 0

LEMMA EndsOver ==
  ASSUME TypeOK, NEW p \in Procs, NEW how \in Ended, Ends(p, how)
  PROVE  Over(p)
BY FunctionTypes DEF Ends, Forget, Goto, Over

LEMMA FailsOver ==
  ASSUME TypeOK, NEW p \in Procs, Fails(p) \/ CallFails(p)
  PROVE  Over(p)
BY EndsOver DEF Fails, CallFails, Ended

LEMMA OverIsProper ==
  ASSUME NEW p \in Procs, Over(p)
  PROVE  Proper(p)'
<1>1. /\ pc'[p] \in Ended /\ task'[p] = "none" /\ leaseFd'[p] = 0 /\ lockFd'[p] = 0 /\ got'[p] = 0
      /\ known'[p] = Missing /\ known'[p].client = FALSE
  BY DEF Over, Missing
<1> QED BY <1>1 DEF Proper, Held, Removal, Ended, Writes

\* What else becomes of a process.
Same(p) == /\ cmd'[p] = cmd[p] /\ leaseFd'[p] = leaseFd[p] /\ lockFd'[p] = lockFd[p]
           /\ known'[p] = known[p] /\ got'[p] = got[p]

Move(p) ==
  \/ Over(p)
  \* It begins, and goes for its lease.
  \/ /\ pc[p] = "idle" /\ leaseFd'[p] = leaseFd[p] /\ lockFd'[p] = lockFd[p]
     /\ known'[p] = known[p] /\ got'[p] = got[p]
     /\ \/ pc'[p] = "open lock" /\ task'[p] = "load" /\ cmd'[p] = "status"
        \/ pc'[p] \in {"failed", "open lease"} /\ task'[p] = task[p]
  \/ /\ pc[p] = "open lease" /\ pc'[p] = "await lease" /\ task'[p] = task[p]
     /\ cmd'[p] = cmd[p] /\ lockFd'[p] = lockFd[p] /\ known'[p] = known[p] /\ got'[p] = got[p]
     /\ leaseFd'[p] = leaseFile' /\ leaseFile' # 0
  \/ /\ pc[p] = "await lease" /\ LeaseFree(p) /\ pc'[p] = "open lock" /\ task'[p] = "load" /\ Same(p)
  \* It passes a section.
  \/ /\ pc[p] = "open lock" /\ pc'[p] = "try lock" /\ task'[p] = task[p] /\ cmd'[p] = cmd[p]
     /\ leaseFd'[p] = leaseFd[p] /\ known'[p] = known[p] /\ got'[p] = got[p]
     /\ lockFd'[p] = lockFile' /\ lockFile' # 0
  \/ pc[p] = "try lock" /\ LockFree(p) /\ pc'[p] = "locked" /\ task'[p] = task[p] /\ Same(p)
  \/ /\ pc[p] = "locked" /\ task[p] = "load" /\ pc'[p] \in {"read source", "connect"}
     /\ task'[p] = task[p] /\ cmd'[p] = cmd[p] /\ leaseFd'[p] = leaseFd[p] /\ lockFd'[p] = 0
     /\ known'[p] = store /\ store' = store /\ got'[p] = got[p] /\ cmd[p] # "status"
  \/ /\ pc[p] = "locked" /\ task[p] \in Writes /\ Current(p) /\ directory /\ pc'[p] = "rename"
     /\ task'[p] = task[p] /\ Same(p) /\ p \in tmp'
  \/ /\ pc[p] = "rename" /\ task[p] # "erase" /\ task'[p] = "none" /\ cmd'[p] = cmd[p]
     /\ pc'[p] = IF task[p] = "tokens" THEN "work" ELSE "authorize"
     /\ leaseFd'[p] = leaseFd[p] /\ lockFd'[p] = 0 /\ known'[p] = store' /\ got'[p] = 0
     /\ store' = NewState(p)
  \* It calls the provider.
  \/ /\ pc[p] = "connect" /\ task'[p] = task[p] /\ Same(p)
     /\ pc'[p] = IF cmd[p] = "revoke" THEN "revoke" ELSE IF known[p].token # 0 THEN "renew"
                 ELSE IF known[p].client THEN "authorize" ELSE "register"
  \/ pc[p] = "renew" /\ pc'[p] = "authorize" /\ task'[p] = task[p] /\ Same(p)
  \/ pc[p] = "work" /\ pc'[p] = "renew" /\ task'[p] = task[p] /\ Same(p)
  \/ pc[p] = "register" /\ pc'[p] = "open lock" /\ task'[p] = "register" /\ Same(p)
  \/ pc[p] = "revoke" /\ pc'[p] = "open lock" /\ task'[p] = "erase" /\ Same(p)
  \/ /\ pc[p] \in {"renew", "authorize"} /\ pc'[p] = "open lock" /\ task'[p] = "tokens"
     /\ cmd'[p] = cmd[p] /\ leaseFd'[p] = leaseFd[p] /\ lockFd'[p] = lockFd[p]
     /\ known'[p] = known[p] /\ got'[p] = minted + 1 /\ minted' = minted + 1
  \* It hands over, and removes.
  \/ /\ \/ pc[p] = "read source" /\ pc'[p] = "transfer"
        \/ pc[p] = "transfer" /\ pc'[p] = "validate"
     /\ task'[p] = task[p] /\ Same(p)
  \/ /\ pc[p] = "validate" /\ pc'[p] = "open lock" /\ task'[p] = "cleanup" /\ Same(p)
     /\ cmd[p] = "cleanup handoff" /\ copy[p] = source[p]
     /\ copy'[p] = copy[p] /\ source'[p] = source[p]
  \/ /\ pc[p] = "locked" /\ task[p] = "cleanup" /\ Unchanged(p) /\ pc'[p] = "unlink state"
     /\ task'[p] = task[p] /\ source'[p] = source[p] /\ Same(p)
  \/ /\ \/ pc[p] = "unlink state" /\ pc'[p] = "unlink lock" /\ store' = Missing
        \/ pc[p] = "unlink lock" /\ pc'[p] = "unlink lease" /\ lockFile' = 0
        \/ pc[p] = "unlink lease" /\ pc'[p] = "rmdir" /\ leaseFile' = 0
     /\ task'[p] = task[p] /\ Same(p)

LEMMA NextInode == \A n \in Nat : n + 1 # 0
OBVIOUS

LEMMA StepMoves ==
  ASSUME TypeOK, NEW p \in Procs, Step(p) \/ Crash(p)
  PROVE  Move(p)
<1>a. /\ pc \in [Procs -> Labels] /\ task \in [Procs -> Tasks]
      /\ cmd \in [Procs -> Commands \cup {"none"}]
      /\ leaseFd \in [Procs -> Nat] /\ lockFd \in [Procs -> Nat]
      /\ known \in [Procs -> State] /\ got \in [Procs -> Nat] /\ inodes + 1 # 0
  BY FunctionTypes, NextInode DEF TypeOK
<1>b. ASSUME (\E how \in Ended : Ends(p, how)) \/ Fails(p) \/ CallFails(p) PROVE Move(p)
  BY <1>b, EndsOver, FailsOver DEF Move
<1>1. CASE Crash(p) \/ LeaseTimesOut(p) \/ OpenFails(p) \/ RequestFails(p) \/ RenameFails(p)
           \/ RenewalLost(p) \/ AuthorizationLost(p) \/ TransferFails(p) \/ RemoveDirectory(p)
  BY <1>1, <1>b DEF Crash, LeaseTimesOut, OpenFails, RequestFails, RenameFails, RenewalLost,
     AuthorizationLost, TransferFails, RemoveDirectory, Ended
<1>2. CASE Start(p)
  <2>1. /\ pc[p] = "idle" /\ UNCHANGED <<leaseFd, lockFd, known, got>>
        /\ \/ Section(p, "load") /\ cmd' = [cmd EXCEPT ![p] = "status"]
           \/ (Goto(p, "failed") \/ Goto(p, "open lease")) /\ UNCHANGED task
    BY <1>2 DEF Start
  <2> QED BY <1>a, <2>1 DEF Move, Section, Goto
<1>3. CASE OpenLease(p)
  <2>1. leaseFile' # 0
    BY <1>3, <1>a DEF OpenLease
  <2> QED BY <1>3, <1>a, <2>1 DEF OpenLease, Move, Goto
<1>4. CASE OpenLock(p)
  <2>1. lockFile' # 0
    BY <1>4, <1>a DEF OpenLock
  <2> QED BY <1>4, <1>a, <2>1 DEF OpenLock, Move, Goto
<1>5. CASE TakeLease(p)
  BY <1>5, <1>a DEF TakeLease, Section, Goto, Move, Same
<1>6. CASE TryLock(p)
  BY <1>6, <1>a, <1>b DEF TryLock, Goto, Move, Same
<1>7. CASE Load(p)
  <2>1. CASE \E how \in Ended : Ends(p, how) \/ Fails(p)
    BY <2>1, <1>b
  <2>2. CASE /\ cmd[p] # "status" /\ known' = [known EXCEPT ![p] = store] /\ Unlock(p)
             /\ Goto(p, IF cmd[p] \in Handoffs THEN "read source" ELSE "connect")
             /\ UNCHANGED <<cmd, task, leaseFd, got, want, source, renewals, mishaps>>
    <3>1. pc'[p] \in {"read source", "connect"} /\ known'[p] = store /\ lockFd'[p] = 0
      BY <1>a, <2>2 DEF Goto, Unlock
    <3> QED BY <1>7, <2>2, <3>1 DEF Load, Move, files
  <2> QED BY <1>7, <2>1, <2>2 DEF Load, Ended
<1>8. CASE Compare(p)
  BY <1>8, <1>a, <1>b DEF Compare, Goto, Move, Same
<1>9. CASE Rename(p)
  <2>1. CASE task[p] = "erase"
    BY <1>9, <2>1, <1>b DEF Rename, Ended
  <2>2. CASE task[p] # "erase"
    BY <1>9, <1>a, <2>2 DEF Rename, Renamed, Remember, Unlock, Goto, Move
  <2> QED BY <2>1, <2>2
<1>10. CASE Connect(p)
  BY <1>10, <1>a DEF Connect, Goto, Move, Same
<1>11. CASE Renew(p) \/ Authorize(p)
  BY <1>11, <1>a DEF Renew, Authorize, Section, Goto, Move
<1>12. CASE RenewalRefused(p)
  BY <1>12, <1>a, <1>b DEF RenewalRefused, Goto, Move, Same
<1>13. CASE Register(p)
  BY <1>13, <1>a DEF Register, Section, Goto, Move, Same
<1>14. CASE Work(p)
  BY <1>14, <1>a, <1>b DEF Work, Goto, Move, Same, Ended
<1>15. CASE Revoke(p)
  BY <1>15, <1>a, <1>b DEF Revoke, Section, Goto, Move, Same, Ended
<1>16. CASE ReadSource(p) \/ Transfer(p)
  BY <1>16, <1>a, <1>b DEF ReadSource, Transfer, Goto, Move, Same
<1>17. CASE Validate(p)
  <2>1. CASE Ends(p, "done") \/ Ends(p, "failed")
    BY <2>1, <1>b DEF Ended
  <2>2. CASE /\ Verified(p) /\ cmd[p] = "cleanup handoff" /\ Section(p, "cleanup")
             /\ UNCHANGED <<cmd, leaseFd, lockFd, known, got, want, source, renewals>>
    <3>1. pc[p] = "validate" /\ copy' = copy /\ copy[p] = source[p]
      BY <1>17, <2>2 DEF Validate, Verified
    <3> QED BY <1>a, <2>2, <3>1 DEF Section, Goto, Move, Same
  <2> QED BY <1>17, <2>1, <2>2 DEF Validate
<1>18. CASE CheckSource(p)
  BY <1>18, <1>a, <1>b DEF CheckSource, Goto, Move, Same
<1>19. CASE UnlinkState(p) \/ UnlinkLock(p) \/ UnlinkLease(p)
  BY <1>19, <1>a DEF UnlinkState, UnlinkLock, UnlinkLease, Goto, Move, Same
<1> QED
  BY <1>1, <1>2, <1>3, <1>4, <1>5, <1>6, <1>7, <1>8, <1>9, <1>10, <1>11, <1>12, <1>13, <1>14, <1>15,
     <1>16, <1>17, <1>18, <1>19 DEF Step


-----------------------------------------------------------------------------
(* The files of the directory.                                             *)

\* What a step of a process does to them.
Touches(p) ==
  /\ \/ UNCHANGED <<store, issued>>
     \/ pc[p] = "rename" /\ pc'[p] # "rename" /\ store' = NewState(p) /\ issued' = issued + 1
     \/ pc[p] = "unlink state" /\ pc'[p] = "unlink lock" /\ store' = Missing /\ issued' = issued
  /\ \/ tmp' = tmp
     \/ /\ pc[p] = "locked" /\ task[p] \in Writes /\ Current(p) /\ directory /\ pc'[p] = "rename"
        /\ tmp' = tmp \cup {p} /\ directory' = directory
     \/ pc[p] = "rename" /\ tmp' = tmp \ {p}
  /\ \/ lockFile' = lockFile
     \/ pc[p] = "open lock" /\ lockFile = 0 /\ pc'[p] = "try lock"
     \/ pc[p] = "unlink lock" /\ pc'[p] = "unlink lease"
  /\ \/ leaseFile' = leaseFile
     \/ pc[p] = "open lease" /\ leaseFile = 0 /\ pc'[p] = "await lease"
     \/ pc[p] = "unlink lease" /\ pc'[p] = "rmdir"
  /\ \/ directory' \in {directory, TRUE}
     \/ pc[p] = "rmdir" /\ store = Missing /\ tmp = {}

LEMMA StepTouches ==
  ASSUME TypeOK, NEW p \in Procs, Step(p) \/ Crash(p)
  PROVE  Touches(p)
<1>a. pc \in [Procs -> Labels]
  BY FunctionTypes
<1>b. ASSUME NEW how \in Ended, Ends(p, how) PROVE pc'[p] = how
  BY <1>a, <1>b DEF Ends, Goto
<1>c. ASSUME Fails(p) \/ CallFails(p) PROVE pc'[p] = "failed"
  BY <1>b, <1>c DEF Fails, CallFails, Ended
<1>1. CASE UNCHANGED files
  BY <1>1 DEF files, Touches
<1>2. CASE OpenLease(p) \/ OpenLock(p)
  BY <1>2, <1>a DEF OpenLease, OpenLock, Goto, Touches
<1>3. CASE Compare(p)
  BY <1>3, <1>a DEF Compare, Goto, Touches
<1>4. CASE Rename(p)
  BY <1>4, <1>a, <1>b DEF Rename, Renamed, Goto, Ended, Touches
<1>5. CASE RenameFails(p)
  BY <1>5, <1>c DEF RenameFails, Renamed, Touches
<1>6. CASE UnlinkState(p) \/ UnlinkLock(p) \/ UnlinkLease(p) \/ RemoveDirectory(p)
  BY <1>6, <1>a DEF UnlinkState, UnlinkLock, UnlinkLease, RemoveDirectory, Goto, Touches
<1> QED
  BY <1>1, <1>2, <1>3, <1>4, <1>5, <1>6 DEF Step, Crash, Start, TakeLease, LeaseTimesOut, OpenFails,
     TryLock, Load, Connect, Renew, RenewalLost, RenewalRefused, Register, Authorize,
     AuthorizationLost, Work, Revoke, RequestFails, ReadSource, Transfer, TransferFails, Validate,
     CheckSource

\* A process about to remove its source has not read or copied it anew.
LEMMA CopyKept ==
  ASSUME TypeOK, NEW p \in Procs, Proper(p), Step(p) \/ Crash(p), task'[p] = "cleanup"
  PROVE  copy'[p] = source'[p]
<1>a. task \in [Procs -> Tasks] /\ pc \in [Procs -> Labels]
  BY FunctionTypes
<1>b. ASSUME NEW how, Ends(p, how) PROVE FALSE
  BY <1>a, <1>b DEF Ends, Forget
<1>c. ~Fails(p) /\ ~CallFails(p)
  BY <1>b DEF Fails, CallFails
<1>d. ASSUME pc[p] \notin {"open lock", "try lock", "locked"} \cup Removal, UNCHANGED task PROVE FALSE
  BY <1>d DEF Proper
<1>e. ASSUME NEW what, Section(p, what) PROVE what = "cleanup"
  BY <1>a, <1>e DEF Section
<1>1. CASE Validate(p)
  BY <1>1, <1>b DEF Validate, Verified
<1>2. CASE OpenLock(p) \/ TryLock(p) \/ CheckSource(p) \/ UnlinkState(p) \/ UnlinkLock(p) \/ UnlinkLease(p)
  BY <1>2, <1>c DEF OpenLock, TryLock, CheckSource, UnlinkState, UnlinkLock, UnlinkLease, Proper
<1>3. ~Crash(p) /\ ~LeaseTimesOut(p) /\ ~OpenFails(p) /\ ~RequestFails(p) /\ ~RenameFails(p)
      /\ ~RenewalLost(p) /\ ~AuthorizationLost(p) /\ ~TransferFails(p) /\ ~RemoveDirectory(p)
  BY <1>b, <1>c DEF Crash, LeaseTimesOut, OpenFails, RequestFails, RenameFails,
     RenewalLost, AuthorizationLost, TransferFails, RemoveDirectory
<1>4. ~OpenLease(p) /\ ~TakeLease(p) /\ ~Connect(p) /\ ~Renew(p) /\ ~RenewalRefused(p)
      /\ ~Register(p) /\ ~Authorize(p)
  BY <1>c, <1>d, <1>e DEF OpenLease, TakeLease, Connect, Renew, RenewalRefused,
     Register, Authorize, Removal
<1>5. ~Work(p) /\ ~Revoke(p) /\ ~ReadSource(p) /\ ~Transfer(p)
  BY <1>b, <1>c, <1>d, <1>e DEF Work, Revoke, ReadSource, Transfer, Removal
<1>6. ~Start(p)
  <2>1. ASSUME Start(p) PROVE pc[p] = "idle" /\ (task' = task \/ Section(p, "load"))
    BY <2>1 DEF Start
  <2> QED BY <2>1, <1>d, <1>e DEF Removal
<1>7. ~Compare(p) /\ ~Load(p)
  BY <1>b, <1>c DEF Compare, Load, Writes
<1>8. ~Rename(p)
  BY <1>a, <1>b DEF Rename
<1> QED BY <1>1, <1>2, <1>3, <1>4, <1>5, <1>6, <1>7, <1>8 DEF Step

LEMMA ProperStep ==
  ASSUME TypeOK, NEW p \in Procs, Proper(p), Step(p) \/ Crash(p), store.generation = 0 => store = Missing
  PROVE  Proper(p)'
<1>a. /\ pc[p] \in Labels /\ task[p] \in Tasks /\ got[p] \in Nat /\ minted \in Nat /\ issued \in Nat
      /\ known[p] \in State /\ store \in State
  BY DEF TypeOK
<1>b. known[p].token # 0 => known[p].client
  BY <1>a DEF State
<1>c. minted + 1 # 0 /\ issued + 1 # 0
  BY <1>a, NextInode
<1>d. Move(p)
  BY StepMoves
<1>e. task'[p] = "cleanup" => copy'[p] = source'[p]
  BY CopyKept
<1> USE DEF Proper, Held, Removal, Ended, Writes, Sectioned, Same
<1>1. CASE Over(p)
  BY <1>1, OverIsProper
<1>2. CASE pc[p] \in {"idle", "open lease", "await lease"} /\ ~Over(p)
  BY <1>2, <1>d, <1>e DEF Move
<1>3. CASE pc[p] \in {"open lock", "try lock"} /\ ~Over(p)
  BY <1>3, <1>d, <1>e DEF Move
<1>4. CASE pc[p] = "locked" /\ ~Over(p)
  <2>1. store.generation = 0 => store = Missing
    OBVIOUS
  <2> QED BY <1>4, <1>d, <1>e, <2>1 DEF Move
<1>5. CASE pc[p] = "rename" /\ ~Over(p)
  <2>1. /\ task[p] \in {"register", "tokens"} /\ task'[p] = "none" /\ known'[p] = NewState(p)
        /\ pc'[p] = IF task[p] = "tokens" THEN "work" ELSE "authorize"
        /\ leaseFd'[p] = leaseFd[p] /\ lockFd'[p] = 0 /\ got'[p] = 0 /\ cmd'[p] = cmd[p]
    BY <1>5, <1>d DEF Move
  <2>2. NewState(p).generation # 0 /\ NewState(p).client
    BY <1>c, <2>1 DEF NewState
  <2> QED BY <1>5, <2>1, <2>2
<1>6. CASE pc[p] \in {"connect", "renew", "work", "register", "revoke", "authorize"} /\ ~Over(p)
  BY <1>6, <1>b, <1>c, <1>d, <1>e DEF Move
<1>7. CASE pc[p] \in {"read source", "transfer", "validate"} /\ ~Over(p)
  BY <1>7, <1>d, <1>e DEF Move
<1>8. CASE pc[p] \in {"unlink state", "unlink lock", "unlink lease"} /\ ~Over(p)
  BY <1>8, <1>d, <1>e DEF Move
<1>9. pc[p] \in Ended \cup {"rmdir"} => Over(p)
  BY <1>d DEF Move
<1> QED BY <1>a, <1>1, <1>2, <1>3, <1>4, <1>5, <1>6, <1>7, <1>8, <1>9 DEF Labels

-----------------------------------------------------------------------------
(* Locks on inodes.                                                        *)

\* An inode is locked by one process, whatever names it has or had.
LeasesApart == \A p, q \in Procs : HasLease(p) /\ HasLease(q) /\ leaseFd[p] = leaseFd[q] => p = q

LocksApart == \A p, q \in Procs : HasLock(p) /\ HasLock(q) /\ lockFd[p] = lockFd[q] => p = q

\* A lock is had from before, or taken from nobody.
LEMMA LockTaken ==
  ASSUME TypeOK, NEW p \in Procs, Proper(p), Step(p) \/ Crash(p)
  PROVE  /\ HasLease(p)' => leaseFd'[p] = leaseFd[p] /\ (HasLease(p) \/ LeaseFree(p))
         /\ HasLock(p)' => lockFd'[p] = lockFd[p] /\ (HasLock(p) \/ LockFree(p))
<1>1. Move(p)
  BY StepMoves
<1>2. HasLease(p)' => leaseFd'[p] = leaseFd[p] /\ (HasLease(p) \/ LeaseFree(p))
  BY <1>1 DEF Move, Over, Same, HasLease
<1>3. HasLock(p)' => lockFd'[p] = lockFd[p] /\ (HasLock(p) \/ LockFree(p))
  BY <1>1 DEF Move, Over, Same, HasLock, Proper, Held, Removal
<1> QED BY <1>2, <1>3

LEMMA LocksStep ==
  ASSUME TypeOK, AllProper, LeasesApart, LocksApart, NEW p \in Procs, Step(p) \/ Crash(p)
  PROVE  LeasesApart' /\ LocksApart'
<1>a. Proper(p)
  BY DEF AllProper
<1>b. ASSUME NEW q \in Procs, q # p
      PROVE  pc'[q] = pc[q] /\ leaseFd'[q] = leaseFd[q] /\ lockFd'[q] = lockFd[q]
  BY <1>b, OthersKeep
<1>1. ASSUME NEW q \in Procs, q # p, HasLease(p)', HasLease(q)', leaseFd'[p] = leaseFd'[q] PROVE FALSE
  <2>1. HasLease(q) /\ leaseFd[p] = leaseFd[q] /\ (HasLease(p) \/ LeaseFree(p))
    BY <1>1, <1>a, <1>b, LockTaken DEF HasLease
  <2> QED BY <1>1, <2>1 DEF LeasesApart, LeaseFree
<1>2. ASSUME NEW q \in Procs, q # p, HasLock(p)', HasLock(q)', lockFd'[p] = lockFd'[q] PROVE FALSE
  <2>1. HasLock(q) /\ lockFd[p] = lockFd[q] /\ (HasLock(p) \/ LockFree(p))
    BY <1>2, <1>a, <1>b, LockTaken DEF HasLock
  <2> QED BY <1>2, <2>1 DEF LocksApart, LockFree
<1>3. ASSUME NEW q \in Procs, NEW r \in Procs, q # p, r # p
      PROVE  /\ HasLease(q)' /\ HasLease(r)' /\ leaseFd'[q] = leaseFd'[r] => q = r
             /\ HasLock(q)' /\ HasLock(r)' /\ lockFd'[q] = lockFd'[r] => q = r
  BY <1>3, <1>b DEF LeasesApart, LocksApart, HasLease, HasLock
<1>4. LeasesApart'
  BY <1>1, <1>3 DEF LeasesApart
<1>5. LocksApart'
  BY <1>2, <1>3 DEF LocksApart
<1> QED BY <1>4, <1>5

-----------------------------------------------------------------------------
(* Generations.                                                            *)

\* A generation names one state, and is used once.
Numbered ==
  /\ store.generation <= issued /\ (store.generation = 0 => store = Missing)
  /\ \A p \in Procs : /\ known[p].generation <= issued
                      /\ known[p].generation = store.generation => known[p] = store

\* There is a file only in a directory.
InDirectory == tmp # {} \/ store # Missing => directory = TRUE

LEMMA NumberedStep ==
  ASSUME TypeOK, AllProper, Numbered, InDirectory, NEW p \in Procs, Step(p) \/ Crash(p)
  PROVE  Numbered' /\ InDirectory' /\ issued <= issued'
<1>a. /\ issued \in Nat /\ store \in State /\ directory \in BOOLEAN
      /\ \A q \in Procs : known[q] \in State /\ pc[q] \in Labels
  BY DEF TypeOK
<1>b. \A q \in Procs : known[q].generation \in Nat /\ store.generation \in Nat
  BY <1>a DEF State
<1>c. Touches(p) /\ Move(p) /\ Proper(p)
  BY StepTouches, StepMoves DEF AllProper
<1>d. ASSUME NEW q \in Procs, q # p PROVE known'[q] = known[q]
  BY <1>d, OthersKeep
<1>e. known'[p] \in {known[p], store, Missing} \/ (pc[p] = "rename" /\ store' = NewState(p) /\ known'[p] = store')
  BY <1>c DEF Move, Over, Same
<1>f. known'[p] = store => store' = store \/ known[p] = store \/ known'[p] = Missing
  BY <1>c DEF Move, Over, Same
<1>g. NewState(p).generation = issued + 1 /\ Missing.generation = 0
  BY DEF NewState, Missing
<1>h. issued \in Nat /\ 0 <= issued /\ issued <= issued
  BY <1>a
<1>1. CASE UNCHANGED <<store, issued>>
  <2>1. ASSUME NEW q \in Procs
        PROVE  known'[q].generation <= issued /\ (known'[q].generation = store.generation => known'[q] = store)
    <3>1. CASE known'[q] = known[q]
      BY <3>1 DEF Numbered
    <3>2. CASE known'[q] = store
      BY <3>2 DEF Numbered
    <3>3. CASE known'[q] = Missing
      BY <1>a, <1>g, <3>3 DEF Numbered
    <3>4. q = p /\ known'[p] = NewState(p) /\ store' = NewState(p) => known'[q] = store
      BY <1>1
    <3> QED BY <1>d, <1>e, <3>1, <3>2, <3>3, <3>4
  <2>2. tmp' # {} \/ store' # Missing => directory' = TRUE
    <3>1. ASSUME tmp' # {}, tmp = {}, store = Missing PROVE directory = TRUE /\ directory' = TRUE
      BY <1>a, <1>c, <3>1 DEF Touches
    <3>2. ASSUME tmp # {} \/ store # Missing PROVE directory' = TRUE
      BY <1>c, <3>2 DEF Touches, InDirectory
    <3> QED BY <1>1, <3>1, <3>2
  <2> QED BY <1>a, <1>1, <2>1, <2>2 DEF Numbered, InDirectory
<1>2. CASE pc[p] = "rename" /\ store' = NewState(p) /\ issued' = issued + 1
  <2>1. ASSUME NEW q \in Procs
        PROVE  known'[q].generation <= issued' /\ (known'[q].generation = store'.generation => known'[q] = store')
    <3>1. CASE known'[q] = known[q] \/ known'[q] = Missing
      BY <1>a, <1>b, <1>g, <1>2, <3>1 DEF Numbered
    <3>2. CASE known'[q] = store
      BY <1>a, <1>b, <1>g, <1>2, <3>2 DEF Numbered
    <3>3. CASE known'[q] = store'
      BY <1>a, <1>g, <1>2, <3>3
    <3> QED BY <1>d, <1>e, <3>1, <3>2, <3>3
  <2>2. directory' = TRUE
    BY <1>c, <1>2 DEF Touches, InDirectory, Proper
  <2>3. store'.generation = issued + 1 /\ issued + 1 # 0 /\ issued + 1 <= issued + 1 /\ issued <= issued + 1
    BY <1>a, <1>g, <1>2
  <2> QED BY <1>2, <2>1, <2>2, <2>3 DEF Numbered, InDirectory
<1>3. CASE pc[p] = "unlink state" /\ store' = Missing /\ issued' = issued
  <2>1. ASSUME NEW q \in Procs
        PROVE  known'[q].generation <= issued' /\ (known'[q].generation = store'.generation => known'[q] = store')
    <3>1. known'[q] \in {known[q], Missing}
      BY <1>c, <1>d, <1>3 DEF Move, Over, Same
    <3>2. known[q].generation = 0 => known[q] = Missing
      BY DEF AllProper, Proper
    <3>3. CASE known'[q] = Missing
      BY <1>g, <1>h, <1>3, <3>3, Zenon
    <3>4. CASE known'[q] = known[q]
      <4>1. known[q].generation <= issued
        BY DEF Numbered
      <4> QED BY <1>g, <1>3, <3>2, <3>4, <4>1
    <3> QED BY <3>1, <3>3, <3>4
  <2>2. tmp' # {} => directory' = TRUE
    BY <1>c, <1>3 DEF Touches, InDirectory
  <2>3. store'.generation = 0 /\ 0 <= issued' /\ issued <= issued'
    BY <1>g, <1>h, <1>3, Zenon
  <2> QED BY <1>3, <2>1, <2>2, <2>3 DEF Numbered, InDirectory
<1> QED BY <1>c, <1>1, <1>2, <1>3 DEF Touches

-----------------------------------------------------------------------------
(* The removal of the source, and the swaps of others.                     *)

\* It is about to compare, and the comparison will succeed.
Swapping(p) ==
  /\ task[p] \in Writes /\ pc[p] \in {"try lock", "locked"}
  /\ known[p].generation = store.generation

\* Whoever unlinks the state, and then the lock, has the lock under its name,
\* and nobody is swapping.  Whoever is to swap a renewable state has it there
\* too; and from a state that is not, nobody gets tokens to store.
RemovedApart ==
  /\ \A c \in Procs : pc[c] \in {"unlink state", "unlink lock"} => lockFd[c] = lockFile
  /\ \A c \in Procs : pc[c] = "unlink state" => tmp = {} /\ store = source[c] /\ Renewable(store)
  /\ \A q \in Procs : Swapping(q) /\ Renewable(store) => lockFd[q] = lockFile
  /\ \A c \in Procs : pc[c] = "unlink lock" =>
       /\ ~Renewable(store)
       /\ \A q \in Procs : ~(pc[q] = "rename" /\ task[q] = "tokens")
       /\ \A q \in Procs : Swapping(q) /\ store.generation # 0 => lockFd[q] = lockFile

CleanupInv == TypeOK /\ AllProper /\ LeasesApart /\ LocksApart /\ Numbered /\ InDirectory /\ RemovedApart

\* Who removes has the only lock there is under the name.
LEMMA RemoverAlone ==
  ASSUME AllProper, LocksApart, RemovedApart, NEW c \in Procs, pc[c] \in {"unlink state", "unlink lock"}
  PROVE  /\ lockFile # 0
         /\ \A q \in Procs : pc[q] \in Held /\ lockFd[q] = lockFile => q = c
<1>1. lockFd[c] = lockFile /\ lockFd[c] # 0
  BY DEF RemovedApart, AllProper, Proper, Held, Removal
<1>2. HasLock(c)
  BY <1>1 DEF HasLock
<1>3. ASSUME NEW q \in Procs, pc[q] \in Held, lockFd[q] = lockFile PROVE q = c
  <2>1. HasLock(q) /\ lockFd[q] = lockFd[c]
    BY <1>1, <1>3 DEF HasLock, Held, Removal
  <2> QED BY <1>2, <2>1 DEF LocksApart
<1> QED BY <1>1, <1>3

\* Where a process swaps, and where its lock file is then.
LEMMA SwapMoves ==
  ASSUME TypeOK, NEW p \in Procs, Proper(p), Step(p) \/ Crash(p),
         task'[p] \in Writes, pc'[p] \in {"try lock", "locked"}
  PROVE  \/ pc[p] = "open lock" /\ lockFd'[p] = lockFile'
         \/ /\ pc[p] = "try lock" /\ task[p] \in Writes /\ lockFd'[p] = lockFd[p] /\ known'[p] = known[p]
            /\ lockFile' = lockFile
<1>1. Move(p) /\ Touches(p)
  BY StepMoves, StepTouches
<1>2. ~Over(p)
  BY DEF Over, Writes
<1>3. \/ pc[p] = "open lock" /\ lockFd'[p] = lockFile'
      \/ pc[p] = "try lock" /\ task[p] \in Writes /\ lockFd'[p] = lockFd[p] /\ known'[p] = known[p]
  BY <1>1, <1>2 DEF Move, Same, Writes, Proper, Removal
<1> QED BY <1>1, <1>3 DEF Touches

LEMMA RemovedApartStep ==
  ASSUME CleanupInv, NEW p \in Procs, Step(p) \/ Crash(p)
  PROVE  RemovedApart'
<1> USE DEF CleanupInv
<1>a. /\ issued \in Nat /\ store \in State /\ pc \in [Procs -> Labels]
      /\ \A q \in Procs : known[q] \in State /\ Proper(q)
  BY DEF TypeOK, AllProper
<1>b. ASSUME NEW q \in Procs, q # p
      PROVE  /\ pc'[q] = pc[q] /\ task'[q] = task[q] /\ known'[q] = known[q]
             /\ lockFd'[q] = lockFd[q] /\ source'[q] = source[q]
  BY <1>b, OthersKeep
<1>c. Touches(p) /\ Move(p)
  BY StepTouches, StepMoves
<1>d. \A q \in Procs : known[q].generation # issued + 1
  <2> TAKE q \in Procs
  <2>1. known[q].generation \in Nat /\ known[q].generation <= issued
    BY <1>a DEF State, Numbered
  <2> QED BY <1>a, <2>1
<1>e. ASSUME pc[p] = "rename" PROVE p \in tmp /\ pc'[p] \notin {"try lock", "locked", "rename"} \cup Removal
  BY <1>a, <1>c, <1>e DEF Proper, Move, Over, Ended, Removal
<1>f. ASSUME NEW c \in Procs, pc[c] \in {"unlink state", "unlink lock"}
      PROVE  lockFile # 0 /\ \A q \in Procs : pc[q] \in Held /\ lockFd[q] = lockFile => q = c
  BY <1>f, RemoverAlone
<1>g. Missing.generation = 0 /\ ~Renewable(Missing)
  BY DEF Missing, Renewable
<1>h. ASSUME NEW c \in Procs, c # p, pc[c] \in {"unlink state", "unlink lock"} PROVE lockFile' = lockFile
  <2>1. lockFile # 0 /\ (pc[p] = "unlink lock" => p = c)
    BY <1>f, <1>h DEF RemovedApart, Held, Removal
  <2> QED BY <1>c, <1>h, <2>1 DEF Touches
\* What a comparison that succeeds implies.
<1>i. ASSUME pc'[p] = "rename"
      PROVE  /\ pc[p] = "locked" /\ Swapping(p) /\ task'[p] = task[p] /\ UNCHANGED store
             /\ task[p] = "tokens" => store.generation # 0
  <2>1. pc[p] = "locked" /\ task[p] \in Writes /\ Current(p) /\ task'[p] = task[p]
    BY <1>c, <1>i DEF Move, Over, Ended
  <2>2. UNCHANGED store
    BY <1>c, <2>1 DEF Touches
  <2>3. task[p] = "tokens" => known[p].generation # 0
    <3>1. Missing.client = FALSE
      BY DEF Missing
    <3> QED BY <1>a, <3>1 DEF Proper
  <2> QED BY <2>1, <2>2, <2>3 DEF Swapping, Current
<1>1. ASSUME NEW c \in Procs, pc'[c] \in {"unlink state", "unlink lock"} PROVE lockFd'[c] = lockFile'
  <2>1. CASE c # p
    BY <1>b, <1>h, <1>1, <2>1 DEF RemovedApart
  <2>2. CASE c = p
    <3>1. /\ lockFd'[p] = lockFd[p] /\ pc[p] \in {"locked", "unlink state"}
          /\ pc[p] = "locked" => Unchanged(p)
      BY <1>c, <1>1, <2>2 DEF Move, Over, Same, Ended
    <3>2. lockFile' = lockFile
      BY <1>c, <3>1 DEF Touches
    <3> QED BY <2>2, <3>1, <3>2 DEF RemovedApart, Unchanged
  <2> QED BY <2>1, <2>2
<1>2. ASSUME NEW c \in Procs, pc'[c] = "unlink state"
      PROVE  tmp' = {} /\ store' = source'[c] /\ Renewable(store')
  <2>1. CASE c # p
    <3>1. pc[c] = "unlink state" /\ tmp = {} /\ store = source[c] /\ Renewable(store)
      BY <1>b, <1>2, <2>1 DEF RemovedApart
    <3>2. pc[p] # "rename" /\ pc[p] # "unlink state"
      BY <1>e, <1>f, <2>1, <3>1 DEF RemovedApart, Held, Removal
    <3>3. ~(pc[p] = "locked" /\ task[p] \in Writes /\ Current(p))
      <4>1. Swapping(p) /\ pc[p] = "locked" => lockFd[p] = lockFile
        BY <3>1 DEF RemovedApart
      <4> QED BY <1>f, <2>1, <3>1, <4>1 DEF Swapping, Current, Held
    <3>4. tmp' = tmp /\ store' = store
      BY <1>c, <3>2, <3>3 DEF Touches
    <3> QED BY <1>b, <2>1, <3>1, <3>4
  <2>2. CASE c = p
    <3>1. pc[p] = "locked" /\ task[p] = "cleanup" /\ Unchanged(p) /\ source'[p] = source[p]
      BY <1>c, <1>2, <2>2 DEF Move, Over, Same, Ended
    <3>2. tmp' = tmp /\ store' = store
      BY <1>c, <3>1 DEF Touches, Writes
    <3> QED BY <2>2, <3>1, <3>2 DEF Unchanged
  <2> QED BY <2>1, <2>2
\* Only a state that stays is swapped, by a lock file that stays.
<1>3. ASSUME NEW q \in Procs, Swapping(q)', store'.generation # 0
      PROVE  /\ UNCHANGED store
             /\ \/ lockFd'[q] = lockFile'
                \/ /\ Swapping(q) /\ lockFd'[q] = lockFd[q] /\ lockFd[q] # 0
                   /\ q = p => lockFile' = lockFile
  <2>1. UNCHANGED store
    <3>1. ~(pc[p] = "rename" /\ store' = NewState(p))
      <4>1. NewState(p).generation = issued + 1
        BY DEF NewState
      <4>2. pc[p] = "rename" => q # p
        BY <1>e, <1>3 DEF Swapping
      <4>3. q # p => store'.generation # issued + 1
        BY <1>b, <1>d, <1>3 DEF Swapping
      <4> QED BY <4>1, <4>2, <4>3
    <3> QED BY <1>c, <1>g, <1>3, <3>1 DEF Touches
  <2>2. CASE q # p
    <3>1. Swapping(q) /\ lockFd'[q] = lockFd[q]
      BY <1>b, <1>3, <2>1, <2>2 DEF Swapping
    <3> QED BY <1>a, <2>1, <2>2, <3>1 DEF Swapping, Proper, Held
  <2>3. CASE q = p
    <3>1. \/ lockFd'[p] = lockFile'
          \/ Swapping(p) /\ lockFd'[p] = lockFd[p] /\ lockFile' = lockFile
      BY <1>a, <1>3, <2>1, <2>3, SwapMoves DEF Swapping
    <3> QED BY <1>a, <2>1, <2>3, <3>1 DEF Swapping, Proper, Held
  <2> QED BY <2>2, <2>3
<1>4. ASSUME NEW q \in Procs, Swapping(q)', Renewable(store') PROVE lockFd'[q] = lockFile'
  <2>1. UNCHANGED store
    BY <1>3, <1>4 DEF Renewable
  <2>2. CASE lockFd'[q] = lockFile'
    BY <2>2
  <2>3. CASE lockFd'[q] # lockFile'
    <3>1. Swapping(q) /\ lockFd'[q] = lockFd[q] /\ lockFd[q] # 0
      BY <1>3, <1>4, <2>3 DEF Renewable
    <3>2. lockFd[q] = lockFile
      BY <1>4, <2>1, <3>1 DEF RemovedApart
    <3>3. pc[p] # "unlink lock"
      BY <1>4, <2>1 DEF RemovedApart
    <3> QED BY <1>c, <3>1, <3>2, <3>3 DEF Touches
  <2> QED BY <2>2, <2>3
<1>5. ASSUME NEW c \in Procs, pc'[c] = "unlink lock"
      PROVE  /\ ~Renewable(store')
             /\ \A q \in Procs : ~(pc'[q] = "rename" /\ task'[q] = "tokens")
             /\ \A q \in Procs : Swapping(q)' /\ store'.generation # 0 => lockFd'[q] = lockFile'
  <2>1. CASE c = p
    <3>1. pc[p] = "unlink state" /\ store' = Missing
      BY <1>c, <1>5, <2>1 DEF Move, Over, Same, Ended
    <3>2. ASSUME NEW q \in Procs, pc'[q] = "rename" PROVE FALSE
      <4>1. q # p /\ pc[q] = "rename"
        BY <1>b, <1>5, <2>1, <3>2
      <4> QED BY <1>a, <3>1, <4>1 DEF RemovedApart, Proper
    <3> QED BY <1>g, <3>1, <3>2
  <2>2. CASE c # p
    <3>1. pc[c] = "unlink lock" /\ lockFile' = lockFile
      BY <1>b, <1>h, <1>5, <2>2
    <3>2. /\ ~Renewable(store) /\ \A q \in Procs : ~(pc[q] = "rename" /\ task[q] = "tokens")
          /\ \A q \in Procs : Swapping(q) /\ store.generation # 0 => lockFd[q] = lockFile
      BY <3>1 DEF RemovedApart
    <3>3. ~Renewable(store')
      <4>1. CASE pc[p] = "rename" /\ store' = NewState(p)
        BY <3>2, <4>1 DEF NewState, Renewable
      <4> QED BY <1>c, <1>g, <3>2, <4>1 DEF Touches
    <3>4. ASSUME NEW q \in Procs, pc'[q] = "rename", task'[q] = "tokens" PROVE FALSE
      <4>1. q = p
        BY <1>b, <3>2, <3>4
      <4>2. pc[p] = "locked" /\ lockFd[p] = lockFile
        BY <1>i, <3>2, <3>4, <4>1
      <4> QED BY <1>f, <2>2, <3>1, <4>2 DEF Held
    <3>5. ASSUME NEW q \in Procs, Swapping(q)', store'.generation # 0 PROVE lockFd'[q] = lockFile'
      BY <1>3, <3>1, <3>2, <3>5
    <3> QED BY <3>3, <3>4, <3>5
  <2> QED BY <2>1, <2>2
<1> QED BY <1>1, <1>2, <1>4, <1>5 DEF RemovedApart

-----------------------------------------------------------------------------
LEMMA CleanupInit == Init => CleanupInv
<1> SUFFICES ASSUME Init PROVE CleanupInv
  OBVIOUS
<1>1. TypeOK
  BY TypeInit
<1>2. AllProper
  BY DEF Init, AllProper, Proper, Held, Removal, Writes
<1>3. LeasesApart /\ LocksApart
  BY DEF Init, LeasesApart, LocksApart, HasLease, HasLock
<1>4. Numbered
  <2>1. \A p \in Procs : known[p] = Missing
    BY DEF Init
  <2>2. (store = Missing /\ issued = 0) \/ (store.generation = 1 /\ issued = 1)
    BY DEF Init
  <2>3. Missing.generation = 0 /\ 0 <= 0 /\ 0 <= 1 /\ 1 <= 1 /\ 0 # 1
    BY DEF Missing
  <2>4. CASE store = Missing /\ issued = 0
    BY <2>1, <2>3, <2>4 DEF Numbered
  <2>5. CASE store.generation = 1 /\ issued = 1
    BY <2>1, <2>3, <2>5 DEF Numbered
  <2> QED BY <2>2, <2>4, <2>5
<1>5. InDirectory
  BY DEF Init, InDirectory
<1>6. RemovedApart
  BY DEF Init, RemovedApart, Swapping
<1> QED BY <1>1, <1>2, <1>3, <1>4, <1>5, <1>6 DEF CleanupInv

LEMMA CleanupStep == ASSUME CleanupInv, [Next]_vars PROVE CleanupInv'
<1>1. TypeOK'
  BY TypeStep, ProperClients DEF CleanupInv
<1>2. CASE UNCHANGED vars
  <2>1. AllProper'
    BY <1>2 DEF CleanupInv, AllProper, Proper, vars, files, process
  <2>2. LeasesApart' /\ LocksApart'
    BY <1>2 DEF CleanupInv, LeasesApart, LocksApart, HasLease, HasLock, vars, files, process
  <2>3. Numbered' /\ InDirectory'
    BY <1>2 DEF CleanupInv, Numbered, InDirectory, vars, files, process
  <2>4. RemovedApart'
    BY <1>2 DEF CleanupInv, RemovedApart, Swapping, vars, files, process
  <2> QED BY <1>1, <2>1, <2>2, <2>3, <2>4 DEF CleanupInv
<1>3. ASSUME NEW p \in Procs, Step(p) \/ Crash(p) PROVE CleanupInv'
  <2>1. ASSUME NEW q \in Procs PROVE Proper(q)'
    <3>1. CASE q = p
      BY <1>3, <3>1, ProperStep DEF CleanupInv, AllProper, Numbered
    <3>2. CASE q # p
      <4>1. /\ pc'[q] = pc[q] /\ task'[q] = task[q] /\ cmd'[q] = cmd[q]
            /\ leaseFd'[q] = leaseFd[q] /\ known'[q] = known[q] /\ got'[q] = got[q]
            /\ lockFd'[q] = lockFd[q] /\ source'[q] = source[q] /\ copy'[q] = copy[q]
        BY <1>3, <3>2, OthersKeep DEF CleanupInv
      <4>2. q \in tmp => q \in tmp'
        BY <1>3, <3>2, StepTouches DEF CleanupInv, Touches
      <4>3. Proper(q)
        BY DEF CleanupInv, AllProper
      <4> QED BY <4>1, <4>2, <4>3 DEF Proper
    <3> QED BY <3>1, <3>2
  <2>2. LeasesApart' /\ LocksApart'
    BY <1>3, LocksStep DEF CleanupInv
  <2>3. Numbered' /\ InDirectory'
    BY <1>3, NumberedStep DEF CleanupInv
  <2>4. RemovedApart'
    BY <1>3, RemovedApartStep
  <2> QED BY <1>1, <2>1, <2>2, <2>3, <2>4 DEF CleanupInv, AllProper
<1> QED BY <1>2, <1>3 DEF Next, AllEnded

\* The lock and the numbers keep removals and swaps apart, however many
\* handoffs clean up and whatever locks they leave to nobody.
THEOREM CleanupInvariant == Spec => []CleanupInv
<1>1. Init => CleanupInv
  BY CleanupInit
<1>2. CleanupInv /\ [Next]_vars => CleanupInv'
  BY CleanupStep
<1> QED BY <1>1, <1>2, PTL DEF Spec

\* The source is removed only when a destination holds exactly what it held:
\* nobody swaps the state between its last comparison and its removal.
THEOREM RemovalIsOfACopy == Spec => RemovedOnlyIfCopied
<1>1. ASSUME CleanupInv, [Next]_vars, store.generation # 0, store'.generation = 0
      PROVE  \E p \in Procs : copy[p] = store
  <2>1. store' # store
    BY <1>1
  <2>2. PICK p \in Procs : Step(p) \/ Crash(p)
    BY <1>1, <2>1 DEF Next, AllEnded, vars, files
  <2>3. NewState(p).generation # 0
    <3>1. issued \in Nat
      BY <1>1 DEF CleanupInv, TypeOK
    <3> QED BY <3>1 DEF NewState
  <2>4. pc[p] = "unlink state"
    BY <1>1, <2>1, <2>2, <2>3, StepTouches DEF CleanupInv, Touches
  <2>5. store = source[p] /\ copy[p] = source[p]
    BY <1>1, <2>4 DEF CleanupInv, RemovedApart, AllProper, Proper, Removal
  <2> QED BY <2>5
<1>2. CleanupInv /\ [Next]_vars =>
        [store.generation # 0 /\ store'.generation = 0 => \E p \in Procs : copy[p] = store]_vars
  BY <1>1
<1> QED BY <1>2, CleanupInvariant, PTL DEF Spec, RemovedOnlyIfCopied

-----------------------------------------------------------------------------
(* Tokens.                                                                 *)

\* What a process has received is live, and nobody else's; what it knows under
\* the stored token is the stored state.
TokensOwned ==
  /\ store.token <= minted
  /\ \A p \in Procs :
       /\ known[p].token <= minted /\ got[p] <= minted
       /\ known[p].token = store.token /\ store.token # 0 => known[p] = store
       /\ got[p] # 0 => /\ got[p] \in live /\ got[p] # store.token
                        /\ \A q \in Procs : known[q].token # got[p] /\ (q # p => got[q] # got[p])

\* It has given up the token it knows, and goes to store what replaces it.
Replacing(p) == HasLease(p) /\ (got[p] # 0 \/ task[p] = "erase")

\* What a step does to tokens.
Trades(p) ==
  /\ mishaps \subseteq mishaps'
  /\ \/ UNCHANGED <<live, minted>> /\ got'[p] \in {got[p], 0}
     \/ /\ pc[p] \in {"renew", "authorize"} /\ minted' = minted + 1 /\ got'[p] \in {minted + 1, 0}
        /\ live' = live \cup {minted + 1} \/ live' = (live \ {known[p].token}) \cup {minted + 1}
     \/ /\ pc[p] = "revoke" /\ minted' = minted /\ got'[p] \in {got[p], 0}
        /\ live' = live \ {known[p].token}
  /\ known[p].token \in live /\ known[p].token \notin live' =>
       (Replacing(p)' /\ known'[p] = known[p]) \/ known[p].token \in mishaps'
  /\ Replacing(p) =>
       \/ Replacing(p)' /\ known'[p] = known[p]
       \/ known[p].token \in mishaps'
       \/ pc[p] = "rename" /\ store' = NewState(p)
       \/ task[p] \in Writes /\ ~(Current(p) /\ directory)

LEMMA StepTrades ==
  ASSUME TypeOK, NEW p \in Procs, Proper(p), Step(p) \/ Crash(p)
  PROVE  Trades(p)
<1>a. /\ pc \in [Procs -> Labels] /\ task \in [Procs -> Tasks] /\ got \in [Procs -> Nat]
      /\ leaseFd \in [Procs -> Nat] /\ known \in [Procs -> State] /\ minted \in Nat /\ minted + 1 # 0
  BY FunctionTypes, NextInode DEF TypeOK
<1>b. ASSUME NEW how \in Ended, Ends(p, how) PROVE got'[p] = 0
  BY <1>a, <1>b DEF Ends, Forget
<1>c. Replacing(p) => task[p] \in Writes /\ pc[p] \in Sectioned
  BY DEF Proper, Replacing, Writes
<1>d. Replacing(p) => known[p].token \in AtRisk(p)
  BY DEF Replacing, AtRisk
<1>e. ASSUME UNCHANGED remote, CallFails(p) \/ (\E how \in Ended : Ends(p, how) /\ mishaps' = mishaps \cup AtRisk(p))
      PROVE  Trades(p)
  BY <1>b, <1>d, <1>e DEF CallFails, Ended, remote, Trades
<1>f. ASSUME UNCHANGED remote, ~Replacing(p), \E how \in Ended : Ends(p, how), UNCHANGED mishaps
      PROVE  Trades(p)
  BY <1>b, <1>f DEF remote, Trades
\* Nothing is traded, and nothing forgotten.
<1>g. ASSUME UNCHANGED <<live, minted, mishaps>>, got'[p] = got[p], known'[p] = known[p],
             task[p] \in Writes => task'[p] = task[p] /\ leaseFd'[p] = leaseFd[p] /\ pc'[p] # "await lease"
      PROVE  Trades(p)
  BY <1>c, <1>g DEF Replacing, HasLease, Trades, Writes
<1>1. CASE Crash(p) \/ OpenFails(p)
  BY <1>1, <1>e DEF Crash, OpenFails, Ended
<1>2. CASE LeaseTimesOut(p) \/ RequestFails(p) \/ TransferFails(p) \/ RemoveDirectory(p)
  <2>1. pc[p] \notin Sectioned
    BY <1>2 DEF LeaseTimesOut, RequestFails, TransferFails, RemoveDirectory, Sectioned
  <2>2. UNCHANGED <<remote, mishaps>> /\ \E how \in Ended : Ends(p, how)
    BY <1>2 DEF LeaseTimesOut, RequestFails, TransferFails, RemoveDirectory, Fails, Ended
  <2> QED BY <1>c, <1>f, <2>1, <2>2
<1>3. CASE Start(p)
  <2>1. UNCHANGED <<remote, got, known, mishaps>> /\ pc[p] = "idle"
    BY <1>3 DEF Start
  <2>2. task[p] \notin Writes
    BY <2>1 DEF Proper, Sectioned
  <2> QED BY <1>g, <2>1, <2>2 DEF remote
<1>4. CASE OpenLease(p) \/ TakeLease(p) \/ Connect(p) \/ Register(p)
  <2>1. UNCHANGED <<remote, got, known, mishaps>> /\ pc[p] \in {"open lease", "await lease", "connect", "register"}
    BY <1>4 DEF OpenLease, TakeLease, Connect, Register
  <2>2. task[p] \notin Writes
    BY <2>1 DEF Proper, Sectioned
  <2> QED BY <1>g, <2>1, <2>2 DEF remote
<1>5. CASE OpenLock(p)
  <2>1. UNCHANGED <<remote, got, known, mishaps, task, leaseFd>> /\ pc'[p] = "try lock"
    BY <1>5, <1>a DEF OpenLock, Goto
  <2> QED BY <1>g, <2>1 DEF remote
<1>6. CASE TryLock(p)
  <2>1. CASE CallFails(p)
    BY <1>6, <2>1, <1>e DEF TryLock
  <2>2. CASE ~CallFails(p)
    <3>1. UNCHANGED <<remote, got, known, mishaps, task, leaseFd>> /\ pc'[p] = "locked"
      BY <1>6, <2>2, <1>a DEF TryLock, Goto
    <3> QED BY <1>g, <3>1 DEF remote
  <2> QED BY <2>1, <2>2
<1>7. CASE Load(p)
  <2>1. UNCHANGED remote /\ task[p] = "load" /\ UNCHANGED mishaps /\ ~Replacing(p)
    BY <1>7, <1>c DEF Load, Fails, Writes
  <2>2. CASE \E how \in Ended : Ends(p, how)
    BY <1>f, <2>1, <2>2
  <2>3. CASE ~\E how \in Ended : Ends(p, how)
    <3>1. got' = got
      BY <1>7, <2>3 DEF Load, Fails, Ended
    <3> QED BY <2>1, <3>1 DEF remote, Trades
  <2> QED BY <2>2, <2>3
<1>8. CASE Compare(p)
  <2>1. UNCHANGED <<remote, mishaps>> /\ task[p] \in Writes
    BY <1>8 DEF Compare, Fails
  <2>2. CASE Current(p) /\ directory
    <3>1. UNCHANGED <<got, known, task, leaseFd>> /\ pc'[p] = "rename"
      BY <1>8, <1>a, <2>2 DEF Compare, Goto
    <3> QED BY <1>g, <2>1, <3>1 DEF remote
  <2>3. CASE ~(Current(p) /\ directory)
    <3>1. Ends(p, "failed")
      BY <1>8, <2>3 DEF Compare, Fails
    <3> QED BY <1>b, <2>1, <2>3, <3>1 DEF remote, Trades, Ended
  <2> QED BY <2>2, <2>3
<1>9. CASE Rename(p)
  <2>1. UNCHANGED <<remote, mishaps>> /\ pc[p] = "rename" /\ store' = NewState(p) /\ got'[p] = 0
    BY <1>9, <1>a, <1>b DEF Rename, Renamed, Ended
  <2> QED BY <2>1 DEF remote, Trades
<1>10. CASE RenameFails(p)
  <2>1. CASE CallFails(p)
    BY <1>10, <1>e, <2>1 DEF RenameFails
  <2>2. CASE Renamed(p) /\ Fails(p)
    <3>1. UNCHANGED <<remote, mishaps>> /\ pc[p] = "rename" /\ store' = NewState(p) /\ got'[p] = 0
      BY <1>10, <1>b, <2>2 DEF RenameFails, Renamed, Fails, Ended
    <3> QED BY <3>1 DEF remote, Trades
  <2> QED BY <1>10, <2>1, <2>2 DEF RenameFails
<1>11. CASE Renew(p) \/ Authorize(p)
  <2>1. /\ pc[p] \in {"renew", "authorize"} /\ minted' = minted + 1 /\ got'[p] = minted + 1
        /\ live' = live \cup {minted + 1} \/ live' = (live \ {known[p].token}) \cup {minted + 1}
        /\ UNCHANGED <<mishaps, known, leaseFd>> /\ pc'[p] = "open lock"
    BY <1>11, <1>a DEF Renew, Authorize, Section, Goto
  <2>2. ~(pc[p] \in Sectioned) /\ leaseFd[p] # 0
    BY <2>1 DEF Proper, Sectioned, Ended
  <2>3. Replacing(p)' /\ ~Replacing(p)
    BY <1>a, <1>c, <2>1, <2>2 DEF Replacing, HasLease
  <2> QED BY <2>1, <2>3 DEF Trades
<1>12. CASE RenewalLost(p) \/ AuthorizationLost(p)
  <2>1. /\ pc[p] \in {"renew", "authorize"} /\ minted' = minted + 1 /\ got'[p] = 0
        /\ live' = live \cup {minted + 1}
           \/ (live' = (live \ {known[p].token}) \cup {minted + 1} /\ known[p].token \in mishaps')
        /\ mishaps \subseteq mishaps'
    BY <1>12, <1>b DEF RenewalLost, AuthorizationLost, Ended
  <2>2. ~Replacing(p)
    BY <1>c, <2>1 DEF Sectioned
  <2> QED BY <2>1, <2>2 DEF Trades
<1>13. CASE RenewalRefused(p) \/ Work(p) \/ ReadSource(p) \/ Transfer(p) \/ Validate(p)
  <2>1. UNCHANGED <<remote, mishaps>> /\ pc[p] \notin Sectioned
    BY <1>13 DEF RenewalRefused, Work, ReadSource, Transfer, Validate, Fails, Sectioned
  <2>2. ~Replacing(p)
    BY <1>c, <2>1
  <2>3. CASE \E how \in Ended : Ends(p, how)
    BY <1>f, <2>1, <2>2, <2>3
  <2>4. CASE ~\E how \in Ended : Ends(p, how)
    <3>1. got' = got
      BY <1>13, <2>4 DEF RenewalRefused, Work, ReadSource, Transfer, Validate, Fails, Ended
    <3> QED BY <2>1, <2>2, <3>1 DEF remote, Trades
  <2> QED BY <2>3, <2>4
<1>14. CASE Revoke(p)
  <2>1. /\ pc[p] = "revoke" /\ minted' = minted /\ live' = live \ {known[p].token}
        /\ \/ Section(p, "erase") /\ UNCHANGED <<leaseFd, known, got, mishaps>>
           \/ Ends(p, "failed") /\ mishaps' = mishaps \cup {known[p].token}
    BY <1>14 DEF Revoke
  <2>2. ~Replacing(p) /\ leaseFd[p] # 0
    BY <1>c, <2>1 DEF Sectioned, Proper, Ended
  <2>3. CASE Section(p, "erase") /\ UNCHANGED <<leaseFd, known, got, mishaps>>
    <3>1. Replacing(p)'
      BY <1>a, <2>2, <2>3 DEF Section, Goto, Replacing, HasLease
    <3> QED BY <2>1, <2>2, <2>3, <3>1 DEF Trades
  <2>4. CASE Ends(p, "failed") /\ mishaps' = mishaps \cup {known[p].token}
    BY <1>b, <2>1, <2>2, <2>4 DEF Trades, Ended
  <2> QED BY <2>1, <2>3, <2>4
<1>15. CASE CheckSource(p)
  <2>1. UNCHANGED <<remote, mishaps>> /\ task[p] = "cleanup" /\ ~Replacing(p)
    BY <1>15, <1>c DEF CheckSource, Fails, Writes
  <2>2. CASE Fails(p)
    BY <1>f, <2>1, <2>2 DEF Fails, Ended
  <2>3. CASE ~Fails(p)
    BY <1>15, <2>1, <2>3 DEF CheckSource, remote, Trades
  <2> QED BY <2>2, <2>3
<1>16. CASE UnlinkState(p) \/ UnlinkLock(p) \/ UnlinkLease(p)
  <2>1. UNCHANGED <<remote, mishaps, got, known>> /\ pc[p] \notin Sectioned
    BY <1>16 DEF UnlinkState, UnlinkLock, UnlinkLease, Sectioned
  <2> QED BY <1>c, <2>1 DEF remote, Trades
<1> QED
  BY <1>1, <1>2, <1>3, <1>4, <1>5, <1>6, <1>7, <1>8, <1>9, <1>10, <1>11, <1>12, <1>13, <1>14, <1>15,
     <1>16 DEF Step

\* What a process knows afterwards.
LEMMA Learns ==
  ASSUME TypeOK, NEW p \in Procs, Step(p) \/ Crash(p)
  PROVE  /\ \/ known'[p] \in {known[p], Missing}
            \/ known'[p] = store /\ UNCHANGED store
            \/ pc[p] = "rename" /\ store' = NewState(p) /\ known'[p] = store'
         /\ UNCHANGED store
            \/ (pc[p] = "rename" /\ store' = NewState(p) /\ got'[p] = 0
                /\ (known'[p] = Missing \/ known'[p] = store'))
            \/ (pc[p] = "unlink state" /\ store' = Missing /\ got'[p] = got[p] /\ known'[p] = known[p])
<1>1. Move(p) /\ Touches(p)
  BY StepMoves, StepTouches
<1>2. \/ known'[p] \in {known[p], Missing}
      \/ known'[p] = store /\ UNCHANGED store
      \/ pc[p] = "rename" /\ store' = NewState(p) /\ known'[p] = store'
  BY <1>1 DEF Move, Over, Same
<1>3. CASE UNCHANGED store
  BY <1>2, <1>3
<1>4. CASE pc[p] = "rename" /\ pc'[p] # "rename" /\ store' = NewState(p)
  <2>1. got'[p] = 0 /\ (known'[p] = Missing \/ known'[p] = store')
    BY <1>1, <1>4 DEF Move, Over
  <2> QED BY <1>2, <1>4, <2>1
<1>5. CASE pc[p] = "unlink state" /\ pc'[p] = "unlink lock" /\ store' = Missing
  <2>1. got'[p] = got[p] /\ known'[p] = known[p]
    BY <1>1, <1>5 DEF Move, Over, Same, Ended
  <2> QED BY <1>2, <1>5, <2>1
<1> QED BY <1>1, <1>3, <1>4, <1>5 DEF Touches

LEMMA TokensStep ==
  ASSUME CleanupInv, TokensOwned, NEW p \in Procs, Step(p) \/ Crash(p)
  PROVE  TokensOwned'
<1>a. /\ minted \in Nat /\ store \in State /\ Proper(p) /\ TypeOK
      /\ \A q \in Procs : known[q] \in State /\ got[q] \in Nat
  BY DEF CleanupInv, TypeOK, AllProper
<1>b. /\ store.token \in Nat /\ Missing.token = 0
      /\ \A q \in Procs : known[q].token \in Nat
  BY <1>a DEF State, Missing
<1>c. ASSUME NEW q \in Procs, q # p PROVE known'[q] = known[q] /\ got'[q] = got[q]
  BY <1>a, <1>c, OthersKeep
<1>d. Trades(p)
  BY <1>a, StepTrades
<1>e. /\ minted \in Nat /\ 0 <= minted /\ minted <= minted + 1 /\ minted + 1 <= minted + 1 /\ minted + 1 # 0
      /\ \A n \in Nat : n <= minted => n <= minted + 1 /\ n # minted + 1
  BY <1>a
<1>f. /\ store.token <= minted
      /\ \A q \in Procs : /\ known[q].token <= minted /\ got[q] <= minted
                          /\ known[q].token = store.token /\ store.token # 0 => known[q] = store
  BY DEF TokensOwned
<1>g. ASSUME NEW q \in Procs, got[q] # 0
      PROVE  /\ got[q] \in live /\ got[q] # store.token
             /\ \A r \in Procs : known[r].token # got[q] /\ (r # q => got[r] # got[q])
  BY <1>g DEF TokensOwned
<1>h. \/ known'[p] \in {known[p], Missing}
      \/ known'[p] = store /\ UNCHANGED store
      \/ pc[p] = "rename" /\ store' = NewState(p) /\ known'[p] = store'
  BY <1>a, Learns
<1>i. minted' \in {minted, minted + 1}
  BY <1>d DEF Trades
<1>j. ASSUME NEW q \in Procs
      PROVE  \/ got'[q] \in {got[q], 0}
             \/ q = p /\ got'[q] = minted + 1 /\ minted' = minted + 1 /\ minted + 1 \in live'
  BY <1>c, <1>d DEF Trades
<1>k. ASSUME NEW q \in Procs, got[q] # 0 PROVE got[q] \in live'
  BY <1>d, <1>g, <1>k DEF Trades
<1>1. CASE UNCHANGED store
  <2>1. ASSUME NEW q \in Procs PROVE known'[q] \in {known[q], store, Missing}
    BY <1>c, <1>h, <1>1
  <2>2. ASSUME NEW q \in Procs
        PROVE  /\ known'[q].token \in Nat /\ known'[q].token <= minted
               /\ known'[q].token = store.token /\ store.token # 0 => known'[q] = store
    <3>1. CASE known'[q] = known[q]
      BY <1>b, <1>f, <3>1
    <3>2. CASE known'[q] = store
      BY <1>b, <1>f, <3>2
    <3>3. CASE known'[q] = Missing
      BY <1>b, <1>e, <3>3
    <3> QED BY <2>1, <3>1, <3>2, <3>3
  <2>3. ASSUME NEW q \in Procs PROVE known'[q].token <= minted' /\ got'[q] <= minted'
    <3>1. got'[q] \in {got[q], 0} => got'[q] \in Nat /\ got'[q] <= minted
      BY <1>a, <1>e, <1>f
    <3> QED BY <1>e, <1>i, <1>j, <2>2, <3>1
  <2>4. ASSUME NEW q \in Procs, got'[q] # 0
        PROVE  /\ got'[q] \in live' /\ got'[q] # store.token
               /\ \A r \in Procs : known'[r].token # got'[q] /\ (r # q => got'[r] # got'[q])
    <3>1. CASE got'[q] = got[q]
      <4>1. got[q] # 0 /\ got[q] \in Nat /\ got[q] <= minted
        BY <1>a, <1>f, <2>4, <3>1
      <4>2. ASSUME NEW r \in Procs PROVE known'[r].token # got[q]
        BY <1>b, <1>g, <2>1, <4>1
      <4>3. ASSUME NEW r \in Procs, r # q PROVE got'[r] # got[q]
        BY <1>e, <1>g, <1>j, <4>1, <4>3
      <4> QED BY <1>g, <1>k, <3>1, <4>1, <4>2, <4>3
    <3>2. CASE got'[q] # got[q]
      <4>1. q = p /\ got'[q] = minted + 1 /\ minted + 1 \in live'
        BY <1>j, <2>4, <3>2
      <4>2. ASSUME NEW r \in Procs, r # q PROVE got'[r] # minted + 1
        <5>1. got'[r] = got[r]
          BY <1>c, <4>1, <4>2
        <5> QED BY <1>a, <1>e, <1>f, <5>1
      <4> QED BY <1>b, <1>e, <1>f, <2>2, <4>1, <4>2
    <3> QED BY <3>1, <3>2
  <2>5. store.token <= minted'
    BY <1>b, <1>e, <1>f, <1>i
  <2> QED BY <1>1, <2>2, <2>3, <2>4, <2>5 DEF TokensOwned
<1>2. CASE \/ /\ pc[p] = "rename" /\ store' = NewState(p) /\ got'[p] = 0
              /\ known'[p] = Missing \/ known'[p] = store'
           \/ pc[p] = "unlink state" /\ store' = Missing /\ got'[p] = got[p] /\ known'[p] = known[p]
  <2>1. UNCHANGED <<live, minted>>
    BY <1>2, <1>d DEF Trades
  <2>2. got[p] # 0 => task[p] = "tokens" /\ pc[p] # "unlink state"
    BY <1>a DEF Proper, Removal
  <2>3. store'.token = 0 \/ (store'.token = got[p] /\ got[p] # 0 /\ got'[p] = 0)
    <3>1. NewState(p).token \in {got[p], 0}
      BY DEF NewState
    <3> QED BY <1>2, <1>b, <3>1
  <2>4. store'.token <= minted /\ store'.token \in Nat
    BY <1>a, <1>e, <1>f, <2>3
  <2>5. ASSUME NEW q \in Procs PROVE known'[q] \in {known[q], store', Missing}
    BY <1>2, <1>c
  <2>6. ASSUME NEW q \in Procs
        PROVE  /\ known'[q].token <= minted
               /\ known'[q].token = store'.token /\ store'.token # 0 => known'[q] = store'
    <3>1. CASE known'[q] = known[q]
      BY <1>f, <1>g, <2>3, <3>1
    <3>2. CASE known'[q] = store' \/ known'[q] = Missing
      BY <1>b, <1>e, <2>4, <3>2
    <3> QED BY <2>5, <3>1, <3>2
  <2>7. ASSUME NEW q \in Procs PROVE got'[q] \in {got[q], 0} /\ (got'[q] # 0 => q # p \/ store'.token = 0)
    BY <1>2, <1>c, <2>3
  <2>8. ASSUME NEW q \in Procs, got'[q] # 0
        PROVE  /\ got'[q] \in live' /\ got'[q] # store'.token
               /\ \A r \in Procs : known'[r].token # got'[q] /\ (r # q => got'[r] # got'[q])
    <3>1. got'[q] = got[q] /\ got[q] # 0
      BY <2>7, <2>8
    <3>2. got[q] # store'.token
      BY <1>g, <2>3, <2>7, <3>1
    <3>3. ASSUME NEW r \in Procs PROVE known'[r].token # got[q]
      BY <1>b, <1>g, <2>5, <3>1, <3>2
    <3>4. ASSUME NEW r \in Procs, r # q PROVE got'[r] # got[q]
      BY <1>g, <2>7, <3>1, <3>4
    <3> QED BY <1>k, <3>1, <3>2, <3>3, <3>4
  <2>9. ASSUME NEW q \in Procs PROVE got'[q] <= minted
    BY <1>e, <1>f, <2>7
  <2> QED BY <2>1, <2>4, <2>6, <2>8, <2>9 DEF TokensOwned
<1> QED BY <1>1, <1>2, <1>a, Learns

LEMMA StoredGoodStep ==
  ASSUME CleanupInv, TokensOwned, StoredTokenGood, NEW p \in Procs, Step(p) \/ Crash(p)
  PROVE  StoredTokenGood'
<1>a. Trades(p) /\ TypeOK /\ Proper(p)
  BY StepTrades DEF CleanupInv, AllProper
<1>b. StoredTokenGood' <=> \/ store'.token \in live' \cup {0} \cup mishaps'
                           \/ \E q \in Procs : Replacing(q)' /\ known'[q].token = store'.token
  BY DEF StoredTokenGood, Replacing
<1>c. Missing.token = 0
  BY DEF Missing
<1>1. CASE pc[p] = "rename" /\ store' = NewState(p)
  <2>1. store'.token \in {got[p], 0}
    BY <1>1 DEF NewState
  <2>2. got[p] # 0 => got[p] \in live /\ live' = live
    BY <1>1, <1>a DEF TokensOwned, Trades
  <2> QED BY <1>b, <2>1, <2>2
<1>2. CASE pc[p] = "unlink state" /\ store' = Missing
  BY <1>2, <1>b, <1>c
<1>3. CASE UNCHANGED store /\ ~(pc[p] = "rename" /\ store' = NewState(p))
  <2>1. CASE store.token \in {0} \cup mishaps
    BY <1>3, <1>a, <1>b, <2>1 DEF Trades
  <2>2. CASE store.token \in live
    <3>1. CASE store.token \in live'
      BY <1>3, <1>b, <3>1
    <3>2. CASE store.token \notin live'
      <4>1. known[p].token = store.token
        BY <1>a, <2>2, <3>2 DEF Trades
      <4>2. (Replacing(p)' /\ known'[p] = known[p]) \/ known[p].token \in mishaps'
        BY <1>a, <2>2, <3>2, <4>1 DEF Trades
      <4> QED BY <1>3, <1>b, <4>1, <4>2
    <3> QED BY <3>1, <3>2
  <2>3. ASSUME NEW q \in Procs, Replacing(q), known[q].token = store.token, store.token # 0
        PROVE  StoredTokenGood'
    <3>1. CASE q # p
      <4>1. Replacing(q)' /\ known'[q] = known[q]
        BY <1>a, <2>3, <3>1, OthersKeep DEF Replacing, HasLease
      <4> QED BY <1>3, <1>b, <2>3, <4>1
    <3>2. CASE q = p
      <4>1. Current(p) /\ directory
        <5>1. known[p] = store /\ store # Missing
          BY <1>c, <2>3, <3>2 DEF TokensOwned
        <5>2. directory = TRUE
          BY <5>1 DEF CleanupInv, InDirectory
        <5> QED BY <5>1, <5>2 DEF Current
      <4>2. (Replacing(p)' /\ known'[p] = known[p]) \/ known[p].token \in mishaps'
        BY <1>3, <1>a, <2>3, <3>2, <4>1 DEF Trades
      <4> QED BY <1>3, <1>b, <2>3, <3>2, <4>2
    <3> QED BY <3>1, <3>2
  <2>4. store.token \in live \cup {0} \cup mishaps
          \/ \E q \in Procs : Replacing(q) /\ known[q].token = store.token
    BY DEF StoredTokenGood, Replacing
  <2> QED BY <2>1, <2>2, <2>3, <2>4
<1> QED BY <1>1, <1>2, <1>3, <1>a, Learns

\* A token that the provider refuses is stored only while a process is about
\* to replace it, or its loss is explained by a call or a process that was
\* lost: also where handoffs remove the lock files under those who wait.
THEOREM StoredIsGood == Spec => []StoredTokenGood
<1> DEFINE I == CleanupInv /\ TokensOwned /\ StoredTokenGood
<1>1. Init => I
  <2> SUFFICES ASSUME Init PROVE I
    OBVIOUS
  <2>1. CleanupInv
    BY CleanupInit
  <2>2. /\ store.token \in {0, minted} /\ minted \in Nat /\ store.token \in live \cup {0}
        /\ \A p \in Procs : got[p] = 0 /\ known[p] = Missing
    BY DEF Init, Missing
  <2>3. Missing.token = 0 /\ 0 <= minted /\ minted <= minted
    BY <2>2 DEF Missing
  <2> QED BY <2>1, <2>2, <2>3 DEF TokensOwned, StoredTokenGood
<1>2. I /\ [Next]_vars => I'
  <2> SUFFICES ASSUME I, [Next]_vars PROVE TokensOwned' /\ StoredTokenGood'
    BY CleanupStep
  <2>1. CASE UNCHANGED vars
    BY <2>1 DEF TokensOwned, StoredTokenGood, HasLease, vars, files, remote, process
  <2> QED BY <2>1, TokensStep, StoredGoodStep DEF Next, AllEnded
<1>3. I => StoredTokenGood
  OBVIOUS
<1> QED BY <1>1, <1>2, <1>3, PTL DEF Spec

-----------------------------------------------------------------------------
(* Swaps where one handoff cleans up.                                      *)

OneCleanup == \A p, q \in Procs : cmd[p] = "cleanup handoff" /\ cmd[q] = "cleanup handoff" => p = q

\* No handoff has got as far as to remove the lease file.
Intact == \A c \in Procs : cmd[c] = "cleanup handoff" => pc[c] \notin Ended \cup {"rmdir"}

\* Until then every open lease file is the linked one, so that the lock file
\* is removed under nobody who is to write; and who is to write has the lock.
SwapsApart ==
  /\ Intact => \A p \in Procs : leaseFd[p] \in {0, leaseFile}
  /\ \A p \in Procs :
       /\ task[p] \in Writes \cup {"cleanup"}
          /\ pc[p] \in {"try lock", "locked", "rename", "unlink state", "unlink lock"} => lockFd[p] = lockFile
       /\ pc[p] = "rename" => known[p].generation = store.generation

LEMMA SwapsApartStep ==
  ASSUME CleanupInv, OneCleanup, SwapsApart, NEW p \in Procs, Step(p) \/ Crash(p)
  PROVE  SwapsApart'
<1>a. /\ TypeOK /\ Move(p) /\ Touches(p) /\ pc \in [Procs -> Labels] /\ leaseFd \in [Procs -> Nat]
      /\ \A q \in Procs : Proper(q)
  BY StepMoves, StepTouches DEF CleanupInv, TypeOK, AllProper
<1>b. ASSUME NEW q \in Procs, q # p
      PROVE  /\ pc'[q] = pc[q] /\ task'[q] = task[q] /\ cmd'[q] = cmd[q] /\ known'[q] = known[q]
             /\ lockFd'[q] = lockFd[q] /\ leaseFd'[q] = leaseFd[q]
  BY <1>a, <1>b, OthersKeep
<1>1. ASSUME Intact' PROVE Intact
  <2>1. ASSUME NEW c \in Procs, cmd[c] = "cleanup handoff", pc[c] \in Ended \cup {"rmdir"} PROVE FALSE
    <3>1. CASE c # p
      BY <1>1, <1>b, <2>1, <3>1 DEF Intact
    <3>2. CASE c = p
      <4>1. pc'[p] \in Ended /\ cmd'[p] = cmd[p]
        BY <1>a, <2>1, <3>2 DEF Move, Over, Ended
      <4> QED BY <1>1, <2>1, <3>2, <4>1 DEF Intact
    <3> QED BY <3>1, <3>2
  <2> QED BY <2>1 DEF Intact
<1>2. ASSUME Intact', NEW q \in Procs PROVE leaseFd'[q] \in {0, leaseFile'}
  <2>1. \A r \in Procs : leaseFd[r] \in {0, leaseFile}
    BY <1>1, <1>2 DEF SwapsApart
  <2>2. pc[p] # "unlink lease"
    <3>1. pc[p] = "unlink lease" => cmd[p] = "cleanup handoff"
      BY <1>a DEF Proper, Removal
    <3>2. pc[p] = "unlink lease" => pc'[p] \in Ended \cup {"rmdir"} /\ cmd'[p] = cmd[p]
      BY <1>a DEF Move, Over, Same, Ended
    <3> QED BY <1>2, <3>1, <3>2 DEF Intact
  <2>3. leaseFile' = leaseFile \/ leaseFile = 0
    BY <1>a, <2>2 DEF Touches
  <2>4. leaseFd'[p] \in {0, leaseFd[p]} \/ leaseFd'[p] = leaseFile'
    BY <1>a DEF Move, Over, Same
  <2> QED BY <1>b, <2>1, <2>3, <2>4
\* Whoever unlinks the lock has the lease that others would need to write.
<1>3. ASSUME pc[p] = "unlink lock", NEW q \in Procs, q # p, task[q] \in Writes \cup {"cleanup"},
             pc[q] \in {"try lock", "locked", "rename", "unlink state", "unlink lock"}
      PROVE  FALSE
  <2>1. cmd[p] = "cleanup handoff"
    BY <1>3, <1>a DEF Proper, Removal
  <2>2. Intact
    BY <1>3, <2>1 DEF Intact, OneCleanup, Ended
  <2>3. leaseFd[p] # 0 /\ leaseFd[q] # 0
    BY <1>3, <1>a DEF Proper, Ended, Writes
  <2>4. leaseFd[p] = leaseFd[q]
    BY <2>2, <2>3 DEF SwapsApart
  <2>5. HasLease(p) /\ HasLease(q)
    BY <1>3, <2>3 DEF HasLease
  <2> QED BY <1>3, <2>4, <2>5 DEF CleanupInv, LeasesApart
<1>4. ASSUME NEW q \in Procs, task'[q] \in Writes \cup {"cleanup"},
             pc'[q] \in {"try lock", "locked", "rename", "unlink state", "unlink lock"}
      PROVE  lockFd'[q] = lockFile'
  <2>1. CASE q # p
    <3>1. lockFd[q] = lockFile /\ lockFd[q] # 0
      BY <1>4, <1>a, <1>b, <2>1 DEF SwapsApart, Proper, Held, Removal
    <3>2. pc[p] # "unlink lock"
      BY <1>3, <1>4, <1>b, <2>1
    <3> QED BY <1>a, <1>b, <2>1, <3>1, <3>2 DEF Touches
  <2>2. CASE q = p
    <3>1. \/ pc[p] = "open lock" /\ lockFd'[p] = lockFile'
          \/ /\ task[p] = task'[p] /\ lockFd'[p] = lockFd[p]
             /\ pc[p] \in {"try lock", "locked", "unlink state"}
      BY <1>4, <1>a, <2>2 DEF Move, Over, Same, Writes, Ended, Proper
    <3>2. pc[p] # "open lock" => lockFile' = lockFile
      BY <1>a, <3>1 DEF Touches
    <3> QED BY <1>4, <2>2, <3>1, <3>2 DEF SwapsApart
  <2> QED BY <2>1, <2>2
<1>5. ASSUME NEW q \in Procs, pc'[q] = "rename" PROVE known'[q].generation = store'.generation
  <2>1. CASE q # p
    <3>1. pc[q] = "rename" /\ lockFd[q] = lockFile /\ known[q].generation = store.generation
      <4>1. pc[q] = "rename"
        BY <1>5, <1>b, <2>1
      <4>2. task[q] \in Writes
        BY <1>a, <4>1 DEF Proper
      <4> QED BY <4>1, <4>2 DEF SwapsApart
    <3>2. HasLock(q)
      BY <1>a, <3>1 DEF HasLock, Proper, Held
    <3>3. ASSUME pc[p] \in {"rename", "unlink state"} PROVE FALSE
      <4>1. lockFd[p] = lockFile
        BY <1>a, <3>3 DEF SwapsApart, Proper, Removal
      <4>2. HasLock(p)
        BY <1>a, <3>3 DEF HasLock, Proper, Held, Removal
      <4> QED BY <2>1, <3>1, <3>2, <4>1, <4>2 DEF CleanupInv, LocksApart
    <3>4. UNCHANGED store
      BY <1>a, <3>3 DEF Touches
    <3> QED BY <1>b, <2>1, <3>1, <3>4
  <2>2. CASE q = p
    <3>1. pc[p] = "locked" /\ Current(p) /\ known'[p] = known[p]
      BY <1>5, <1>a, <2>2 DEF Move, Over, Same, Ended
    <3>2. UNCHANGED store
      BY <1>a, <3>1 DEF Touches
    <3> QED BY <2>2, <3>1, <3>2 DEF Current
  <2> QED BY <2>1, <2>2
<1> QED BY <1>2, <1>4, <1>5 DEF SwapsApart

\* As long as one handoff at most cleans up, a stored state is replaced only
\* by a process that knows it.  (With two, the locks of both may be left to
\* nobody, and a swap that was compared under the one lands on a state that
\* was made under the other.)
THEOREM SwapIsInformed == Spec /\ []OneCleanup => ReplacedKnowingly
<1>1. Init => SwapsApart
  BY DEF Init, SwapsApart, Writes
<1>2. CleanupInv /\ OneCleanup /\ SwapsApart /\ [Next]_vars => SwapsApart'
  <2> SUFFICES ASSUME CleanupInv, OneCleanup, SwapsApart, [Next]_vars PROVE SwapsApart'
    OBVIOUS
  <2>1. CASE UNCHANGED vars
    BY <2>1 DEF SwapsApart, Intact, vars, files, process
  <2> QED BY <2>1, SwapsApartStep DEF Next, AllEnded
<1>3. ASSUME CleanupInv, SwapsApart, [Next]_vars, store'.generation > issued, store.generation # 0
      PROVE  \E p \in Procs : known[p].generation = store.generation /\ pc[p] = "rename"
  <2>1. issued \in Nat /\ store.generation \in Nat /\ store.generation <= issued
    BY <1>3 DEF CleanupInv, TypeOK, Numbered, State
  <2>2. store' # store
    BY <1>3, <2>1
  <2>3. PICK p \in Procs : Step(p) \/ Crash(p)
    BY <1>3, <2>2 DEF Next, AllEnded, vars, files
  <2>4. ~(store' = Missing)
    BY <1>3, <2>1 DEF Missing
  <2>5. pc[p] = "rename"
    BY <2>2, <2>3, <2>4, <1>3, StepTouches DEF CleanupInv, Touches
  <2> QED BY <1>3, <2>5 DEF SwapsApart
<1>4. CleanupInv /\ SwapsApart /\ [Next]_vars =>
        [store'.generation > issued /\ store.generation # 0 =>
          \E p \in Procs : known[p].generation = store.generation /\ pc[p] = "rename"]_vars
  BY <1>3
<1> QED BY <1>1, <1>2, <1>4, CleanupInvariant, PTL DEF Spec, ReplacedKnowingly

=============================================================================
