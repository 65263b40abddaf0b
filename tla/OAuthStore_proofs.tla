------------------------- MODULE OAuthStore_proofs --------------------------
(***************************************************************************)
(* As long as no handoff removes the lock files there is one owner of the  *)
(* connection, what it knows is what the store holds, and no token is lost *)
(* unless a call or a process is.                                          *)
(***************************************************************************)
EXTENDS OAuthSafety, TLAPS

-----------------------------------------------------------------------------
(* Types.                                                                  *)

LEMMA MissingIsState == Missing \in State /\ Torn \in State
BY DEF Missing, Torn, State

LEMMA AtRiskType ==
  ASSUME TypeOK, NEW p \in Procs
  PROVE  AtRisk(p) \subseteq Nat
<1>1. known[p].token \in Nat /\ got[p] \in Nat
  BY DEF TypeOK, State
<1> QED BY <1>1 DEF AtRisk

\* A process that ends keeps the types of all it has.
LEMMA EndsType ==
  ASSUME TypeOK, NEW p \in Procs, NEW how \in Ended, Ends(p, how)
  PROVE  /\ cmd' = cmd /\ want' = want
         /\ pc' \in [Procs -> Labels] /\ task' \in [Procs -> Tasks]
         /\ leaseFd' \in [Procs -> Nat] /\ lockFd' \in [Procs -> Nat]
         /\ known' \in [Procs -> State] /\ source' \in [Procs -> State]
         /\ got' \in [Procs -> Nat] /\ renewals' \in [Procs -> Nat]
BY MissingIsState DEF TypeOK, Ends, Forget, Goto, Labels, Tasks

LEMMA GotoType ==
  ASSUME TypeOK, NEW p \in Procs, NEW label \in Labels, Goto(p, label)
  PROVE  pc' \in [Procs -> Labels]
BY DEF TypeOK, Goto

LEMMA SectionType ==
  ASSUME TypeOK, NEW p \in Procs, NEW what \in Tasks, Section(p, what)
  PROVE  pc' \in [Procs -> Labels] /\ task' \in [Procs -> Tasks]
BY GotoType DEF TypeOK, Section, Labels

LEMMA NewStateType ==
  ASSUME TypeOK, ClientKnown, NEW p \in Procs, pc[p] = "rename"
  PROVE  NewState(p) \in State
<1>1. task[p] \in Writes /\ got[p] \in Nat /\ known[p].client \in BOOLEAN /\ issued \in Nat
      /\ (got[p] # 0 => known[p].client)
  BY DEF TypeOK, ClientKnown, State
<1>2. CASE task[p] = "register"
  BY <1>1, <1>2 DEF NewState, State
<1>3. CASE task[p] = "tokens"
  BY <1>1, <1>3 DEF NewState, State
<1>4. CASE task[p] = "erase"
  BY <1>1, <1>4 DEF NewState, State
<1> QED BY <1>1, <1>2, <1>3, <1>4 DEF Writes

LEMMA TypeInit == Init => TypeOK
<1> SUFFICES ASSUME Init PROVE TypeOK
  OBVIOUS
<1>1. [generation |-> 1, client |-> TRUE, token |-> 1] \in State
  BY DEF State
<1>2. /\ store \in State /\ issued \in Nat /\ lockFile \in Nat /\ leaseFile \in Nat
      /\ inodes \in Nat /\ minted \in Nat /\ live \subseteq 1 .. minted
  <2>1. CASE store = Missing /\ issued = 0 /\ live = {} /\ minted = 0
             /\ lockFile = 0 /\ leaseFile = 0 /\ inodes = 0
    BY <2>1, MissingIsState
  <2>2. CASE store = [generation |-> 1, client |-> TRUE, token |-> 1] /\ issued = 1
             /\ live = {1} /\ minted = 1 /\ lockFile = 1 /\ leaseFile = 2 /\ inodes = 2
    BY <1>1, <2>2
  <2> QED BY <2>1, <2>2 DEF Init
<1> QED BY <1>2, MissingIsState DEF Init, TypeOK, Labels, Tasks

LEMMA TypeStep == ASSUME TypeOK, ClientKnown, [Next]_vars PROVE TypeOK'
<1> USE DEF TypeOK
<1>a. Ended \subseteq Labels
  BY DEF Labels
<1>b. ASSUME NEW p \in Procs, Fails(p) \/ CallFails(p)
      PROVE  mishaps' \subseteq Nat /\ \E how \in Ended : Ends(p, how)
  BY <1>b, AtRiskType DEF Fails, CallFails, Ended
<1>1. CASE UNCHANGED vars
  BY <1>1 DEF vars, files, remote, process
<1>2. ASSUME NEW p \in Procs, Crash(p) \/ LeaseTimesOut(p) \/ OpenFails(p) \/ RequestFails(p)
      PROVE  TypeOK'
  <2>1. UNCHANGED <<files, copy, remote>> /\ mishaps' \subseteq Nat /\ \E how \in Ended : Ends(p, how)
    BY <1>2, <1>b, AtRiskType DEF Crash, LeaseTimesOut, OpenFails, RequestFails, Ended
  <2> QED BY <2>1, EndsType DEF files, remote
<1>3. ASSUME NEW p \in Procs, Start(p) PROVE TypeOK'
  <2>1. UNCHANGED <<files, copy, remote, leaseFd, lockFd, known, got, source, renewals, mishaps>>
    BY <1>3 DEF Start
  <2>2. cmd' \in [Procs -> Commands \cup {"none"}] /\ want' \in [Procs -> Nat]
    <3>1. PICK c \in Commands : /\ cmd' = [cmd EXCEPT ![p] = c]
                                /\ IF c = "revoke" THEN \E g \in 1 .. issued : want' = [want EXCEPT ![p] = g]
                                                   ELSE UNCHANGED want
      BY <1>3 DEF Start
    <3> QED BY <3>1
  <2>3. pc' \in [Procs -> Labels] /\ task' \in [Procs -> Tasks]
    BY <1>3 DEF Start, Section, Goto, Labels, Ended, Tasks
  <2> QED BY <2>1, <2>2, <2>3 DEF files, remote
<1>4. ASSUME NEW p \in Procs, OpenLease(p) \/ OpenLock(p) PROVE TypeOK'
  <2>1. UNCHANGED <<store, issued, tmp, copy, remote, cmd, task, known, got, want, source, renewals,
                    mishaps>>
    BY <1>4 DEF OpenLease, OpenLock
  <2>2. pc' \in [Procs -> Labels] /\ directory' \in BOOLEAN
    BY <1>4, GotoType DEF OpenLease, OpenLock, Labels
  <2>3. inodes' \in {inodes, inodes + 1} /\ lockFile' \in {lockFile, inodes + 1}
        /\ leaseFile' \in {leaseFile, inodes + 1}
    <3>1. CASE OpenLease(p)
      <4>1. CASE leaseFile = 0
        BY <3>1, <4>1 DEF OpenLease
      <4>2. CASE leaseFile # 0
        BY <3>1, <4>2 DEF OpenLease
      <4> QED BY <4>1, <4>2
    <3>2. CASE OpenLock(p)
      <4>1. CASE lockFile = 0
        BY <3>2, <4>1 DEF OpenLock
      <4>2. CASE lockFile # 0
        BY <3>2, <4>2 DEF OpenLock
      <4> QED BY <4>1, <4>2
    <3> QED BY <1>4, <3>1, <3>2
  <2>4. lockFile' \in Nat /\ leaseFile' \in Nat /\ inodes' \in Nat
    BY <2>3
  <2>5. leaseFd' \in [Procs -> Nat] /\ lockFd' \in [Procs -> Nat]
    BY <1>4, <2>4 DEF OpenLease, OpenLock
  <2> QED BY <2>1, <2>2, <2>4, <2>5 DEF remote
<1>5. ASSUME NEW p \in Procs, TakeLease(p) \/ Connect(p) \/ Register(p) PROVE TypeOK'
  <2>1. UNCHANGED <<files, copy, remote, cmd, leaseFd, lockFd, known, got, want, source, renewals, mishaps>>
    BY <1>5 DEF TakeLease, Connect, Register
  <2>2. pc' \in [Procs -> Labels] /\ task' \in [Procs -> Tasks]
    BY <1>5, GotoType, SectionType DEF TakeLease, Connect, Register, Labels, Tasks, Writes
  <2> QED BY <2>1, <2>2 DEF files, remote
<1>6. ASSUME NEW p \in Procs, TryLock(p) \/ RenewalRefused(p) \/ CheckSource(p) PROVE TypeOK'
  <2>1. UNCHANGED <<files, copy, remote>>
    BY <1>6 DEF TryLock, RenewalRefused, CheckSource
  <2>2. CASE Fails(p) \/ CallFails(p)
    BY <2>1, <2>2, <1>b, EndsType DEF files, remote
  <2>3. CASE ~(Fails(p) \/ CallFails(p))
    BY <1>6, <2>1, <2>3 DEF TryLock, RenewalRefused, CheckSource, Goto, Labels, files, remote
  <2> QED BY <2>2, <2>3
<1>7. ASSUME NEW p \in Procs, Load(p) PROVE TypeOK'
  <2>1. UNCHANGED <<files, copy, remote>>
    BY <1>7 DEF Load
  <2>2. CASE Ends(p, "done") /\ UNCHANGED mishaps
    BY <2>1, <2>2, EndsType DEF files, remote, Ended
  <2>3. CASE Fails(p)
    BY <2>1, <2>3, <1>b, EndsType DEF files, remote
  <2>4. CASE /\ known' = [known EXCEPT ![p] = store] /\ Unlock(p)
             /\ Goto(p, IF cmd[p] \in Handoffs THEN "read source" ELSE "connect")
             /\ UNCHANGED <<cmd, task, leaseFd, got, want, source, renewals, mishaps>>
    BY <2>1, <2>4 DEF Unlock, Goto, Labels, files, remote
  <2> QED BY <1>7, <2>2, <2>3, <2>4 DEF Load
<1>8. ASSUME NEW p \in Procs, Compare(p) PROVE TypeOK'
  <2>1. UNCHANGED <<store, issued, directory, lockFile, leaseFile, inodes, copy, remote>>
    BY <1>8 DEF Compare
  <2>2. CASE Fails(p) /\ UNCHANGED tmp
    BY <2>1, <2>2, <1>b, EndsType DEF remote
  <2>3. CASE /\ tmp' = tmp \cup {p} /\ Goto(p, "rename")
             /\ UNCHANGED <<cmd, task, leaseFd, lockFd, known, got, want, source, renewals, mishaps>>
    BY <2>1, <2>3, GotoType DEF Labels, remote
  <2> QED BY <1>8, <2>2, <2>3 DEF Compare
<1>9. ASSUME NEW p \in Procs, Rename(p) \/ RenameFails(p) PROVE TypeOK'
  <2>1. UNCHANGED <<directory, lockFile, leaseFile, inodes, copy, remote>> /\ pc[p] = "rename"
    BY <1>9 DEF Rename, RenameFails
  <2>2. store' \in State /\ issued' \in Nat /\ tmp' \subseteq Procs
    BY <1>9, <2>1, NewStateType DEF Rename, RenameFails, Renamed
  <2>3. CASE Rename(p) /\ task[p] = "erase"
    BY <2>1, <2>2, <2>3, EndsType DEF Rename, remote, Ended
  <2>4. CASE Rename(p) /\ task[p] # "erase"
    <3>1. pc' \in [Procs -> Labels]
      BY <2>4, GotoType DEF Rename, Labels
    <3>2. /\ task' \in [Procs -> Tasks] /\ known' \in [Procs -> State] /\ got' \in [Procs -> Nat]
          /\ lockFd' \in [Procs -> Nat]
          /\ UNCHANGED <<cmd, leaseFd, want, source, renewals, mishaps>>
      BY <2>2, <2>4 DEF Rename, Remember, Unlock, Tasks
    <3> QED BY <2>1, <2>2, <3>1, <3>2 DEF remote
  <2>5. CASE RenameFails(p)
    BY <2>1, <2>2, <2>5, <1>b, EndsType DEF RenameFails, remote
  <2> QED BY <1>9, <2>3, <2>4, <2>5
<1>10. ASSUME NEW p \in Procs, Renew(p) \/ Authorize(p) PROVE TypeOK'
  <2>1. pc' \in [Procs -> Labels] /\ task' \in [Procs -> Tasks]
    BY <1>10, SectionType DEF Renew, Authorize, Tasks, Writes
  <2>2. /\ live' \subseteq live \cup {minted + 1} /\ minted' = minted + 1
        /\ got' = [got EXCEPT ![p] = minted + 1] /\ renewals' \in [Procs -> Nat]
    BY <1>10 DEF Renew, Authorize
  <2>4. /\ live' \subseteq 1 .. minted' /\ minted' \in Nat /\ got' \in [Procs -> Nat]
    BY <2>2
  <2>3. UNCHANGED <<files, copy, cmd, leaseFd, lockFd, known, want, source, mishaps>>
    BY <1>10 DEF Renew, Authorize
  <2> QED BY <2>1, <2>2, <2>3, <2>4 DEF files
<1>11. ASSUME NEW p \in Procs, RenewalLost(p) \/ AuthorizationLost(p) PROVE TypeOK'
  <2>1. UNCHANGED <<files, copy>> /\ Ends(p, "failed") /\ minted' = minted + 1
        /\ live' \subseteq live \cup {minted + 1}
    BY <1>11 DEF RenewalLost, AuthorizationLost
  <2>2. known[p].token \in Nat /\ minted + 1 \in Nat
    BY DEF State
  <2>3. mishaps' \subseteq mishaps \cup {known[p].token, minted + 1}
    BY <1>11 DEF RenewalLost, AuthorizationLost
  <2>4. mishaps' \subseteq Nat /\ live' \subseteq 1 .. minted'
    BY <2>1, <2>2, <2>3
  <2> QED BY <2>1, <2>4, EndsType DEF files, Ended
<1>12. ASSUME NEW p \in Procs, Work(p) PROVE TypeOK'
  <2>1. UNCHANGED <<files, copy, remote, mishaps>>
    BY <1>12 DEF Work
  <2>2. CASE Ends(p, "done")
    BY <2>1, <2>2, EndsType DEF files, remote, Ended
  <2>3. CASE ~Ends(p, "done")
    BY <1>12, <2>1, <2>3 DEF Work, Goto, Labels, files, remote
  <2> QED BY <2>2, <2>3
<1>13. ASSUME NEW p \in Procs, Revoke(p) PROVE TypeOK'
  <2>1. UNCHANGED <<files, copy, minted>> /\ live' \subseteq live
    BY <1>13 DEF Revoke
  <2>2. known[p].token \in Nat
    BY DEF State
  <2>3. CASE Ends(p, "failed") /\ mishaps' = mishaps \cup {known[p].token}
    BY <2>1, <2>2, <2>3, EndsType DEF files, Ended
  <2>4. CASE Section(p, "erase") /\ UNCHANGED <<cmd, leaseFd, lockFd, known, got, want, source, renewals, mishaps>>
    BY <2>1, <2>4 DEF Section, Goto, Labels, Tasks, Writes, files
  <2> QED BY <1>13, <2>3, <2>4 DEF Revoke
<1>14. ASSUME NEW p \in Procs, ReadSource(p) \/ Transfer(p) \/ TransferFails(p) \/ Validate(p)
       PROVE  TypeOK'
  <2>1. UNCHANGED <<files, remote>>
    BY <1>14 DEF ReadSource, Transfer, TransferFails, Validate
  <2>2. copy' \in [Procs -> State]
    BY <1>14, MissingIsState DEF ReadSource, Transfer, TransferFails, Validate
  <2>3. CASE (\E how \in Ended : Ends(p, how)) /\ mishaps' \subseteq Nat
    BY <2>1, <2>2, <2>3, EndsType DEF files, remote
  <2>4. CASE ReadSource(p) \/ Transfer(p)
    <3>1. CASE Fails(p)
      BY <1>b, <2>3, <3>1
    <3>2. CASE ~Fails(p)
      <4>1. pc' \in [Procs -> Labels]
        BY <2>4, <3>2, GotoType DEF ReadSource, Transfer, Labels
      <4>2. source' \in [Procs -> State]
            /\ UNCHANGED <<cmd, task, leaseFd, lockFd, known, got, want, renewals, mishaps>>
        BY <2>4, <3>2 DEF ReadSource, Transfer
      <4> QED BY <2>1, <2>2, <4>1, <4>2 DEF files, remote
    <3> QED BY <3>1, <3>2
  <2>5. CASE TransferFails(p)
    BY <2>3, <2>5, <1>b DEF TransferFails
  <2>6. CASE Validate(p) /\ Section(p, "cleanup")
             /\ UNCHANGED <<cmd, leaseFd, lockFd, known, got, want, source, renewals>>
    BY <2>1, <2>2, <2>6 DEF Validate, Section, Goto, Labels, Tasks, files, remote
  <2>7. CASE Validate(p) /\ (Ends(p, "done") \/ Ends(p, "failed"))
    BY <2>3, <2>7 DEF Validate, Ended
  <2> QED BY <1>14, <2>4, <2>5, <2>6, <2>7 DEF Validate
<1>15. ASSUME NEW p \in Procs, UnlinkState(p) \/ UnlinkLock(p) \/ UnlinkLease(p) PROVE TypeOK'
  <2>1. pc' \in [Procs -> Labels]
    BY <1>15, GotoType DEF UnlinkState, UnlinkLock, UnlinkLease, Labels
  <2>2. UNCHANGED <<issued, tmp, directory, inodes, copy, remote, cmd, task, leaseFd, lockFd,
                    known, got, want, source, renewals, mishaps>>
    BY <1>15 DEF UnlinkState, UnlinkLock, UnlinkLease
  <2>3. store' \in {store, Missing} /\ lockFile' \in {lockFile, 0} /\ leaseFile' \in {leaseFile, 0}
    BY <1>15 DEF UnlinkState, UnlinkLock, UnlinkLease
  <2>4. store' \in State /\ lockFile' \in Nat /\ leaseFile' \in Nat
    BY <2>3, MissingIsState
  <2> QED BY <2>1, <2>2, <2>4 DEF remote
<1>16. ASSUME NEW p \in Procs, RemoveDirectory(p) PROVE TypeOK'
  <2>1. \E how \in Ended : Ends(p, how)
    BY <1>16 DEF RemoveDirectory, Ended
  <2> QED BY <1>16, <2>1, EndsType DEF RemoveDirectory, remote
<1> QED
  BY <1>1, <1>2, <1>3, <1>4, <1>5, <1>6, <1>7, <1>8, <1>9, <1>10, <1>11, <1>12, <1>13, <1>14,
     <1>15, <1>16 DEF Next, Step, AllEnded

-----------------------------------------------------------------------------
(* One owner.                                                              *)

\* What a process knows is its own.
LEMMA OthersUnchanged ==
  ASSUME TypeOK, NEW p \in Procs, Step(p) \/ Crash(p), NEW q \in Procs, q # p
  PROVE  /\ pc'[q] = pc[q] /\ task'[q] = task[q] /\ cmd'[q] = cmd[q]
         /\ leaseFd'[q] = leaseFd[q] /\ known'[q] = known[q] /\ got'[q] = got[q]
<1> DEFINE Frame == /\ pc'[q] = pc[q] /\ task'[q] = task[q] /\ cmd'[q] = cmd[q]
                    /\ leaseFd'[q] = leaseFd[q] /\ known'[q] = known[q] /\ got'[q] = got[q]
<1>a. /\ pc \in [Procs -> Labels] /\ task \in [Procs -> Tasks] /\ leaseFd \in [Procs -> Nat]
      /\ cmd \in [Procs -> Commands \cup {"none"}] /\ known \in [Procs -> State] /\ got \in [Procs -> Nat]
  BY DEF TypeOK
<1>b. ASSUME NEW how, Ends(p, how) PROVE Frame
  BY <1>a, <1>b DEF Ends, Forget, Goto
<1>c. ASSUME NEW what, Section(p, what) PROVE pc'[q] = pc[q] /\ task'[q] = task[q]
  BY <1>a, <1>c DEF Section, Goto
<1>d. ASSUME NEW label, Goto(p, label) PROVE pc'[q] = pc[q]
  BY <1>a, <1>d DEF Goto
<1>1. CASE Crash(p) \/ LeaseTimesOut(p) \/ OpenFails(p) \/ RequestFails(p) \/ RenameFails(p)
           \/ RenewalLost(p) \/ AuthorizationLost(p) \/ TransferFails(p) \/ RemoveDirectory(p)
  BY <1>1, <1>b DEF Crash, LeaseTimesOut, OpenFails, RequestFails, RenameFails, RenewalLost,
     AuthorizationLost, TransferFails, RemoveDirectory, Fails, CallFails
<1>2. CASE Start(p)
  <2>1. UNCHANGED <<leaseFd, known, got>> /\ cmd'[q] = cmd[q]
    BY <1>2, <1>a DEF Start
  <2>2. pc'[q] = pc[q] /\ task'[q] = task[q]
    BY <1>2, <1>c, <1>d DEF Start
  <2> QED BY <2>1, <2>2
<1>3. CASE OpenLease(p) \/ OpenLock(p)
  BY <1>3, <1>a, <1>d DEF OpenLease, OpenLock
<1>4. CASE TakeLease(p) \/ Register(p) \/ Connect(p)
  BY <1>4, <1>c, <1>d DEF TakeLease, Register, Connect
<1>5. CASE TryLock(p) \/ RenewalRefused(p) \/ CheckSource(p) \/ Compare(p)
  BY <1>5, <1>b, <1>d DEF TryLock, RenewalRefused, CheckSource, Compare, Fails, CallFails
<1>6. CASE Load(p)
  BY <1>6, <1>a, <1>b, <1>d DEF Load, Fails
<1>7. CASE Rename(p)
  BY <1>7, <1>a, <1>b, <1>d DEF Rename, Remember
<1>8. CASE Renew(p) \/ Authorize(p)
  BY <1>8, <1>a, <1>c DEF Renew, Authorize
<1>9. CASE Work(p) \/ Revoke(p) \/ ReadSource(p) \/ Transfer(p) \/ Validate(p)
  BY <1>9, <1>b, <1>c, <1>d DEF Work, Revoke, ReadSource, Transfer, Validate, Fails
<1>10. CASE UnlinkState(p) \/ UnlinkLock(p) \/ UnlinkLease(p)
  BY <1>10, <1>d DEF UnlinkState, UnlinkLock, UnlinkLease
<1> QED
  BY <1>1, <1>2, <1>3, <1>4, <1>5, <1>6, <1>7, <1>8, <1>9, <1>10 DEF Step

\* What OwnerInv says of one process.
Mine(p) ==
  /\ pc[p] \notin Removal /\ task[p] # "cleanup" /\ cmd[p] # "cleanup handoff"
  /\ leaseFd[p] \in {0, leaseFile}
  /\ pc[p] \in {"open lock", "try lock", "locked"} =>
       leaseFd[p] # 0 \/ (cmd[p] = "status" /\ task[p] = "load")
  /\ pc[p] \in { "await lease", "rename", "connect", "renew", "register", "authorize", "work",
                 "revoke", "read source", "transfer", "validate" } => leaseFd[p] # 0
  /\ pc[p] \in {"renew", "authorize", "work"} \/ task[p] = "tokens" => known[p].client
  /\ got[p] # 0 => task[p] = "tokens" /\ pc[p] \in {"open lock", "try lock", "locked", "rename"}
  /\ pc[p] = "rename" => task[p] \in Writes

LEMMA MineOfAll ==
  (\A p \in Procs : Mine(p)) <=> (NoRemoval /\ OneLease /\ Leased /\ ClientKnown)
<1>1. ASSUME \A p \in Procs : Mine(p) PROVE NoRemoval /\ OneLease /\ Leased /\ ClientKnown
  BY <1>1 DEF Mine, NoRemoval, OneLease, Leased, ClientKnown
<1>2. ASSUME NoRemoval, OneLease, Leased, ClientKnown, NEW p \in Procs PROVE Mine(p)
  BY <1>2 DEF Mine, NoRemoval, OneLease, Leased, ClientKnown
<1> QED BY <1>1, <1>2

\* What a process and its step keep of it, given that it has only its types
\* and its own part: the rest of the owner's invariant follows from these.
Keeps(p) ==
  /\ Mine(p)'
  /\ leaseFile' = leaseFile \/ leaseFile = 0
  /\ HasLease(p)' => leaseFd'[p] = leaseFd[p] /\ leaseFd[p] # 0 /\ (HasLease(p) \/ LeaseFree(p))
  /\ store' = store \/ HasLease(p)
  /\ p \in Informed' => known'[p] = store'

\* The types of what Keeps speaks of.
Typed(p) ==
  /\ store \in State /\ inodes \in Nat /\ leaseFile \in Nat
  /\ cmd \in [Procs -> Commands \cup {"none"}] /\ pc \in [Procs -> Labels]
  /\ task \in [Procs -> Tasks] /\ leaseFd \in [Procs -> Nat]
  /\ known \in [Procs -> State] /\ got \in [Procs -> Nat]
  /\ p \in Procs

\* A process that ends has nothing left to keep.
LEMMA EndsKeeps ==
  ASSUME NEW p, Typed(p), Mine(p), NEW how \in Ended, Ends(p, how),
         UNCHANGED leaseFile, store' = store \/ HasLease(p)
  PROVE  Keeps(p)
<1>1. /\ pc'[p] = how /\ leaseFd'[p] = 0 /\ task'[p] = "none" /\ got'[p] = 0 /\ cmd'[p] = cmd[p]
  BY DEF Typed, Ends, Forget, Goto
<1>2. Mine(p)'
  BY <1>1 DEF Mine, Removal, Ended
<1>3. ~HasLease(p)' /\ p \notin Informed'
  BY <1>1 DEF HasLease, Informed
<1> QED BY <1>2, <1>3 DEF Keeps

LEMMA SuccessorPositive == \A n \in Nat : n + 1 # 0
OBVIOUS

LEMMA StepKeeps ==
  ASSUME "cleanup handoff" \notin Commands, NEW p, Typed(p), Mine(p), p \in Informed => known[p] = store,
         Step(p) \/ Crash(p)
  PROVE  Keeps(p)
<1> DEFINE Same == UNCHANGED <<store, leaseFile, cmd, leaseFd, known, got>>
<1>a. ASSUME NEW how \in Ended, Ends(p, how), UNCHANGED <<store, leaseFile>> PROVE Keeps(p)
  BY <1>a, EndsKeeps
<1>1. CASE Crash(p) \/ LeaseTimesOut(p) \/ OpenFails(p) \/ RequestFails(p) \/ RenewalLost(p)
           \/ AuthorizationLost(p) \/ TransferFails(p)
  BY <1>1, <1>a DEF Crash, LeaseTimesOut, OpenFails, RequestFails, RenewalLost, AuthorizationLost,
     TransferFails, Fails, CallFails, Ended, files
<1>2. CASE Start(p)
  <2>1. UNCHANGED <<store, leaseFile, leaseFd, known, got>> /\ pc[p] = "idle"
    BY <1>2 DEF Start, files
  <2>2. PICK c \in Commands :
          /\ cmd' = [cmd EXCEPT ![p] = c]
          /\ \/ c = "status" /\ Section(p, "load")
             \/ Goto(p, "failed") /\ UNCHANGED task
             \/ Goto(p, "open lease") /\ UNCHANGED task
    BY <1>2 DEF Start
  <2>3. cmd'[p] = c /\ c # "cleanup handoff"
    BY <2>2 DEF Typed
  <2>4. \/ c = "status" /\ pc'[p] = "open lock" /\ task'[p] = "load"
        \/ pc'[p] \in {"failed", "open lease"} /\ task'[p] = task[p]
    BY <2>2 DEF Typed, Section, Goto
  <2>5. Mine(p)'
    BY <2>1, <2>3, <2>4 DEF Mine, Removal
  <2>6. HasLease(p) <=> leaseFd[p] # 0
    BY <2>1 DEF HasLease
  <2>7. p \in Informed' => p \in Informed
    BY <2>1, <2>6 DEF Informed, HasLease, Typed
  <2>8. HasLease(p)' => HasLease(p) /\ leaseFd'[p] = leaseFd[p] /\ leaseFd[p] # 0
    BY <2>1, <2>6 DEF HasLease
  <2> QED BY <2>1, <2>5, <2>7, <2>8 DEF Keeps
<1>3. CASE OpenLease(p)
  <2>1. /\ pc'[p] = "await lease" /\ leaseFd'[p] = leaseFile' /\ pc[p] = "open lease"
        /\ UNCHANGED <<store, cmd, task, known, got>>
    BY <1>3 DEF OpenLease, Goto, Typed
  <2>2. leaseFile' # 0 /\ (leaseFile' = leaseFile \/ leaseFile = 0)
    <3>1. inodes + 1 # 0
      <4>1. inodes \in Nat
        BY DEF Typed
      <4> QED BY <4>1, SuccessorPositive
    <3>2. CASE leaseFile = 0
      BY <1>3, <3>1, <3>2 DEF OpenLease
    <3>3. CASE leaseFile # 0
      BY <1>3, <3>3 DEF OpenLease
    <3> QED BY <3>2, <3>3
  <2>3. Mine(p)'
    BY <2>1, <2>2 DEF Mine, Removal
  <2>4. ~HasLease(p)' /\ p \notin Informed'
    BY <2>1 DEF HasLease, Informed
  <2> QED BY <2>1, <2>2, <2>3, <2>4 DEF Keeps
<1>4. CASE TakeLease(p)
  <2>1. /\ Same /\ pc[p] = "await lease" /\ LeaseFree(p)
        /\ pc'[p] = "open lock" /\ task'[p] = "load"
    BY <1>4 DEF TakeLease, Section, Goto, Typed, files
  <2>2. Mine(p)' /\ leaseFd[p] # 0
    BY <2>1 DEF Mine, Removal
  <2>3. p \notin Informed'
    BY <2>1 DEF Informed
  <2> QED BY <2>1, <2>2, <2>3 DEF Keeps
\* Steps of a process that change its place and its task alone.
<1>b. ASSUME Same, pc[p] # "await lease", pc'[p] # "await lease", Mine(p)',
             p \in Informed' => p \in Informed
      PROVE  Keeps(p)
  BY <1>b DEF Keeps, HasLease
<1>5. CASE OpenLock(p)
  <2>1. Same /\ pc[p] = "open lock" /\ pc'[p] = "try lock" /\ task'[p] = task[p]
    BY <1>5 DEF OpenLock, Goto, Typed
  <2>2. Mine(p)'
    BY <2>1 DEF Mine, Removal
  <2>3. p \in Informed' => p \in Informed
    BY <2>1 DEF Informed, HasLease
  <2> QED BY <1>b, <2>1, <2>2, <2>3
<1>6. CASE TryLock(p)
  <2>1. CASE CallFails(p)
    BY <1>6, <1>a, <2>1 DEF TryLock, CallFails, Ended, files
  <2>2. CASE Goto(p, "locked") /\ UNCHANGED <<cmd, task, leaseFd, lockFd, known, got>>
    <3>1. Same /\ pc[p] = "try lock" /\ pc'[p] = "locked" /\ task'[p] = task[p]
      BY <1>6, <2>2 DEF TryLock, Goto, Typed, files
    <3>2. Mine(p)'
      BY <3>1 DEF Mine, Removal
    <3>3. p \in Informed' => p \in Informed
      BY <3>1 DEF Informed, HasLease
    <3> QED BY <1>b, <3>1, <3>2, <3>3
  <2> QED BY <1>6, <2>1, <2>2 DEF TryLock
<1>7. CASE Load(p)
  <2>1. UNCHANGED <<store, leaseFile>> /\ pc[p] = "locked" /\ task[p] = "load"
    BY <1>7 DEF Load, files
  <2>2. CASE Ends(p, "done") \/ Fails(p)
    BY <1>a, <2>1, <2>2 DEF Fails, Ended
  <2>3. CASE /\ cmd[p] # "status" /\ known' = [known EXCEPT ![p] = store]
             /\ Goto(p, IF cmd[p] \in Handoffs THEN "read source" ELSE "connect")
             /\ UNCHANGED <<cmd, task, leaseFd, got>>
    <3>1. known'[p] = store /\ pc'[p] \in {"read source", "connect"}
      BY <2>3 DEF Goto, Typed
    <3>2. Mine(p)' /\ leaseFd[p] # 0
      BY <2>1, <2>3, <3>1 DEF Mine, Removal
    <3> QED BY <2>1, <2>3, <3>1, <3>2 DEF Keeps, HasLease
  <2> QED BY <1>7, <2>2, <2>3 DEF Load
<1>8. CASE Compare(p)
  <2>1. UNCHANGED <<store, leaseFile>> /\ pc[p] = "locked" /\ task[p] \in Writes
    BY <1>8 DEF Compare
  <2>2. CASE Fails(p)
    BY <1>a, <2>1, <2>2 DEF Fails, Ended
  <2>3. CASE Goto(p, "rename") /\ UNCHANGED <<cmd, task, leaseFd, known, got>>
    <3>1. pc'[p] = "rename" /\ task'[p] = task[p]
      BY <2>3 DEF Goto, Typed
    <3>2. Mine(p)'
      BY <2>1, <2>3, <3>1 DEF Mine, Removal, Writes
    <3>3. p \in Informed
      BY <2>1 DEF Mine, Informed, HasLease, Writes, Typed
    <3> QED BY <1>b, <2>1, <2>3, <3>1, <3>2, <3>3
  <2> QED BY <1>8, <2>2, <2>3 DEF Compare
<1>9. CASE Rename(p) \/ RenameFails(p)
  <2>1. UNCHANGED leaseFile /\ pc[p] = "rename" /\ task[p] \in Writes /\ leaseFd[p] # 0
    BY <1>9 DEF Rename, RenameFails, Mine
  <2>2. HasLease(p)
    BY <2>1 DEF HasLease
  <2>3. CASE \E how \in Ended : Ends(p, how)
    BY <2>1, <2>2, <2>3, EndsKeeps
  <2>4. CASE Rename(p) /\ task[p] # "erase"
    <3>1. /\ known'[p] = store' /\ got'[p] = 0 /\ task'[p] = "none"
          /\ pc'[p] = (IF task[p] = "tokens" THEN "work" ELSE "authorize")
          /\ UNCHANGED <<cmd, leaseFd>> /\ store' = NewState(p)
      BY <2>4 DEF Rename, Renamed, Remember, Goto, Typed
    <3>2. store'.client = TRUE
      <4>1. CASE task[p] = "register"
        <5>1. store' = [generation |-> issued + 1, client |-> TRUE, token |-> 0]
          BY <3>1, <4>1 DEF NewState
        <5> QED BY <5>1
      <4>2. CASE task[p] = "tokens"
        <5>1. store' = [generation |-> issued + 1, client |-> known[p].client, token |-> got[p]]
          BY <3>1, <4>2 DEF NewState
        <5>2. known[p].client \in BOOLEAN /\ known[p].client
          BY <4>2 DEF Mine, Typed, State
        <5>3. store'.client = known[p].client
          BY <5>1
        <5> QED BY <5>2, <5>3
      <4> QED BY <2>1, <2>4, <4>1, <4>2 DEF Writes
    <3>3. Mine(p)'
      BY <2>1, <3>1, <3>2 DEF Mine, Removal
    <3> QED BY <2>1, <2>2, <3>1, <3>3 DEF Keeps
  <2> QED BY <1>9, <2>3, <2>4 DEF Rename, RenameFails, Fails, CallFails, Ended
<1>10. CASE Connect(p) \/ Register(p) \/ RenewalRefused(p)
  <2>1. pc[p] \in {"connect", "register", "renew"} /\ UNCHANGED <<store, leaseFile>>
    BY <1>10 DEF Connect, Register, RenewalRefused, files
  <2>2. p \in Informed
    BY <2>1 DEF Mine, Informed, HasLease, Typed
  <2>3. CASE Fails(p)
    BY <1>a, <2>1, <2>3 DEF Fails, Ended
  <2>4. CASE Connect(p)
    <3>1. /\ Same /\ task'[p] = task[p] /\ pc[p] = "connect"
          /\ pc'[p] = IF cmd[p] = "revoke" THEN "revoke" ELSE IF known[p].token # 0 THEN "renew"
                      ELSE IF known[p].client THEN "authorize" ELSE "register"
      BY <2>4 DEF Connect, Goto, Typed, files
    <3>2. known[p].token # 0 => known[p].client
      BY DEF Typed, State
    <3>3. Mine(p)'
      BY <3>1, <3>2 DEF Mine, Removal
    <3> QED BY <1>b, <2>2, <3>1, <3>3
  <2>5. CASE Register(p)
    <3>1. Same /\ task'[p] = "register" /\ pc[p] = "register" /\ pc'[p] = "open lock"
      BY <2>5 DEF Register, Section, Goto, Typed, files
    <3>2. Mine(p)'
      BY <3>1 DEF Mine, Removal
    <3> QED BY <1>b, <2>2, <3>1, <3>2
  <2>6. CASE RenewalRefused(p) /\ ~Fails(p)
    <3>1. Same /\ task'[p] = task[p] /\ pc[p] = "renew" /\ pc'[p] = "authorize"
      BY <2>6 DEF RenewalRefused, Goto, Typed, files
    <3>2. Mine(p)'
      BY <3>1 DEF Mine, Removal
    <3> QED BY <1>b, <2>2, <3>1, <3>2
  <2> QED BY <1>10, <2>3, <2>4, <2>5, <2>6
<1>11. CASE Renew(p) \/ Authorize(p)
  <2>1. /\ UNCHANGED <<store, leaseFile, cmd, leaseFd, known>> /\ pc[p] \in {"renew", "authorize"}
        /\ pc'[p] = "open lock" /\ task'[p] = "tokens"
    BY <1>11 DEF Renew, Authorize, Section, Goto, Typed, files
  <2>2. p \in Informed
    BY <2>1 DEF Mine, Informed, HasLease, Typed
  <2>3. Mine(p)'
    BY <2>1 DEF Mine, Removal
  <2> QED BY <2>1, <2>2, <2>3 DEF Keeps, Informed, HasLease
<1>12. CASE Work(p) \/ Revoke(p)
  <2>1. pc[p] \in {"work", "revoke"} /\ UNCHANGED <<store, leaseFile>>
    BY <1>12 DEF Work, Revoke, files
  <2>2. p \in Informed
    BY <2>1 DEF Mine, Informed, HasLease, Typed
  <2>3. CASE \E how \in Ended : Ends(p, how)
    BY <1>a, <2>1, <2>3
  <2>4. CASE Work(p) /\ Goto(p, "renew") /\ UNCHANGED <<cmd, task, leaseFd, known, got>>
    <3>1. Same /\ task'[p] = task[p] /\ pc[p] = "work" /\ pc'[p] = "renew"
      BY <2>1, <2>4 DEF Work, Goto, Typed
    <3>2. Mine(p)'
      BY <3>1 DEF Mine, Removal
    <3> QED BY <1>b, <2>2, <3>1, <3>2
  <2>5. CASE Revoke(p) /\ Section(p, "erase") /\ UNCHANGED <<cmd, leaseFd, known, got>>
    <3>1. Same /\ task'[p] = "erase" /\ pc[p] = "revoke" /\ pc'[p] = "open lock"
      BY <2>1, <2>5 DEF Revoke, Section, Goto, Typed
    <3>2. Mine(p)'
      BY <3>1 DEF Mine, Removal
    <3> QED BY <1>b, <2>2, <3>1, <3>2
  <2> QED BY <1>12, <2>3, <2>4, <2>5 DEF Work, Revoke, Ended
<1>13. CASE ReadSource(p) \/ Transfer(p) \/ Validate(p)
  <2>1. /\ pc[p] \in {"read source", "transfer", "validate"} /\ UNCHANGED <<store, leaseFile>>
    BY <1>13 DEF ReadSource, Transfer, Validate, files
  <2>2. p \in Informed
    BY <2>1 DEF Mine, Informed, HasLease, Typed
  <2>3. CASE \E how \in Ended : Ends(p, how)
    BY <1>a, <2>1, <2>3
  <2>4. CASE (ReadSource(p) /\ ~Fails(p)) \/ Transfer(p)
    <3>1. Same /\ task'[p] = task[p] /\ pc'[p] \in {"transfer", "validate"}
      BY <2>1, <2>4 DEF ReadSource, Transfer, Goto, Typed
    <3>2. Mine(p)'
      BY <2>1, <3>1 DEF Mine, Removal
    <3> QED BY <1>b, <2>1, <2>2, <3>1, <3>2
  <2> QED BY <1>13, <2>3, <2>4 DEF ReadSource, Validate, Fails, Mine, Ended
<1>14. CASE CheckSource(p) \/ UnlinkState(p) \/ UnlinkLock(p) \/ UnlinkLease(p) \/ RemoveDirectory(p)
  BY <1>14 DEF Mine, Removal, CheckSource, UnlinkState, UnlinkLock, UnlinkLease, RemoveDirectory
<1> QED
  BY <1>1, <1>2, <1>3, <1>4, <1>5, <1>6, <1>7, <1>8, <1>9, <1>10, <1>11, <1>12, <1>13, <1>14
     DEF Step

LEMMA InvInit == Init => OwnerInv
<1> SUFFICES ASSUME Init PROVE OwnerInv
  OBVIOUS
<1>1. \A p \in Procs : /\ pc[p] = "idle" /\ task[p] = "none" /\ cmd[p] = "none"
                       /\ leaseFd[p] = 0 /\ got[p] = 0
  BY DEF Init
<1>2. \A p \in Procs : Mine(p)
  BY <1>1 DEF Mine, Removal
<1>3. SingleOwner /\ KnownIsCurrent
  BY <1>1 DEF SingleOwner, KnownIsCurrent, Informed, HasLease
<1> QED BY <1>2, <1>3, MineOfAll, TypeInit DEF OwnerInv

LEMMA InvStep ==
  ASSUME "cleanup handoff" \notin Commands, OwnerInv, [Next]_vars
  PROVE  OwnerInv'
<1>a. TypeOK'
  BY TypeStep DEF OwnerInv
<1>b. \A q \in Procs : Mine(q) /\ Typed(q)
  BY MineOfAll DEF OwnerInv, TypeOK, Typed
<1>1. CASE UNCHANGED vars
  BY <1>1 DEF OwnerInv, TypeOK, NoRemoval, OneLease, Leased, SingleOwner, KnownIsCurrent, ClientKnown,
     Informed, HasLease, vars, files, remote, process
<1>2. ASSUME NEW p \in Procs, Step(p) \/ Crash(p) PROVE OwnerInv'
  <2>1. Keeps(p)
    BY <1>2, <1>b, StepKeeps DEF OwnerInv, KnownIsCurrent
  <2>2. ASSUME NEW q \in Procs, q # p
        PROVE  /\ pc'[q] = pc[q] /\ task'[q] = task[q] /\ cmd'[q] = cmd[q]
               /\ leaseFd'[q] = leaseFd[q] /\ known'[q] = known[q] /\ got'[q] = got[q]
    BY <1>2, <2>2, OthersUnchanged DEF OwnerInv
  <2>3. ASSUME NEW q \in Procs PROVE Mine(q)'
    <3>1. CASE q = p
      BY <2>1, <3>1 DEF Keeps
    <3>2. CASE q # p
      <4>1. leaseFile' = leaseFile \/ leaseFile = 0
        BY <2>1 DEF Keeps
      <4> QED BY <1>b, <2>2, <3>2, <4>1 DEF Mine
    <3> QED BY <3>1, <3>2
  <2>4. \A q \in Procs : q # p /\ HasLease(q)' => HasLease(q) /\ leaseFd[q] = leaseFile
    BY <1>b, <2>2 DEF HasLease, Mine
  <2>5. \A q \in Procs : q # p /\ HasLease(q)' => ~HasLease(p)'
    <3> SUFFICES ASSUME NEW q \in Procs, q # p, HasLease(q)', HasLease(p)' PROVE FALSE
      OBVIOUS
    <3>1. HasLease(q) /\ leaseFd[q] = leaseFile
      BY <2>4
    <3>2. leaseFd[p] = leaseFile /\ (HasLease(p) \/ LeaseFree(p))
      BY <1>b, <2>1 DEF Keeps, Mine
    <3>3. ~HasLease(p)
      BY <3>1 DEF OwnerInv, SingleOwner
    <3> QED BY <3>1, <3>2, <3>3 DEF LeaseFree
  <2>6. SingleOwner'
    <3> SUFFICES ASSUME NEW q \in Procs, NEW r \in Procs, HasLease(q)', HasLease(r)', q # r
                 PROVE FALSE
      BY DEF SingleOwner
    <3>1. q # p /\ r # p
      BY <2>5
    <3> QED BY <2>4, <3>1 DEF OwnerInv, SingleOwner
  <2>7. KnownIsCurrent'
    <3> SUFFICES ASSUME NEW q \in Procs, q \in Informed' PROVE known'[q] = store'
      BY DEF KnownIsCurrent, Informed
    <3>1. CASE q = p
      BY <2>1, <3>1 DEF Keeps
    <3>2. CASE q # p
      <4>1. q \in Informed /\ HasLease(q)
        BY <2>2, <3>2 DEF Informed, HasLease
      <4>2. store' = store
        BY <2>1, <3>2, <4>1 DEF Keeps, OwnerInv, SingleOwner
      <4> QED BY <2>2, <3>2, <4>1, <4>2 DEF OwnerInv, KnownIsCurrent
    <3> QED BY <3>1, <3>2
  <2>8. (NoRemoval /\ OneLease /\ Leased /\ ClientKnown)'
    BY <2>3 DEF Mine, NoRemoval, OneLease, Leased, ClientKnown
  <2> QED BY <1>a, <2>6, <2>7, <2>8 DEF OwnerInv
<1> QED BY <1>1, <1>2 DEF Next, AllEnded

\* Where no handoff cleans up, the store, the provider and the processes are
\* of their types, one process at a time is in its session, and so on: all of
\* OwnerInv, whatever the number of processes and of their renewals.
THEOREM OwnerInvariant ==
  ASSUME "cleanup handoff" \notin Commands
  PROVE  Spec => []OwnerInv
<1>1. OwnerInv /\ [Next]_vars => OwnerInv'
  BY InvStep
<1> QED BY <1>1, InvInit, PTL DEF Spec

\* At most one process at a time is past OAuthStore.lease: no two renew the
\* connection together.
THEOREM OwnerIsSingle ==
  ASSUME "cleanup handoff" \notin Commands
  PROVE  Spec => []SingleOwner
<1>1. OwnerInv => SingleOwner
  BY DEF OwnerInv
<1> QED BY <1>1, OwnerInvariant, PTL

\* What RenewableStorage keeps of the state between its calls is what the file
\* holds: no set_tokens ever fails its comparison.
THEOREM OwnerIsCurrent ==
  ASSUME "cleanup handoff" \notin Commands
  PROVE  Spec => []KnownIsCurrent
<1>1. OwnerInv => KnownIsCurrent
  BY DEF OwnerInv
<1> QED BY <1>1, OwnerInvariant, PTL

-----------------------------------------------------------------------------
(* What becomes of tokens.                                                 *)

\* Where a process needs the storage lock.
Sectioned == {"open lock", "try lock", "locked", "rename"}

\* The token a process was given is good; the one it gave up, or finds
\* refused, is not; and a revocation is of what was named.
TokenMine(p) ==
  /\ task[p] = "erase" => pc[p] \in Sectioned
  /\ got[p] # 0 => got[p] \in live
  /\ task[p] = "tokens" => got[p] # 0
  /\ got[p] # 0 \/ task[p] = "erase" \/ pc[p] = "authorize" => known[p].token \notin live
  /\ pc[p] = "register" \/ task[p] = "register" => known[p].token = 0
  /\ pc[p] = "revoke" => cmd[p] = "revoke"
  /\ pc[p] \in {"connect", "revoke"} /\ cmd[p] = "revoke" => want[p] = known[p].generation

\* NoTokenForgotten where no copy counts, since no store is removed.
Kept == live \subseteq {store.token} \cup { got[p] : p \in Procs } \cup mishaps

\* Every token is accounted for.
TokenInv ==
  /\ directory = TRUE /\ store.token \in 0 .. minted
  /\ StoredTokenGood /\ Kept
  /\ \A p \in Procs : TokenMine(p)

\* A process about to replace the stored token, which it has given up.
Holder(p) == HasLease(p) /\ known[p].token = store.token /\ (got[p] # 0 \/ task[p] = "erase")

\* A step that leaves the store and the provider alone, and one of the owner.
Still(p) ==
  /\ UNCHANGED <<store, live, minted>>
  /\ Holder(p) => Holder(p)' \/ store.token \in mishaps'
  /\ got[p] \in {0, got'[p]} \cup mishaps'

Moved(p) ==
  /\ HasLease(p)
  /\ Holder(p)' \/ store'.token \in live' \cup {0} \cup mishaps'
  /\ live' \subseteq {store'.token, got'[p]} \cup mishaps'

\* What every step of a process keeps.
Advances(p) ==
  /\ TokenMine(p)' /\ directory' = TRUE /\ store'.token \in 0 .. minted' /\ mishaps \subseteq mishaps'
  /\ Still(p) \/ Moved(p)

\* A token that is issued is a new one.
LEMMA Fresh ==
  \A n \in Nat : n + 1 \notin 0 .. n /\ n + 1 # 0 /\ 0 .. n \subseteq 0 .. n + 1 /\ n + 1 \in 0 .. n + 1
OBVIOUS

\* Tokens start at 1; 0 stands for none.
LEMMA Interval == \A n \in Nat : 0 \notin 1 .. n /\ 1 .. n \subseteq 0 .. n /\ 0 \in 0 .. n
OBVIOUS

\* Only the owner has a token to store, and what is not stored or lost it has.
LEMMA OwnerHasAll ==
  ASSUME OwnerInv, TokenInv, NEW p \in Procs, HasLease(p)
  PROVE  live \subseteq {store.token, got[p]} \cup mishaps
<1>1. ASSUME NEW q \in Procs, q # p PROVE got[q] = 0
  <2>1. ~HasLease(q)
    BY <1>1 DEF OwnerInv, SingleOwner
  <2> QED BY <2>1 DEF OwnerInv, ClientKnown, Leased, HasLease
<1>2. 0 \notin live
  BY DEF OwnerInv, TypeOK
<1> QED BY <1>1, <1>2 DEF TokenInv, Kept

\* A process whose tokens are stored, or whose loss is noted, may end.
LEMMA OverIsStill ==
  ASSUME OwnerInv, TokenInv, NEW p \in Procs, NEW how \in Ended, Ends(p, how),
         UNCHANGED <<store, live, minted, directory>>,
         AtRisk(p) \subseteq mishaps', mishaps \subseteq mishaps'
  PROVE  Advances(p)
<1>1. pc'[p] = how /\ task'[p] = "none" /\ got'[p] = 0 /\ cmd'[p] = cmd[p]
  BY DEF OwnerInv, TypeOK, Ends, Forget, Goto
<1>2. TokenMine(p)'
  BY <1>1 DEF TokenMine, Ended
<1>3. Still(p)
  BY DEF Still, Holder, AtRisk
<1> QED BY <1>2, <1>3 DEF Advances, TokenInv

\* Outside of a section nothing is at risk.
LEMMA NothingAtRisk ==
  ASSUME OwnerInv, TokenInv, NEW p \in Procs, pc[p] \notin Sectioned \/ task[p] = "load"
  PROVE  AtRisk(p) = {}
BY DEF OwnerInv, ClientKnown, TokenInv, TokenMine, AtRisk, Sectioned

\* A move within the process.
LEMMA MoveIsStill ==
  ASSUME OwnerInv, TokenInv, NEW p \in Procs,
         UNCHANGED <<store, live, minted, mishaps, known, got>>, directory' = TRUE,
         leaseFd'[p] = leaseFd[p] \/ pc[p] \notin Sectioned,
         \/ pc[p] \in Sectioned /\ pc'[p] \in Sectioned /\ UNCHANGED <<task, cmd>>
         \/ /\ pc[p] \notin Sectioned
            /\ pc'[p] \notin {"register", "revoke", "connect", "authorize"}
            /\ task'[p] \in {task[p], "load"} \/ (pc[p] = "register" /\ task'[p] = "register")
         \/ /\ pc[p] = "connect" /\ UNCHANGED <<task, cmd, want>>
            /\ pc'[p] = "register" => known[p].token = 0
            /\ pc'[p] = "authorize" => known[p].token = 0
            /\ pc'[p] = "revoke" => cmd[p] = "revoke"
            /\ pc'[p] \notin {"connect"}
         \/ /\ pc[p] = "renew" /\ pc'[p] = "authorize" /\ UNCHANGED <<task, cmd>>
            /\ known[p].token \notin live
  PROVE  Advances(p)
<1>1. pc[p] \notin Sectioned => got[p] = 0 /\ task[p] # "erase"
  BY DEF OwnerInv, ClientKnown, TokenInv, TokenMine, Sectioned
<1>2. Still(p)
  <2>1. CASE pc[p] \in Sectioned
    BY <2>1 DEF Still, Holder, HasLease, Sectioned
  <2>2. CASE pc[p] \notin Sectioned
    BY <1>1, <2>2 DEF Still, Holder
  <2> QED BY <2>1, <2>2
<1>3. 0 \notin live
  BY DEF OwnerInv, TypeOK
<1>4. TokenMine(p)'
  BY <1>1, <1>3 DEF TokenInv, TokenMine, Sectioned
<1> QED BY <1>2, <1>4 DEF Advances, TokenInv

\* The types of what tokens depend on.
LEMMA TokenTypes ==
  ASSUME OwnerInv, TokenInv
  PROVE  /\ pc \in [Procs -> Labels] /\ task \in [Procs -> Tasks] /\ leaseFd \in [Procs -> Nat]
         /\ cmd \in [Procs -> Commands \cup {"none"}] /\ known \in [Procs -> State]
         /\ got \in [Procs -> Nat] /\ store \in State /\ minted \in Nat /\ 0 \notin live
         /\ live \subseteq 1 .. minted /\ directory = TRUE
<1>1. live \subseteq 1 .. minted /\ minted \in Nat
  BY DEF OwnerInv, TypeOK
<1>2. 0 \notin live
  BY <1>1, Interval
<1> QED BY <1>1, <1>2 DEF OwnerInv, TypeOK, TokenInv

\* Whoever writes, or calls the provider, has the lease and knows the store.
LEMMA ActsKnowing ==
  ASSUME OwnerInv, TokenInv, NEW p \in Procs,
         pc[p] \in { "rename", "connect", "renew", "register", "authorize", "work", "revoke" }
           \/ (pc[p] \in Sectioned /\ task[p] \notin {"load", "none"})
  PROVE  /\ HasLease(p) /\ leaseFd[p] # 0 /\ known[p] = store
         /\ live \subseteq {store.token, got[p]} \cup mishaps
<1>1. HasLease(p) /\ leaseFd[p] # 0
  BY DEF OwnerInv, Leased, HasLease, Sectioned
<1>2. pc[p] = "rename" => task[p] # "load"
  BY DEF OwnerInv, ClientKnown, Writes
<1>3. p \in Informed
  BY <1>1, <1>2 DEF Informed
<1> QED BY <1>1, <1>3, OwnerHasAll DEF OwnerInv, KnownIsCurrent

\* Outside of a section there is no token to store and nothing to erase.
LEMMA OutsideSections ==
  ASSUME OwnerInv, TokenInv, NEW p \in Procs, pc[p] \notin Sectioned
  PROVE  got[p] = 0 /\ task[p] \notin {"erase", "tokens"}
BY DEF OwnerInv, ClientKnown, TokenInv, TokenMine, Sectioned

\* What a process does to tokens in its step.
LEMMA TokenStep ==
  ASSUME "cleanup handoff" \notin Commands, OwnerInv, TokenInv, NEW p \in Procs, Step(p) \/ Crash(p)
  PROVE  Advances(p)
<1> DEFINE Quiet == UNCHANGED <<store, live, minted, directory>>
<1>a. /\ pc \in [Procs -> Labels] /\ task \in [Procs -> Tasks] /\ leaseFd \in [Procs -> Nat]
      /\ cmd \in [Procs -> Commands \cup {"none"}] /\ known \in [Procs -> State]
      /\ got \in [Procs -> Nat] /\ store \in State /\ minted \in Nat /\ 0 \notin live
      /\ live \subseteq 1 .. minted /\ directory = TRUE
  BY TokenTypes
<1>b. ASSUME Quiet, CallFails(p) \/ (\E how \in Ended : Ends(p, how) /\ mishaps' = mishaps \cup AtRisk(p))
      PROVE  Advances(p)
  BY <1>b, OverIsStill DEF CallFails, Ended
<1>c. ASSUME Quiet, pc[p] \notin Sectioned \/ task[p] = "load",
             NEW how \in Ended, Ends(p, how), UNCHANGED mishaps
      PROVE  Advances(p)
  BY <1>c, OverIsStill, NothingAtRisk
<1>d. ASSUME pc[p] \in { "rename", "connect", "renew", "register", "authorize", "work", "revoke" }
             \/ (pc[p] \in Sectioned /\ task[p] \notin {"load", "none"})
      PROVE  /\ HasLease(p) /\ leaseFd[p] # 0 /\ known[p] = store
             /\ live \subseteq {store.token, got[p]} \cup mishaps
  BY <1>d, ActsKnowing
<1>e. pc[p] \notin Sectioned => got[p] = 0 /\ task[p] \notin {"erase", "tokens"}
  BY OutsideSections
<1>f. pc[p] \notin Removal /\ task[p] # "cleanup" /\ cmd[p] # "cleanup handoff"
  BY DEF OwnerInv, NoRemoval
<1>1. CASE Crash(p)
  BY <1>1, <1>b DEF Crash, files, remote, Ended
<1>2. CASE LeaseTimesOut(p) \/ RequestFails(p) \/ TransferFails(p)
  BY <1>2, <1>c DEF LeaseTimesOut, RequestFails, TransferFails, Fails, files, remote, Ended, Sectioned
<1>3. CASE OpenFails(p)
  BY <1>3, <1>b DEF OpenFails, files, remote
<1>4. CASE Start(p)
  <2>1. UNCHANGED <<store, live, minted, mishaps, known, got, leaseFd, directory>> /\ pc[p] = "idle"
    BY <1>4 DEF Start, files, remote
  <2>2. \/ pc'[p] = "open lock" /\ task'[p] = "load"
        \/ pc'[p] \in {"failed", "open lease"} /\ task'[p] = task[p]
    BY <1>4, <1>a DEF Start, Section, Goto
  <2> QED BY <1>a, <2>1, <2>2, MoveIsStill DEF Sectioned
<1>5. CASE OpenLease(p)
  <2>1. /\ UNCHANGED <<store, live, minted, mishaps, known, got>> /\ directory' = TRUE
        /\ pc[p] = "open lease" /\ pc'[p] = "await lease" /\ task'[p] = task[p]
    BY <1>5, <1>a DEF OpenLease, Goto, remote
  <2> QED BY <2>1, MoveIsStill DEF Sectioned
<1>6. CASE TakeLease(p) \/ Register(p)
  <2>1. /\ UNCHANGED <<store, live, minted, mishaps, known, got, leaseFd, directory>>
        /\ pc'[p] = "open lock"
        /\ (pc[p] = "await lease" /\ task'[p] = "load") \/ (pc[p] = "register" /\ task'[p] = "register")
    BY <1>6, <1>a DEF TakeLease, Register, Section, Goto, remote, files
  <2> QED BY <1>a, <2>1, MoveIsStill DEF Sectioned
<1>7. CASE OpenLock(p)
  <2>1. /\ UNCHANGED <<store, live, minted, mishaps, known, got, leaseFd, task, cmd>> /\ directory' = TRUE
        /\ pc[p] = "open lock" /\ pc'[p] = "try lock"
    BY <1>7, <1>a DEF OpenLock, Goto, remote
  <2> QED BY <2>1, MoveIsStill DEF Sectioned
<1>8. CASE TryLock(p)
  <2>1. CASE Goto(p, "locked") /\ UNCHANGED <<cmd, task, leaseFd, lockFd, known, got, want, source, renewals, mishaps>>
    <3>1. /\ UNCHANGED <<store, live, minted, mishaps, known, got, leaseFd, task, cmd, directory>>
          /\ pc[p] = "try lock" /\ pc'[p] = "locked"
      BY <1>8, <1>a, <2>1 DEF TryLock, Goto, remote, files
    <3> QED BY <1>a, <3>1, MoveIsStill DEF Sectioned
  <2>2. CASE CallFails(p)
    BY <1>8, <2>2, <1>b DEF TryLock, files, remote
  <2> QED BY <1>8, <2>1, <2>2 DEF TryLock
<1>9. CASE Load(p)
  <2>1. pc[p] = "locked" /\ task[p] = "load" /\ Quiet
    BY <1>9 DEF Load, files, remote
  <2>2. CASE \E how \in Ended : Ends(p, how) /\ UNCHANGED mishaps
    BY <2>1, <2>2, <1>c
  <2>3. CASE Usable(p, store) /\ known' = [known EXCEPT ![p] = store]
             /\ Goto(p, IF cmd[p] \in Handoffs THEN "read source" ELSE "connect")
             /\ UNCHANGED <<cmd, task, leaseFd, got, want, source, renewals, mishaps>>
    <3>1. got[p] = 0
      BY <2>1 DEF OwnerInv, ClientKnown
    <3>2. pc'[p] \in {"read source", "connect"} /\ known'[p] = store
      BY <1>a, <2>3 DEF Goto
    <3>3. cmd[p] = "revoke" => want[p] = store.generation
      <4> SUFFICES ASSUME cmd[p] = "revoke" PROVE want[p] = store.generation
        OBVIOUS
      <4>1. cmd[p] \notin Handoffs /\ cmd[p] # "session" /\ cmd[p] # "bootstrap"
        BY DEF Handoffs
      <4>2. Usable(p, store) = Revocable(p, store)
        BY <4>1 DEF Usable
      <4>3. Revocable(p, store)
        BY <2>3, <4>2
      <4> QED BY <4>3 DEF Revocable
    <3>4. TokenMine(p)'
      <4>1. task'[p] = "load" /\ got'[p] = 0 /\ cmd'[p] = cmd[p] /\ want'[p] = want[p]
        BY <2>1, <2>3, <3>1
      <4>2. (got[p] # 0)' = FALSE /\ (task[p] = "erase")' = FALSE /\ (task[p] = "register")' = FALSE
        BY <4>1
      <4> QED BY <3>2, <3>3, <4>1, <4>2 DEF TokenMine
    <3>5. Still(p)
      BY <2>1, <2>3, <3>1 DEF Still, Holder
    <3> QED BY <2>1, <2>3, <3>4, <3>5 DEF Advances, TokenInv
  <2> QED BY <1>9, <2>2, <2>3 DEF Load, Fails, Ended
<1>10. CASE Compare(p)
  <2>1. pc[p] = "locked" /\ task[p] \in Writes /\ Quiet
    BY <1>10, <1>a DEF Compare, remote
  <2>2. Current(p) /\ directory
    BY <1>a, <1>d, <2>1 DEF Current, Sectioned, Writes
  <2>3. UNCHANGED <<mishaps, known, got, leaseFd, task, cmd>> /\ pc'[p] = "rename"
    BY <1>10, <1>a, <2>2 DEF Compare, Goto
  <2> QED BY <1>a, <2>1, <2>3, MoveIsStill DEF Sectioned
<1>11. CASE pc[p] = "rename" /\ Renamed(p) /\ (Rename(p) \/ (RenameFails(p) /\ Fails(p)))
  <2>1. /\ store' = NewState(p) /\ task[p] \in Writes /\ HasLease(p) /\ known[p] = store
        /\ live \subseteq {store.token, got[p]} \cup mishaps
    BY <1>11, <1>d DEF Renamed, OwnerInv, ClientKnown
  <2>2. store'.token = IF task[p] = "tokens" THEN got[p] ELSE 0
    BY <2>1 DEF NewState
  <2>3. /\ got[p] # 0 => got[p] \in live
        /\ task[p] # "tokens" => got[p] = 0
        /\ task[p] = "register" => store.token = 0
        /\ task[p] \in {"tokens", "erase"} => store.token \notin live
    BY <2>1 DEF TokenInv, TokenMine, OwnerInv, ClientKnown
  <2>4. live \subseteq {store'.token} \cup mishaps
    BY <1>a, <2>1, <2>2, <2>3 DEF Writes
  <2>5. store'.token \in live \cup {0} /\ store'.token \in 0 .. minted
    <3>1. CASE store'.token = 0
      BY <1>a, <3>1, Interval
    <3>2. CASE store'.token # 0
      <4>1. store'.token = got[p] /\ got[p] \in live
        BY <2>2, <2>3, <3>2
      <4>2. live \subseteq 0 .. minted
        BY <1>a, Interval
      <4> QED BY <4>1, <4>2
    <3> QED BY <3>1, <3>2
  <2>6. ASSUME UNCHANGED <<live, minted, directory, mishaps>>, TokenMine(p)' PROVE Advances(p)
    BY <1>a, <2>1, <2>4, <2>5, <2>6 DEF Advances, Moved
  <2>7. ASSUME NEW how \in Ended, Ends(p, how) PROVE TokenMine(p)'
    BY <1>a, <2>7 DEF Ends, Forget, Goto, TokenMine, Ended
  <2>8. CASE Rename(p)
    <3>1. UNCHANGED <<live, minted, directory, mishaps>>
      BY <2>8 DEF Rename, remote
    <3>2. CASE task[p] = "erase"
      BY <2>6, <2>7, <2>8, <3>1, <3>2 DEF Rename, Ended
    <3>3. CASE task[p] # "erase"
      <4>1. /\ known'[p] = store' /\ got'[p] = 0 /\ task'[p] = "none"
            /\ pc'[p] = IF task[p] = "tokens" THEN "work" ELSE "authorize"
        BY <1>a, <2>8, <3>3 DEF Rename, Remember, Goto
      <4>2. task[p] # "tokens" => known'[p].token = 0
        BY <2>2, <4>1
      <4>3. TokenMine(p)'
        BY <1>a, <3>1, <4>1, <4>2 DEF TokenMine
      <4> QED BY <2>6, <3>1, <4>3
    <3> QED BY <3>2, <3>3
  <2>9. CASE RenameFails(p) /\ Fails(p)
    BY <2>6, <2>7, <2>9 DEF RenameFails, Fails, remote, Ended
  <2> QED BY <1>11, <2>8, <2>9
<1>12. CASE RenameFails(p) /\ UNCHANGED store /\ CallFails(p)
  BY <1>12, <1>b DEF RenameFails, remote
<1>13. CASE Connect(p)
  <2>1. /\ UNCHANGED <<store, live, minted, mishaps, known, got, leaseFd, task, cmd, want, directory>>
        /\ pc[p] = "connect"
        /\ pc'[p] = IF cmd[p] = "revoke" THEN "revoke"
                    ELSE IF known[p].token # 0 THEN "renew"
                    ELSE IF known[p].client THEN "authorize" ELSE "register"
    BY <1>13, <1>a DEF Connect, Goto, files, remote
  <2> QED BY <1>a, <2>1, MoveIsStill DEF Sectioned
<1>14. CASE RenewalRefused(p)
  <2>1. Quiet /\ pc[p] = "renew" /\ known[p].token \notin live
    BY <1>14 DEF RenewalRefused, files, remote
  <2>2. CASE Fails(p)
    BY <2>1, <2>2, <1>c DEF Fails, Ended, Sectioned
  <2>3. CASE ~Fails(p)
    <3>1. UNCHANGED <<mishaps, known, got, leaseFd, task, cmd>> /\ pc'[p] = "authorize"
      BY <1>14, <1>a, <2>3 DEF RenewalRefused, Goto
    <3> QED BY <1>a, <2>1, <3>1, MoveIsStill DEF Sectioned
  <2> QED BY <2>2, <2>3
<1>15. CASE Renew(p) \/ Authorize(p)
  <2>1. /\ UNCHANGED <<store, directory, mishaps, known, leaseFd, cmd>>
        /\ pc[p] \in {"renew", "authorize"} /\ pc'[p] = "open lock" /\ task'[p] = "tokens"
        /\ minted' = minted + 1 /\ got'[p] = minted + 1
    BY <1>15, <1>a DEF Renew, Authorize, Section, Goto, files
  <2>2. /\ known[p] = store /\ HasLease(p) /\ leaseFd[p] # 0 /\ got[p] = 0
        /\ live \subseteq {store.token} \cup mishaps /\ store.token \in 0 .. minted
        /\ pc[p] = "authorize" => store.token \notin live
    BY <1>a, <1>d, <1>e, <2>1 DEF TokenInv, TokenMine, Sectioned
  <2>3. live' = (live \ {store.token}) \cup {minted + 1}
    BY <1>15, <2>1, <2>2 DEF Renew, Authorize
  <2>4. store.token # minted + 1 /\ minted + 1 # 0 /\ store.token \in 0 .. minted + 1
    <3>1. minted + 1 \notin 0 .. minted /\ minted + 1 # 0 /\ 0 .. minted \subseteq 0 .. minted + 1
      BY <1>a, Fresh
    <3> QED BY <2>2, <3>1
  <2>5. TokenMine(p)'
    BY <2>1, <2>2, <2>3, <2>4 DEF TokenMine, Sectioned
  <2>6. Holder(p)'
    BY <2>1, <2>2, <2>4 DEF Holder, HasLease
  <2>7. live' \subseteq {store'.token, got'[p]} \cup mishaps'
    BY <2>1, <2>2, <2>3
  <2> QED BY <1>a, <2>1, <2>2, <2>4, <2>5, <2>6, <2>7 DEF Advances, Moved
<1>16. CASE RenewalLost(p) \/ AuthorizationLost(p)
  <2>1. /\ UNCHANGED <<store, directory>> /\ pc[p] \in {"renew", "authorize"} /\ minted' = minted + 1
        /\ Ends(p, "failed")
    BY <1>16 DEF RenewalLost, AuthorizationLost, files
  <2>2. /\ known[p] = store /\ HasLease(p) /\ got[p] = 0
        /\ live \subseteq {store.token} \cup mishaps /\ store.token \in 0 .. minted
    BY <1>a, <1>d, <1>e, <2>1 DEF TokenInv, Sectioned
  <2>3. /\ live' \subseteq (live \ {store.token}) \cup {store.token, minted + 1}
        /\ live \ {store.token} \subseteq live'
        /\ mishaps \cup {minted + 1} \subseteq mishaps'
        /\ store.token \in live' \cup mishaps' \/ live' = live \cup {minted + 1}
    BY <1>16, <2>2 DEF RenewalLost, AuthorizationLost
  <2>4. store.token \in live \cup {0} \cup mishaps
    BY <1>e, <2>1, <2>2 DEF TokenInv, StoredTokenGood, OwnerInv, SingleOwner, Sectioned
  <2>5. store.token \in 0 .. minted'
    <3>1. 0 .. minted \subseteq 0 .. minted + 1
      BY <1>a, Fresh
    <3> QED BY <2>1, <2>2, <3>1
  <2>6. TokenMine(p)'
    BY <1>a, <2>1 DEF Ends, Forget, Goto, TokenMine
  <2>7. Moved(p)
    BY <2>1, <2>2, <2>3, <2>4 DEF Moved
  <2> QED BY <1>a, <2>1, <2>3, <2>5, <2>6, <2>7 DEF Advances
<1>17. CASE Revoke(p)
  <2>1. /\ UNCHANGED <<store, directory, minted>> /\ pc[p] = "revoke" /\ live' = live \ {known[p].token}
        /\ \/ Section(p, "erase") /\ UNCHANGED <<cmd, leaseFd, known, got, mishaps>>
           \/ Ends(p, "failed") /\ mishaps' = mishaps \cup {known[p].token}
    BY <1>17 DEF Revoke, files
  <2>2. /\ known[p] = store /\ HasLease(p) /\ leaseFd[p] # 0 /\ got[p] = 0
        /\ live \subseteq {store.token} \cup mishaps
    BY <1>a, <1>d, <1>e, <2>1 DEF Sectioned
  <2>3. CASE Section(p, "erase") /\ UNCHANGED <<cmd, leaseFd, known, got, mishaps>>
    <3>1. pc'[p] = "open lock" /\ task'[p] = "erase"
      BY <1>a, <2>3 DEF Section, Goto
    <3>2. Holder(p)' /\ TokenMine(p)'
      BY <2>1, <2>2, <2>3, <3>1 DEF Holder, HasLease, TokenMine, Sectioned
    <3>3. live' \subseteq {store'.token, got'[p]} \cup mishaps'
      BY <2>1, <2>2, <2>3
    <3> QED BY <1>a, <2>1, <2>2, <2>3, <3>2, <3>3 DEF Advances, Moved, TokenInv
  <2>4. CASE Ends(p, "failed") /\ mishaps' = mishaps \cup {known[p].token}
    <3>1. TokenMine(p)'
      BY <1>a, <2>4 DEF Ends, Forget, Goto, TokenMine
    <3>2. Moved(p)
      BY <2>1, <2>2, <2>4 DEF Moved
    <3> QED BY <1>a, <2>1, <2>4, <3>1, <3>2 DEF Advances, TokenInv
  <2> QED BY <2>1, <2>3, <2>4
<1>18. CASE Work(p)
  <2>1. Quiet /\ pc[p] = "work" /\ UNCHANGED mishaps
    BY <1>18 DEF Work, files, remote
  <2>2. CASE Ends(p, "done")
    BY <2>1, <2>2, <1>c DEF Ended, Sectioned
  <2>3. CASE ~Ends(p, "done")
    <3>1. UNCHANGED <<known, got, leaseFd, task, cmd>> /\ pc'[p] = "renew"
      BY <1>18, <1>a, <2>3 DEF Work, Goto
    <3> QED BY <1>a, <2>1, <3>1, MoveIsStill DEF Sectioned
  <2> QED BY <2>2, <2>3
<1>19. CASE ReadSource(p) \/ Transfer(p)
  <2>1. Quiet /\ pc[p] \in {"read source", "transfer"} /\ UNCHANGED mishaps
    BY <1>19 DEF ReadSource, Transfer, Fails, files, remote
  <2>2. CASE Fails(p)
    BY <2>1, <2>2, <1>c DEF Fails, Ended, Sectioned
  <2>3. CASE ~Fails(p)
    <3>1. UNCHANGED <<known, got, leaseFd, task, cmd>> /\ pc'[p] \in {"transfer", "validate"}
      BY <1>19, <1>a, <2>3 DEF ReadSource, Transfer, Goto
    <3> QED BY <1>a, <2>1, <3>1, MoveIsStill DEF Sectioned
  <2> QED BY <2>2, <2>3
<1>20. CASE Validate(p)
  <2>1. Quiet /\ pc[p] = "validate" /\ UNCHANGED mishaps
    BY <1>20 DEF Validate, files, remote
  <2>2. Ends(p, "done") \/ Ends(p, "failed")
    BY <1>20, <1>f DEF Validate
  <2> QED BY <2>1, <2>2, <1>c DEF Ended, Sectioned
<1>21. ~(CheckSource(p) \/ UnlinkState(p) \/ UnlinkLock(p) \/ UnlinkLease(p) \/ RemoveDirectory(p))
  BY <1>f DEF Removal, CheckSource, UnlinkState, UnlinkLock, UnlinkLease, RemoveDirectory
<1> QED
  <2>1. Rename(p) => pc[p] = "rename" /\ Renamed(p)
    BY DEF Rename
  <2>2. ASSUME RenameFails(p)
        PROVE  (UNCHANGED store /\ CallFails(p)) \/ (pc[p] = "rename" /\ Renamed(p) /\ Fails(p))
    BY <2>2 DEF RenameFails
  <2>3. ASSUME Rename(p) PROVE Advances(p)
    BY <1>11, <2>1, <2>3
  <2>4. ASSUME RenameFails(p) PROVE Advances(p)
    <3>1. CASE UNCHANGED store /\ CallFails(p)
      BY <1>12, <2>4, <3>1
    <3>2. CASE pc[p] = "rename" /\ Renamed(p) /\ Fails(p)
      BY <1>11, <2>4, <3>2
    <3> QED BY <2>2, <2>4, <3>1, <3>2
  <2> QED
    BY <1>1, <1>2, <1>3, <1>4, <1>5, <1>6, <1>7, <1>8, <1>9, <1>10, <1>13, <1>14, <1>15, <1>16, <1>17,
       <1>18, <1>19, <1>20, <1>21, <2>3, <2>4 DEF Step

\* What an operator asked for stays what he asked for.
LEMMA WantKept ==
  ASSUME TypeOK, NEW p \in Procs, Step(p) \/ Crash(p), NEW q \in Procs, q # p
  PROVE  want'[q] = want[q]
<1>a. want \in [Procs -> Nat]
  BY DEF TypeOK
<1>1. CASE Start(p)
  <2>1. want' = want \/ \E g \in 1 .. issued : want' = [want EXCEPT ![p] = g]
    BY <1>1 DEF Start
  <2> QED BY <1>a, <2>1
<1>2. ASSUME NEW how, Ends(p, how) PROVE want' = want
  BY <1>2 DEF Ends, Forget
<1>3. ASSUME ~Start(p) PROVE want' = want
  BY <1>2, <1>3 DEF Step, Crash, Fails, CallFails, OpenLease, TakeLease, LeaseTimesOut, OpenLock,
     OpenFails, TryLock, Load, Compare, Rename, RenameFails, Connect, Renew, RenewalLost,
     RenewalRefused, Register, Authorize, AuthorizationLost, Work, Revoke, RequestFails, ReadSource,
     Transfer, TransferFails, Validate, CheckSource, UnlinkState, UnlinkLock, UnlinkLease,
     RemoveDirectory
<1> QED BY <1>1, <1>3

\* The fate of tokens is settled between the owner and the provider.
LEMMA TokenInvStep ==
  ASSUME "cleanup handoff" \notin Commands, OwnerInv, TokenInv, [Next]_vars
  PROVE  TokenInv'
<1>1. CASE UNCHANGED vars
  BY <1>1 DEF TokenInv, StoredTokenGood, Kept, TokenMine, HasLease, vars, files, remote, process
<1>2. ASSUME NEW p \in Procs, Step(p) \/ Crash(p) PROVE TokenInv'
  <2>a. Advances(p)
    BY <1>2, TokenStep
  <2>b. ASSUME NEW q \in Procs, q # p
        PROVE  /\ pc'[q] = pc[q] /\ task'[q] = task[q] /\ cmd'[q] = cmd[q] /\ want'[q] = want[q]
               /\ leaseFd'[q] = leaseFd[q] /\ known'[q] = known[q] /\ got'[q] = got[q]
    BY <1>2, <2>b, OthersUnchanged, WantKept DEF OwnerInv
  <2>c. ASSUME NEW q \in Procs, q # p, HasLease(q) PROVE Still(p)
    BY <2>a, <2>c DEF Advances, Moved, OwnerInv, SingleOwner
  <2>1. directory' = TRUE /\ store'.token \in 0 .. minted' /\ mishaps \subseteq mishaps'
    BY <2>a DEF Advances
  <2>2. ASSUME NEW q \in Procs PROVE TokenMine(q)'
    <3>1. CASE q = p
      BY <2>a, <3>1 DEF Advances
    <3>2. CASE q # p
      <4>1. TokenMine(q)
        BY DEF TokenInv
      <4>2. CASE HasLease(q)
        <5>1. live' = live
          BY <2>c, <3>2, <4>2 DEF Still
        <5> QED BY <2>b, <3>2, <4>1, <5>1 DEF TokenMine
      <4>3. CASE ~HasLease(q)
        <5>1. got[q] = 0 /\ task[q] # "erase" /\ pc[q] # "authorize"
          BY <4>1, <4>3 DEF OwnerInv, ClientKnown, Leased, HasLease, TokenMine, Sectioned
        <5> QED BY <2>b, <3>2, <4>1, <5>1 DEF TokenMine
      <4> QED BY <4>2, <4>3
    <3> QED BY <3>1, <3>2
  <2>3. StoredTokenGood'
    <3>1. Holder(p)' => StoredTokenGood'
      BY DEF Holder, StoredTokenGood
    <3>2. CASE Moved(p)
      BY <3>1, <3>2 DEF Moved, StoredTokenGood
    <3>3. CASE Still(p)
      <4>1. CASE store.token \in live \cup {0} \cup mishaps
        BY <2>1, <3>3, <4>1 DEF Still, StoredTokenGood
      <4>2. CASE Holder(p)
        BY <2>1, <3>1, <3>3, <4>2 DEF Still, StoredTokenGood
      <4>3. ASSUME NEW q \in Procs, q # p, Holder(q) PROVE StoredTokenGood'
        BY <2>b, <3>3, <4>3 DEF Still, Holder, HasLease, StoredTokenGood
      <4>4. store.token \in live \cup {0} \cup mishaps \/ \E q \in Procs : Holder(q)
        BY DEF TokenInv, StoredTokenGood, Holder
      <4> QED BY <4>1, <4>2, <4>3, <4>4
    <3> QED BY <2>a, <3>2, <3>3 DEF Advances
  <2>4. Kept'
    <3> SUFFICES ASSUME NEW t \in live', t # store'.token, t \notin mishaps'
                 PROVE  \E q \in Procs : t = got'[q]
      BY DEF Kept
    <3>1. CASE Moved(p)
      BY <3>1 DEF Moved
    <3>2. CASE Still(p)
      <4>1. PICK q \in Procs : t = got[q]
        BY <2>1, <3>2 DEF Still, TokenInv, Kept
      <4>2. CASE q # p
        BY <2>b, <4>1, <4>2
      <4>3. CASE q = p
        <5>1. t # 0
          <6>1. live \subseteq 1 .. minted /\ minted \in Nat
            BY DEF OwnerInv, TypeOK
          <6> QED BY <3>2, <6>1, Interval DEF Still
        <5> QED BY <3>2, <4>1, <4>3, <5>1 DEF Still
      <4> QED BY <4>2, <4>3
    <3> QED BY <2>a, <3>1, <3>2 DEF Advances
  <2> QED BY <2>1, <2>2, <2>3, <2>4 DEF TokenInv
<1> QED BY <1>1, <1>2 DEF Next, AllEnded

\* A fresh directory has no token, and a finished bootstrap left a good one.
LEMMA TokenInvInit == Init => TokenInv
<1> SUFFICES ASSUME Init PROVE TokenInv
  OBVIOUS
<1>1. store.token \in 0 .. minted /\ live \subseteq {store.token} /\ store.token \in live \cup {0}
  BY DEF Init, Missing
<1>2. ASSUME NEW p \in Procs PROVE TokenMine(p)
  BY DEF Init, TokenMine
<1> QED BY <1>1, <1>2 DEF Init, TokenInv, StoredTokenGood, Kept

\* Both invariants together.
THEOREM TokenInvariant ==
  ASSUME "cleanup handoff" \notin Commands
  PROVE  Spec => [](OwnerInv /\ TokenInv)
<1>1. Init => OwnerInv /\ TokenInv
  BY InvInit, TokenInvInit
<1>2. OwnerInv /\ TokenInv /\ [Next]_vars => (OwnerInv /\ TokenInv)'
  BY InvStep, TokenInvStep
<1> QED BY <1>1, <1>2, PTL DEF Spec

\* A token the provider accepts is stored, or about to be, or explained.
THEOREM NothingIsForgotten ==
  ASSUME "cleanup handoff" \notin Commands
  PROVE  Spec => []NoTokenForgotten
<1>1. TokenInv => NoTokenForgotten
  BY DEF TokenInv, Kept, NoTokenForgotten
<1> QED BY <1>1, TokenInvariant, PTL

\* revoke_command revokes the generation it was given: nobody replaces the
\* state between its load and its request.
THEOREM RevocationIsNamed ==
  ASSUME "cleanup handoff" \notin Commands
  PROVE  Spec => RevokedAsNamed
<1>1. OwnerInv /\ TokenInv /\ [Next]_vars =>
        [\A p \in Procs : pc[p] = "revoke" /\ live' # live => want[p] = store.generation]_vars
  <2> SUFFICES ASSUME OwnerInv, TokenInv, NEW p \in Procs, pc[p] = "revoke"
               PROVE  want[p] = store.generation
    OBVIOUS
  <2>1. p \in Informed
    BY DEF OwnerInv, Leased, HasLease, Informed
  <2> QED BY <2>1 DEF OwnerInv, KnownIsCurrent, TokenInv, TokenMine
<1> QED BY <1>1, TokenInvariant, PTL DEF Spec, RevokedAsNamed

-----------------------------------------------------------------------------
(* The connection that the store implements.                               *)

\* What the connection is to its owner, and when it has none.
PhaseOf(p) ==
  IF store.token = 0 THEN "none" ELSE IF store.token \in live THEN "good"
  ELSE IF got[p] # 0 THEN "renewing" ELSE IF task[p] = "erase" THEN "withdrawn" ELSE "lost"

Settled == IF store.token = 0 THEN "none" ELSE IF store.token \in live THEN "good" ELSE "lost"

Mapped ==
  /\ \A p \in Procs : HasLease(p) => Owners = {p} /\ Phase = PhaseOf(p)
  /\ Owners = {} => Phase = Settled
  /\ \A p \in Procs : ~HasLease(p) => got[p] = 0 /\ task[p] # "erase"

\* The owner alone has anything in hand.
LEMMA OwnersMap == ASSUME OwnerInv, TokenInv PROVE Mapped
<1>1. ASSUME NEW p \in Procs, ~HasLease(p) PROVE got[p] = 0 /\ task[p] # "erase"
  BY <1>1 DEF OwnerInv, Leased, ClientKnown, HasLease, TokenInv, TokenMine, Sectioned
<1>2. ASSUME NEW p \in Procs, HasLease(p) PROVE Owners = {p} /\ Phase = PhaseOf(p)
  <2>1. \A q \in Procs \ {p} : ~HasLease(q)
    BY <1>2 DEF OwnerInv, SingleOwner
  <2>2. Owners = {p}
    BY <1>2, <2>1 DEF Owners
  <2>3. \A q \in Procs \ {p} : got[q] = 0 /\ task[q] # "erase"
    BY <1>1, <2>1
  <2>4. /\ (\E q \in Procs : got[q] # 0) <=> got[p] # 0
        /\ (\E q \in Procs : task[q] = "erase") <=> task[p] = "erase"
    BY <2>3
  <2> QED BY <2>2, <2>4 DEF Phase, PhaseOf
<1>3. ASSUME Owners = {} PROVE Phase = Settled
  <2>1. \A p \in Procs : got[p] = 0 /\ task[p] # "erase"
    BY <1>1, <1>3 DEF Owners
  <2> QED BY <2>1 DEF Phase, Settled
<1> QED BY <1>1, <1>2, <1>3 DEF Mapped

\* What a step of a process is to the connection: it rests, takes it, is given
\* the next token, loses an answer, revokes it, or stores.
Rests(p) ==
  /\ UNCHANGED <<store, live>>
  /\ HasLease(p)' => HasLease(p) /\ got'[p] = got[p] /\ (task'[p] = "erase" <=> task[p] = "erase")

Takes(p) ==
  /\ UNCHANGED <<store, live>> /\ HasLease(p)' /\ \A q \in Procs : ~HasLease(q)
  /\ got'[p] = 0 /\ task'[p] # "erase"

IsGiven(p) ==
  /\ HasLease(p) /\ HasLease(p)' /\ UNCHANGED store /\ got[p] = 0 /\ task[p] # "erase"
  /\ store.token \notin live' /\ got'[p] # 0

Loses(p) ==
  /\ HasLease(p) /\ ~HasLease(p)' /\ UNCHANGED store
  /\ store.token \in live' => store.token \in live

Revokes(p) ==
  /\ HasLease(p) /\ HasLease(p)' /\ UNCHANGED store /\ got[p] = 0 /\ got'[p] = 0
  /\ store.token \notin live' /\ task[p] # "erase" /\ task'[p] = "erase"

Stores(p) ==
  /\ HasLease(p) /\ UNCHANGED live
  /\ \/ got[p] # 0 /\ store.token \notin live /\ store'.token \in live /\ store'.token # 0
     \/ store.token = 0 /\ store'.token = 0
     \/ /\ task[p] = "erase" /\ got[p] = 0 /\ store.token \notin live /\ store'.token = 0
        /\ ~HasLease(p)'

Deed(p) == Rests(p) \/ Takes(p) \/ IsGiven(p) \/ Loses(p) \/ Revokes(p) \/ Stores(p)

\* Each of these is a step of the connection, or none.
LEMMA DeedMaps ==
  ASSUME TypeOK, Mapped, Mapped', NEW p \in Procs, Step(p) \/ Crash(p), Deed(p)
  PROVE  Link!Next \/ UNCHANGED <<Owners, Phase>>
<1>a. \A q \in Procs \ {p} : /\ HasLease(q)' <=> HasLease(q)
                             /\ got'[q] = got[q] /\ task'[q] = task[q]
  BY OthersUnchanged DEF HasLease
<1>b. HasLease(p) => Owners = {p} /\ Phase = PhaseOf(p) /\ \A q \in Procs \ {p} : ~HasLease(q)
  BY DEF Mapped, Owners
<1>c. HasLease(p)' => Owners' = {p} /\ Phase' = PhaseOf(p)'
  BY DEF Mapped
<1>d. HasLease(p) /\ ~HasLease(p)' => Owners' = {} /\ Phase' = Settled'
  <2> SUFFICES ASSUME HasLease(p), ~HasLease(p)' PROVE Owners' = {} /\ Phase' = Settled'
    OBVIOUS
  <2>1. \A q \in Procs : ~HasLease(q)'
    BY <1>a, <1>b
  <2>2. Owners' = {}
    BY <2>1 DEF Owners
  <2> QED BY <2>2 DEF Mapped
<1>1. CASE Rests(p)
  <2>1. CASE HasLease(p)'
    BY <1>1, <1>b, <1>c, <2>1 DEF Rests, PhaseOf
  <2>2. CASE HasLease(p) /\ ~HasLease(p)'
    <3>1. Owners = {p} /\ Phase = PhaseOf(p) /\ Owners' = {} /\ Phase' = Settled /\ UNCHANGED <<store, live>>
      BY <1>1, <1>b, <1>d, <2>2 DEF Rests, Settled
    <3>2. CASE Phase \in {"renewing", "withdrawn"}
      <4>1. Phase' = "lost"
        BY <3>1, <3>2 DEF PhaseOf, Settled
      <4>2. Link!GiveUp(p)
        BY <3>1, <3>2, <4>1 DEF Link!GiveUp, Link!Leave
      <4> QED BY <4>2 DEF Link!Next
    <3>3. CASE Phase \notin {"renewing", "withdrawn"}
      <4>1. Phase' = Phase
        BY <3>1, <3>3 DEF PhaseOf, Settled
      <4>2. Link!Close(p)
        BY <3>1, <3>3, <4>1 DEF Link!Close, Link!Leave
      <4> QED BY <4>2 DEF Link!Next
    <3> QED BY <3>2, <3>3
  <2>3. CASE ~HasLease(p) /\ ~HasLease(p)'
    <3>1. \A q \in Procs : /\ HasLease(q)' <=> HasLease(q)
                           /\ got'[q] = got[q] /\ (task'[q] = "erase" <=> task[q] = "erase")
      BY <1>a, <2>3 DEF Mapped
    <3>2. Owners' = Owners
      BY <3>1 DEF Owners
    <3>3. UNCHANGED <<store, live>>
      BY <1>1 DEF Rests
    <3>4. (\E q \in Procs : got'[q] # 0) <=> (\E q \in Procs : got[q] # 0)
      BY <3>1
    <3>5. (\E q \in Procs : task'[q] = "erase") <=> (\E q \in Procs : task[q] = "erase")
      BY <3>1
    <3> QED BY <3>2, <3>3, <3>4, <3>5 DEF Phase
  <2> QED BY <1>1, <2>1, <2>2, <2>3 DEF Rests
<1>2. CASE Takes(p)
  <2>1. Owners = {} /\ Phase = Settled
    BY <1>2 DEF Takes, Owners, Mapped
  <2>2. Owners' = {p} /\ Phase' = Phase
    BY <1>2, <1>c, <2>1 DEF Takes, PhaseOf, Settled
  <2>3. Link!Open(p)
    BY <2>1, <2>2 DEF Link!Open
  <2> QED BY <2>3 DEF Link!Next
<1>3. CASE IsGiven(p)
  <2>1. Owners = {p} /\ Owners' = {p} /\ Phase = PhaseOf(p) /\ Phase' = PhaseOf(p)'
    BY <1>3, <1>b, <1>c DEF IsGiven
  <2>2. CASE store.token = 0
    BY <1>3, <2>1, <2>2 DEF IsGiven, PhaseOf
  <2>3. CASE store.token # 0
    <3>1. Phase \in {"good", "lost"} /\ Phase' = "renewing"
      BY <1>3, <2>1, <2>3 DEF IsGiven, PhaseOf
    <3>2. Link!Renew(p)
      BY <2>1, <3>1 DEF Link!Renew, Link!Use
    <3> QED BY <3>2 DEF Link!Next
  <2> QED BY <2>2, <2>3
<1>4. CASE Loses(p)
  <2>1. Owners = {p} /\ Owners' = {} /\ Phase = PhaseOf(p) /\ Phase' = Settled'
    BY <1>4, <1>b, <1>d DEF Loses
  <2>2. CASE Phase' = "lost"
    <3>1. Phase # "none"
      BY <1>4, <2>1, <2>2 DEF Loses, PhaseOf, Settled
    <3>2. Link!GiveUp(p)
      BY <2>1, <2>2, <3>1 DEF Link!GiveUp, Link!Leave
    <3> QED BY <3>2 DEF Link!Next
  <2>3. CASE Phase' # "lost"
    <3>1. Phase' = Phase /\ Phase \in {"none", "good"}
      BY <1>4, <2>1, <2>3 DEF Loses, PhaseOf, Settled
    <3>2. Link!Close(p)
      BY <2>1, <3>1 DEF Link!Close, Link!Leave
    <3> QED BY <3>2 DEF Link!Next
  <2> QED BY <2>2, <2>3
<1>5. CASE Revokes(p)
  <2>1. Owners = {p} /\ Owners' = {p} /\ Phase = PhaseOf(p) /\ Phase' = PhaseOf(p)'
    BY <1>5, <1>b, <1>c DEF Revokes
  <2>2. CASE store.token = 0
    BY <1>5, <2>1, <2>2 DEF Revokes, PhaseOf
  <2>3. CASE store.token # 0
    <3>1. Phase \in {"good", "lost"} /\ Phase' = "withdrawn"
      BY <1>5, <2>1, <2>3 DEF Revokes, PhaseOf
    <3>2. Link!Withdraw(p)
      BY <2>1, <3>1 DEF Link!Withdraw, Link!Use
    <3> QED BY <3>2 DEF Link!Next
  <2> QED BY <2>2, <2>3
<1>6. CASE Stores(p)
  <2>1. Owners = {p} /\ Phase = PhaseOf(p) /\ Owners' \in {{p}, {}} /\ Phase' \in {PhaseOf(p)', Settled'}
    BY <1>6, <1>b, <1>c, <1>d DEF Stores
  <2>2. CASE got[p] # 0 /\ store.token \notin live /\ store'.token \in live /\ store'.token # 0
    <3>1. Phase \in {"none", "renewing"} /\ Phase' = "good"
      BY <1>6, <2>1, <2>2 DEF Stores, PhaseOf, Settled
    <3>2. Link!Keep(p)
      BY <2>1, <3>1 DEF Link!Keep, Link!Use, Link!Leave
    <3> QED BY <3>2 DEF Link!Next
  <2>3. CASE store.token = 0 /\ store'.token = 0
    <3>1. Phase = "none" /\ Phase' = "none"
      BY <2>1, <2>3 DEF PhaseOf, Settled
    <3>2. CASE Owners' = {p}
      BY <2>1, <3>1, <3>2
    <3>3. CASE Owners' = {}
      <4>1. Link!Close(p)
        BY <2>1, <3>1, <3>3 DEF Link!Close, Link!Leave
      <4> QED BY <4>1 DEF Link!Next
    <3> QED BY <2>1, <3>2, <3>3
  <2>4. CASE /\ task[p] = "erase" /\ got[p] = 0 /\ store.token \notin live /\ store'.token = 0
             /\ ~HasLease(p)' /\ store.token # 0
    <3>1. Phase = "withdrawn" /\ Phase' = "none" /\ Owners' = {}
      BY <1>6, <1>d, <2>1, <2>4 DEF Stores, PhaseOf, Settled
    <3>2. Link!Erase(p)
      BY <2>1, <3>1 DEF Link!Erase, Link!Leave
    <3> QED BY <3>2 DEF Link!Next
  <2> QED BY <1>6, <2>2, <2>3, <2>4 DEF Stores
<1> QED BY <1>1, <1>2, <1>3, <1>4, <1>5, <1>6 DEF Deed

\* A process that ends has no lease.
LEMMA OverRests ==
  ASSUME TypeOK, NEW p \in Procs, NEW how, Ends(p, how), UNCHANGED <<store, live>>
  PROVE  Rests(p)
<1>1. leaseFd'[p] = 0
  BY DEF TypeOK, Ends
<1> QED BY <1>1 DEF Rests, HasLease

\* Which step of a process is which.
LEMMA StepDeed ==
  ASSUME "cleanup handoff" \notin Commands, OwnerInv, TokenInv, NEW p \in Procs, Step(p) \/ Crash(p)
  PROVE  Deed(p)
<1>a. /\ pc \in [Procs -> Labels] /\ task \in [Procs -> Tasks] /\ leaseFd \in [Procs -> Nat]
      /\ got \in [Procs -> Nat] /\ minted \in Nat /\ 0 \notin live /\ TypeOK
  BY TokenTypes DEF OwnerInv
<1>b. ASSUME NEW how, Ends(p, how), UNCHANGED <<store, live>> PROVE Deed(p)
  BY <1>a, <1>b, OverRests DEF Deed
<1>c. ASSUME UNCHANGED <<store, live, leaseFd, got>>, pc[p] # "await lease",
             task'[p] = "erase" <=> task[p] = "erase"
      PROVE  Deed(p)
  BY <1>c DEF Rests, HasLease, Deed
<1>d. pc[p] \in { "rename", "renew", "authorize", "revoke" } => HasLease(p) /\ known[p] = store
  BY ActsKnowing
<1>e. pc[p] \notin Sectioned => got[p] = 0 /\ task[p] # "erase"
  BY OutsideSections
<1>f. pc[p] \notin Removal /\ task[p] # "cleanup" /\ cmd[p] # "cleanup handoff"
  BY DEF OwnerInv, NoRemoval
<1>1. CASE Crash(p) \/ LeaseTimesOut(p) \/ RequestFails(p) \/ TransferFails(p) \/ OpenFails(p)
  <2>1. UNCHANGED <<store, live>> /\ \E how : Ends(p, how)
    BY <1>1 DEF Crash, LeaseTimesOut, RequestFails, TransferFails, OpenFails, Fails, CallFails,
       files, remote
  <2> QED BY <2>1, <1>b
<1>2. CASE Start(p)
  <2>1. UNCHANGED <<store, live, leaseFd, got>> /\ pc[p] = "idle"
    BY <1>2 DEF Start, files, remote
  <2>2. task'[p] \in {task[p], "load"}
    BY <1>2, <1>a DEF Start, Section
  <2> QED BY <1>c, <1>e, <2>1, <2>2 DEF Sectioned
<1>3. CASE OpenLease(p)
  <2>1. UNCHANGED <<store, live>> /\ pc'[p] = "await lease"
    BY <1>3, <1>a DEF OpenLease, Goto, remote
  <2> QED BY <2>1 DEF Deed, Rests, HasLease
<1>4. CASE TakeLease(p)
  <2>1. /\ UNCHANGED <<store, live, leaseFd, got>> /\ pc[p] = "await lease" /\ pc'[p] = "open lock"
        /\ task'[p] = "load" /\ LeaseFree(p)
    BY <1>4, <1>a DEF TakeLease, Section, Goto, files, remote
  <2>2. leaseFd[p] # 0 /\ ~HasLease(p)
    BY <2>1 DEF OwnerInv, Leased, HasLease
  <2>3. \A q \in Procs : ~HasLease(q)
    BY <2>1, <2>2 DEF LeaseFree, HasLease, OwnerInv, OneLease
  <2>4. HasLease(p)' /\ got'[p] = 0
    BY <1>e, <2>1, <2>2 DEF HasLease, Sectioned
  <2> QED BY <2>1, <2>3, <2>4 DEF Deed, Takes
<1>5. CASE OpenLock(p)
  BY <1>5, <1>c DEF OpenLock, remote
<1>6. CASE TryLock(p) \/ Compare(p)
  <2>1. /\ UNCHANGED <<store, live>> /\ pc[p] # "await lease"
        /\ UNCHANGED <<leaseFd, got, task>> \/ \E how : Ends(p, how)
    BY <1>6 DEF TryLock, Compare, Fails, CallFails, files, remote
  <2> QED BY <1>b, <1>c, <2>1
<1>7. CASE Load(p)
  <2>1. /\ UNCHANGED <<store, live>> /\ pc[p] # "await lease"
        /\ UNCHANGED <<leaseFd, got, task>> \/ \E how : Ends(p, how)
    BY <1>7 DEF Load, Fails, files, remote
  <2> QED BY <1>b, <1>c, <2>1
<1>8. CASE Connect(p) \/ RenewalRefused(p) \/ Work(p) \/ ReadSource(p) \/ Transfer(p) \/ Validate(p)
  <2>1. /\ UNCHANGED <<store, live>> /\ pc[p] # "await lease"
        /\ UNCHANGED <<leaseFd, got, task>> \/ \E how : Ends(p, how)
    BY <1>8, <1>f DEF Connect, RenewalRefused, Work, ReadSource, Transfer, Validate, Fails, files, remote
  <2> QED BY <1>b, <1>c, <2>1
<1>9. CASE Register(p)
  <2>1. /\ UNCHANGED <<store, live, leaseFd, got>> /\ pc[p] = "register" /\ task'[p] = "register"
    BY <1>9, <1>a DEF Register, Section, files, remote
  <2> QED BY <1>c, <1>e, <2>1 DEF Sectioned
<1>10. CASE Renew(p) \/ Authorize(p)
  <2>1. /\ UNCHANGED <<store, leaseFd>> /\ pc[p] \in {"renew", "authorize"} /\ pc'[p] = "open lock"
        /\ got'[p] = minted + 1
    BY <1>10, <1>a DEF Renew, Authorize, Section, Goto, files
  <2>2. HasLease(p) /\ known[p] = store /\ got[p] = 0 /\ task[p] # "erase"
    BY <1>d, <1>e, <2>1 DEF Sectioned
  <2>3. live' \subseteq (live \ {store.token}) \cup {minted + 1}
    BY <1>10, <2>2 DEF Renew, Authorize, TokenInv, TokenMine
  <2>4. store.token # minted + 1 /\ minted + 1 # 0
    <3>1. minted + 1 \notin 0 .. minted /\ minted + 1 # 0
      BY <1>a, Fresh
    <3> QED BY <3>1 DEF TokenInv
  <2>5. HasLease(p)'
    BY <2>1, <2>2 DEF HasLease
  <2> QED BY <2>1, <2>2, <2>3, <2>4, <2>5 DEF Deed, IsGiven
<1>11. CASE RenewalLost(p) \/ AuthorizationLost(p)
  <2>1. UNCHANGED store /\ pc[p] \in {"renew", "authorize"} /\ Ends(p, "failed")
        /\ live' \subseteq live \cup {minted + 1}
    BY <1>11 DEF RenewalLost, AuthorizationLost, files
  <2>2. store.token # minted + 1
    <3>1. minted + 1 \notin 0 .. minted
      BY <1>a, Fresh
    <3> QED BY <3>1 DEF TokenInv
  <2>3. ~HasLease(p)'
    BY <1>a, <2>1 DEF Ends, HasLease
  <2> QED BY <1>d, <2>1, <2>2, <2>3 DEF Deed, Loses
<1>12. CASE Revoke(p)
  <2>1. /\ UNCHANGED store /\ pc[p] = "revoke" /\ live' = live \ {known[p].token}
        /\ \/ Section(p, "erase") /\ UNCHANGED <<leaseFd, got>>
           \/ Ends(p, "failed")
    BY <1>12 DEF Revoke, files
  <2>2. HasLease(p) /\ known[p] = store /\ got[p] = 0 /\ task[p] # "erase"
    BY <1>d, <1>e, <2>1 DEF Sectioned
  <2>3. CASE Section(p, "erase") /\ UNCHANGED <<leaseFd, got>>
    <3>1. pc'[p] = "open lock" /\ task'[p] = "erase"
      BY <1>a, <2>3 DEF Section, Goto
    <3>2. HasLease(p)'
      BY <2>2, <2>3, <3>1 DEF HasLease
    <3> QED BY <2>1, <2>2, <2>3, <3>1, <3>2 DEF Deed, Revokes
  <2>4. CASE Ends(p, "failed")
    <3>1. ~HasLease(p)'
      BY <1>a, <2>4 DEF Ends, HasLease
    <3> QED BY <2>1, <2>2, <3>1 DEF Deed, Loses
  <2> QED BY <2>1, <2>3, <2>4
<1>13. CASE Rename(p) \/ RenameFails(p)
  <2>1. CASE UNCHANGED store /\ CallFails(p)
    BY <1>13, <1>b, <2>1 DEF Rename, RenameFails, CallFails, remote
  <2>2. CASE Renamed(p)
    <3>1. /\ pc[p] = "rename" /\ UNCHANGED live /\ store' = NewState(p)
          /\ task[p] = "erase" => \E how : Ends(p, how)
      BY <1>13, <2>2 DEF Rename, RenameFails, Renamed, Fails, CallFails, remote
    <3>2. HasLease(p) /\ known[p] = store /\ task[p] \in Writes
      BY <1>d, <3>1 DEF OwnerInv, ClientKnown
    <3>3. store'.token = IF task[p] = "tokens" THEN got[p] ELSE 0
      BY <3>1 DEF NewState
    <3>4. /\ task[p] = "tokens" => got[p] # 0 /\ got[p] \in live /\ store.token \notin live
          /\ task[p] = "register" => store.token = 0
          /\ task[p] = "erase" => store.token \notin live /\ got[p] = 0
      BY <3>2 DEF TokenInv, TokenMine, OwnerInv, ClientKnown
    <3>5. task[p] = "erase" => ~HasLease(p)'
      BY <1>a, <3>1 DEF Ends, HasLease
    <3>6. Stores(p)
      BY <3>1, <3>2, <3>3, <3>4, <3>5 DEF Stores, Writes
    <3> QED BY <3>6 DEF Deed
  <2> QED BY <1>13, <2>1, <2>2 DEF Rename, RenameFails
<1>14. ~(CheckSource(p) \/ UnlinkState(p) \/ UnlinkLock(p) \/ UnlinkLease(p) \/ RemoveDirectory(p))
  BY <1>f DEF Removal, CheckSource, UnlinkState, UnlinkLock, UnlinkLease, RemoveDirectory
<1> QED
  BY <1>1, <1>2, <1>3, <1>4, <1>5, <1>6, <1>7, <1>8, <1>9, <1>10, <1>11, <1>12, <1>13, <1>14 DEF Step

\* As long as no handoff cleans up, the state file and its locks implement a
\* connection that one process at a time uses, that nobody else changes, and
\* that is lost only with a user that was replacing or revoking it.
THEOREM ConnectionIsImplemented ==
  ASSUME "cleanup handoff" \notin Commands
  PROVE  Spec => ImplementsConnection
<1>1. Init => Link!Init
  <2> SUFFICES ASSUME Init PROVE Owners = {} /\ Phase \in {"none", "good"}
    BY DEF Link!Init
  <2>1. Owners = {}
    BY DEF Init, Owners, HasLease
  <2>2. store = Missing \/ (store = [generation |-> 1, client |-> TRUE, token |-> 1] /\ live = {1})
    BY DEF Init
  <2>3. store.token = 0 \/ store.token \in live
    <3>1. CASE store = Missing
      BY <3>1 DEF Missing
    <3>2. CASE store = [generation |-> 1, client |-> TRUE, token |-> 1] /\ live = {1}
      <4>1. store.token = 1
        BY <3>2
      <4> QED BY <3>2, <4>1
    <3> QED BY <2>2, <3>1, <3>2
  <2> QED BY <2>1, <2>3 DEF Phase
<1>2. OwnerInv /\ TokenInv => Mapped
  BY OwnersMap
<1>3. (OwnerInv /\ TokenInv)' => Mapped'
  BY <1>2, PTL
<1>4. ASSUME OwnerInv, TokenInv, [Next]_vars, Mapped'
      PROVE  Link!Next \/ UNCHANGED <<Owners, Phase>>
  <2>1. ASSUME NEW p \in Procs, Step(p) \/ Crash(p)
        PROVE  Link!Next \/ UNCHANGED <<Owners, Phase>>
    BY <1>2, <1>4, <2>1, StepDeed, DeedMaps DEF OwnerInv
  <2>2. CASE UNCHANGED vars
    BY <2>2 DEF Owners, Phase, HasLease, vars, files, remote, process
  <2> QED BY <1>4, <2>1, <2>2 DEF Next, AllEnded
<1>5. OwnerInv /\ TokenInv /\ [Next]_vars /\ Mapped' => [Link!Next]_<<Owners, Phase>>
  BY <1>4
<1> QED BY <1>1, <1>3, <1>5, TokenInvariant, PTL DEF Spec, ImplementsConnection, Link!Spec

=============================================================================
