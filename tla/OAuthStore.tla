----------------------------- MODULE OAuthStore -----------------------------
(***************************************************************************)
(* The file that keeps the renewable connection to Finary, and the         *)
(* processes that use it: sessions of the bridge, the operator's           *)
(* bootstrap, status and revoke, and the handoff of the staging file.      *)
(*                                                                         *)
(* A lock is held on an open inode, not on a name: cleanup unlinks the     *)
(* lock files while others may have them open, and whoever comes later     *)
(* creates new ones.  The provider rotates: a refresh token is good for    *)
(* one refresh, which answers with the next one.                           *)
(***************************************************************************)
EXTENDS Integers, FiniteSets

CONSTANTS
  Procs,        \* processes, each of which runs one command
  Commands,     \* the commands they may run
  MaxRenewals   \* refreshes of one session

Sessions == {"session", "bootstrap"}
Handoffs == {"handoff", "cleanup handoff"}

ASSUME ProcsAssumption == IsFiniteSet(Procs)
ASSUME CommandsAssumption == Commands \subseteq Sessions \cup Handoffs \cup {"status", "revoke"}
ASSUME RenewalsAssumption == MaxRenewals \in Nat \ {0}

VARIABLES
  store,      \* the state file; generation 0 when there is none
  issued,     \* generations made so far
  tmp,        \* processes whose temporary file is in the directory
  directory,  \* does the directory exist
  lockFile,   \* the inode of .lock, 0 when there is none
  leaseFile,  \* the inode of .lease, 0 when there is none
  inodes,     \* inodes made so far
  copy,       \* the state file of each handoff's destination volume
  live,       \* refresh tokens the provider accepts
  minted,     \* refresh tokens it has issued
  cmd,        \* the command of each process
  pc,         \* where it is
  task,       \* what it takes the storage lock for
  leaseFd,    \* the lease inode it has open, 0 when none
  lockFd,     \* the lock inode it has open, 0 when none
  known,      \* the state it read or wrote last
  got,        \* a token it has received and not yet stored, or 0
  want,       \* the generation the operator asked to revoke
  source,     \* the bytes a handoff transfers
  renewals,   \* refreshes so far
  mishaps     \* history: tokens whose loss a failed or lost call explains

files   == <<store, issued, tmp, directory, lockFile, leaseFile, inodes>>
remote  == <<live, minted>>
process == <<cmd, pc, task, leaseFd, lockFd, known, got, want, source, renewals>>
vars    == <<files, copy, remote, process, mishaps>>

\* A state file: its generation, whether it has a client, its refresh token,
\* which is never there without the client it was issued to.
State == { s \in [generation : Nat, client : BOOLEAN, token : Nat] : s.token # 0 => s.client }

\* No file, which _read answers with an empty state; a file cut off.
Missing == [generation |-> 0, client |-> FALSE, token |-> 0]
Torn    == [generation |-> 0, client |-> TRUE, token |-> 0]

Renewable(s) == s.generation # 0 /\ s.client /\ s.token # 0

Ended  == {"done", "failed", "crashed"}
Active == { p \in Procs : pc[p] \notin {"idle"} \cup Ended }

\* flock on an open file: nobody else has locked the same inode.
HasLease(p) == leaseFd[p] # 0 /\ pc[p] # "await lease"
HasLock(p)  == lockFd[p] # 0 /\ pc[p] # "try lock"

LeaseFree(p) == \A q \in Procs \ {p} : HasLease(q) => leaseFd[q] # leaseFd[p]
LockFree(p)  == \A q \in Procs \ {p} : HasLock(q) => lockFd[q] # lockFd[p]

\* The directory is fresh, or a finished bootstrap left a connection in it.
Init ==
  /\ \/ store = Missing /\ issued = 0 /\ live = {} /\ minted = 0
        /\ lockFile = 0 /\ leaseFile = 0 /\ inodes = 0
     \/ store = [generation |-> 1, client |-> TRUE, token |-> 1] /\ issued = 1
        /\ live = {1} /\ minted = 1 /\ lockFile = 1 /\ leaseFile = 2 /\ inodes = 2
  /\ tmp = {} /\ directory = TRUE /\ copy = [p \in Procs |-> Missing]
  /\ cmd = [p \in Procs |-> "none"]
  /\ pc = [p \in Procs |-> "idle"]
  /\ task = [p \in Procs |-> "none"]
  /\ leaseFd = [p \in Procs |-> 0]
  /\ lockFd = [p \in Procs |-> 0]
  /\ known = [p \in Procs |-> Missing]
  /\ got = [p \in Procs |-> 0]
  /\ want = [p \in Procs |-> 0]
  /\ source = [p \in Procs |-> Missing]
  /\ renewals = [p \in Procs |-> 0]
  /\ mishaps = {}

-----------------------------------------------------------------------------
(* Moving on, and ending.                                                  *)

Goto(p, label) == pc' = [pc EXCEPT ![p] = label]

\* Every section under the storage lock opens and closes the lock file anew.
Section(p, what) == Goto(p, "open lock") /\ task' = [task EXCEPT ![p] = what]

\* What a process that is over leaves of its own: nothing but its command.
Forget(p) ==
  /\ task' = [task EXCEPT ![p] = "none"]
  /\ known' = [known EXCEPT ![p] = Missing]
  /\ got' = [got EXCEPT ![p] = 0]
  /\ source' = [source EXCEPT ![p] = Missing]
  /\ renewals' = [renewals EXCEPT ![p] = 0]
  /\ UNCHANGED <<cmd, want>>

\* Mutant of Ends: the lease file stays open.
EndsHolding(p, how) ==
  Goto(p, how) /\ lockFd' = [lockFd EXCEPT ![p] = 0] /\ UNCHANGED leaseFd /\ Forget(p)

\* The process is over: its files are closed, its locks released.
Ends(p, how) ==
  /\ Goto(p, how)
  /\ leaseFd' = [leaseFd EXCEPT ![p] = 0]
  /\ lockFd' = [lockFd EXCEPT ![p] = 0]
  /\ Forget(p)

\* The tokens that are lost when the process does not get to store its state.
AtRisk(p) ==
  (IF got[p] # 0 THEN {known[p].token, got[p]} ELSE {})
  \cup (IF task[p] = "erase" THEN {known[p].token} ELSE {})

Fails(p)     == Ends(p, "failed") /\ UNCHANGED mishaps
CallFails(p) == Ends(p, "failed") /\ mishaps' = mishaps \cup AtRisk(p)

\* A lost process: the kernel closes its files, a temporary file stays.
Crash(p) ==
  /\ p \in Active
  /\ Ends(p, "crashed")
  /\ mishaps' = mishaps \cup AtRisk(p)
  /\ UNCHANGED <<files, copy, remote>>

-----------------------------------------------------------------------------
(* Commands, and the session lease.                                        *)

\* main and handoff; a revocation names a generation some status has shown.
Start(p) ==
  /\ pc[p] = "idle"
  /\ \E c \in Commands :
       /\ cmd' = [cmd EXCEPT ![p] = c]
       /\ IF c = "revoke" THEN \E g \in 1 .. issued : want' = [want EXCEPT ![p] = g]
                          ELSE UNCHANGED want
       /\ CASE c = "status" -> Section(p, "load")
            [] c \in Handoffs /\ ~(Renewable(store) /\ (c = "cleanup handoff" => tmp = {}))
                 -> Goto(p, "failed") /\ UNCHANGED task
            [] OTHER -> Goto(p, "open lease") /\ UNCHANGED task
  /\ UNCHANGED <<files, copy, remote, leaseFd, lockFd, known, got, source, renewals, mishaps>>

\* directory() and os.open(.lease, O_CREAT).
OpenLease(p) ==
  /\ pc[p] = "open lease"
  /\ directory' = TRUE
  /\ IF leaseFile = 0 THEN inodes' = inodes + 1 /\ leaseFile' = inodes + 1
                      ELSE UNCHANGED <<inodes, leaseFile>>
  /\ leaseFd' = [leaseFd EXCEPT ![p] = leaseFile']
  /\ Goto(p, "await lease")
  /\ UNCHANGED <<store, issued, tmp, lockFile, copy, remote, cmd, task, lockFd, known, got, want,
                 source, renewals, mishaps>>

\* Mutant of TakeLease: the lease is taken on the name, not on the open file.
TakeLeaseAnyway(p) ==
  /\ pc[p] = "await lease"
  /\ Section(p, "load")
  /\ UNCHANGED <<files, copy, remote, cmd, leaseFd, lockFd, known, got, want, source, renewals, mishaps>>

TakeLease(p) ==
  /\ pc[p] = "await lease"
  /\ LeaseFree(p)
  /\ Section(p, "load")
  /\ UNCHANGED <<files, copy, remote, cmd, leaseFd, lockFd, known, got, want, source, renewals, mishaps>>

\* 200 attempts, each of which found the lease taken.
LeaseTimesOut(p) ==
  /\ pc[p] = "await lease"
  /\ ~LeaseFree(p)
  /\ Fails(p)
  /\ UNCHANGED <<files, copy, remote>>

-----------------------------------------------------------------------------
(* OAuthStore.locked, _read and replace.                                   *)

OpenLock(p) ==
  /\ pc[p] = "open lock"
  /\ directory' = TRUE
  /\ IF lockFile = 0 THEN inodes' = inodes + 1 /\ lockFile' = inodes + 1
                     ELSE UNCHANGED <<inodes, lockFile>>
  /\ lockFd' = [lockFd EXCEPT ![p] = lockFile']
  /\ Goto(p, "try lock")
  /\ UNCHANGED <<store, issued, tmp, leaseFile, copy, remote, cmd, task, leaseFd, known, got, want,
                 source, renewals, mishaps>>

\* The directory that directory() found or made is removed before os.open.
OpenFails(p) ==
  /\ pc[p] \in {"open lease", "open lock"}
  /\ ~directory
  /\ CallFails(p)
  /\ UNCHANGED <<files, copy, remote>>

\* LOCK_NB: a lock that is taken fails the section, and with it the command.
TryLock(p) ==
  /\ pc[p] = "try lock"
  /\ IF LockFree(p)
     THEN /\ Goto(p, "locked")
          /\ UNCHANGED <<cmd, task, leaseFd, lockFd, known, got, want, source, renewals, mishaps>>
     ELSE CallFails(p)
  /\ UNCHANGED <<files, copy, remote>>

Unlock(p) == lockFd' = [lockFd EXCEPT ![p] = 0]

\* Mutant of Revocable: whatever the store holds is revoked.
RevocableAny(p, s) == Renewable(s)

\* revoke_command only revokes the generation it was given.
Revocable(p, s) == Renewable(s) /\ s.generation = want[p]

\* Where a command goes with what it has read.
Usable(p, s) ==
  CASE cmd[p] = "session"    -> s.client /\ s.token # 0
    [] cmd[p] = "bootstrap"  -> TRUE
    [] cmd[p] = "revoke"     -> Revocable(p, s)
    [] cmd[p] \in Handoffs   -> Renewable(s)

Load(p) ==
  /\ pc[p] = "locked" /\ task[p] = "load"
  /\ UNCHANGED <<files, copy, remote>>
  /\ IF cmd[p] = "status" THEN Ends(p, "done") /\ UNCHANGED mishaps
     ELSE IF ~Usable(p, store) THEN Fails(p)
     ELSE /\ known' = [known EXCEPT ![p] = store]
          /\ Unlock(p)
          /\ Goto(p, IF cmd[p] \in Handoffs THEN "read source" ELSE "connect")
          /\ UNCHANGED <<cmd, task, leaseFd, got, want, source, renewals, mishaps>>

Writes == {"register", "tokens", "erase"}

\* Mutant of Current: replace does not compare.
CurrentAlways(p) == TRUE

\* The compare of compare-and-swap.
Current(p) == store.generation = known[p].generation

\* replace, up to the written and synchronized temporary file.
Compare(p) ==
  /\ pc[p] = "locked" /\ task[p] \in Writes
  /\ IF Current(p) /\ directory
     THEN /\ tmp' = tmp \cup {p}
          /\ Goto(p, "rename")
          /\ UNCHANGED <<cmd, task, leaseFd, lockFd, known, got, want, source, renewals, mishaps>>
     ELSE Fails(p) /\ UNCHANGED tmp
  /\ UNCHANGED <<store, issued, directory, lockFile, leaseFile, inodes, copy, remote>>

\* Mutant of NewState: the refresh token that was sent is stored again.
NewStateOld(p) ==
  [ generation |-> issued + 1, client |-> task[p] # "erase",
    token |-> IF task[p] = "tokens" THEN known[p].token ELSE 0 ]

\* What set_client_info, set_tokens and revoke_command store.
NewState(p) ==
  [ generation |-> issued + 1,
    client     |-> CASE task[p] = "register" -> TRUE
                     [] task[p] = "tokens"   -> known[p].client
                     [] task[p] = "erase"    -> FALSE,
    token      |-> IF task[p] = "tokens" THEN got[p] ELSE 0 ]

Renamed(p) ==
  /\ store' = NewState(p)
  /\ issued' = issued + 1
  /\ tmp' = tmp \ {p}

\* Mutant of Remember: self.state is not updated.
RememberNothing(p) == UNCHANGED known

Remember(p) == known' = [known EXCEPT ![p] = store']

Rename(p) ==
  /\ pc[p] = "rename"
  /\ Renamed(p)
  /\ IF task[p] = "erase" THEN Ends(p, "done")
     ELSE /\ Remember(p)
          /\ got' = [got EXCEPT ![p] = 0]
          /\ Unlock(p)
          /\ Goto(p, IF task[p] = "tokens" THEN "work" ELSE "authorize")
          /\ task' = [task EXCEPT ![p] = "none"]
          /\ UNCHANGED <<cmd, leaseFd, want, source, renewals>>
  /\ UNCHANGED <<directory, lockFile, leaseFile, inodes, copy, remote, mishaps>>

\* The write fails before the rename, or the directory sync after it.
RenameFails(p) ==
  /\ pc[p] = "rename"
  /\ \/ tmp' = tmp \ {p} /\ UNCHANGED <<store, issued>> /\ CallFails(p)
     \/ Renamed(p) /\ Fails(p)
  /\ UNCHANGED <<directory, lockFile, leaseFile, inodes, copy, remote>>

-----------------------------------------------------------------------------
(* authorized_http: the SDK refreshes, registers and asks for consent.     *)

\* public_metadata; then what the SDK does with the first request.
Connect(p) ==
  /\ pc[p] = "connect"
  /\ Goto(p, IF cmd[p] = "revoke" THEN "revoke"
             ELSE IF known[p].token # 0 THEN "renew"
             ELSE IF known[p].client THEN "authorize" ELSE "register")
  /\ UNCHANGED <<files, copy, remote, cmd, task, leaseFd, lockFd, known, got, want, source, renewals, mishaps>>

\* The provider answers the refresh with the next token and drops this one.
Renew(p) ==
  /\ pc[p] = "renew"
  /\ known[p].token \in live
  /\ live' = (live \ {known[p].token}) \cup {minted + 1}
  /\ minted' = minted + 1
  /\ got' = [got EXCEPT ![p] = minted + 1]
  /\ renewals' = [renewals EXCEPT ![p] = @ + 1]
  /\ Section(p, "tokens")
  /\ UNCHANGED <<files, copy, cmd, leaseFd, lockFd, known, want, source, mishaps>>

\* The refresh took effect and its answer is lost; requests for tokens are
\* sent once.
RenewalLost(p) ==
  /\ pc[p] = "renew"
  /\ known[p].token \in live
  /\ live' = (live \ {known[p].token}) \cup {minted + 1}
  /\ minted' = minted + 1
  /\ Ends(p, "failed")
  /\ mishaps' = mishaps \cup {known[p].token, minted + 1}
  /\ UNCHANGED <<files, copy>>

\* The refresh is refused: an unattended session must not ask for consent.
RenewalRefused(p) ==
  /\ pc[p] = "renew"
  /\ known[p].token \notin live
  /\ IF cmd[p] = "bootstrap"
     THEN Goto(p, "authorize")
          /\ UNCHANGED <<cmd, task, leaseFd, lockFd, known, got, want, source, renewals, mishaps>>
     ELSE Fails(p)
  /\ UNCHANGED <<files, copy, remote>>

Register(p) ==
  /\ pc[p] = "register"
  /\ Section(p, "register")
  /\ UNCHANGED <<files, copy, remote, cmd, leaseFd, lockFd, known, got, want, source, renewals, mishaps>>

\* The operator consents and the code is exchanged for the first tokens.
Authorize(p) ==
  /\ pc[p] = "authorize"
  /\ live' = live \cup {minted + 1}
  /\ minted' = minted + 1
  /\ got' = [got EXCEPT ![p] = minted + 1]
  /\ Section(p, "tokens")
  /\ UNCHANGED <<files, copy, cmd, leaseFd, lockFd, known, want, source, renewals, mishaps>>

AuthorizationLost(p) ==
  /\ pc[p] = "authorize"
  /\ live' = live \cup {minted + 1}
  /\ minted' = minted + 1
  /\ Ends(p, "failed")
  /\ mishaps' = mishaps \cup {minted + 1}
  /\ UNCHANGED <<files, copy>>

\* Calls under the access token, until it expires or the session closes.
Work(p) ==
  /\ pc[p] = "work"
  /\ \/ Ends(p, "done")
     \/ /\ renewals[p] < MaxRenewals
        /\ Goto(p, "renew")
        /\ UNCHANGED <<cmd, task, leaseFd, lockFd, known, got, want, source, renewals>>
  /\ UNCHANGED <<files, copy, remote, mishaps>>

\* The revocation is accepted, with or without its answer arriving.
Revoke(p) ==
  /\ pc[p] = "revoke"
  /\ live' = live \ {known[p].token}
  /\ \/ Section(p, "erase")
        /\ UNCHANGED <<cmd, leaseFd, lockFd, known, got, want, source, renewals, mishaps>>
     \/ Ends(p, "failed") /\ mishaps' = mishaps \cup {known[p].token}
  /\ UNCHANGED <<files, copy, minted>>

\* A request that had no effect fails, or a call of the session does.
RequestFails(p) ==
  /\ pc[p] \in {"connect", "renew", "register", "authorize", "work", "revoke"}
  /\ Fails(p)
  /\ UNCHANGED <<files, copy, remote>>

-----------------------------------------------------------------------------
(* _transfer_with_lease and _cleanup_source.                               *)

\* _read_source_bytes takes no lock.
ReadSource(p) ==
  /\ pc[p] = "read source"
  /\ IF store = Missing THEN Fails(p)
     ELSE /\ source' = [source EXCEPT ![p] = store]
          /\ Goto(p, "transfer")
          /\ UNCHANGED <<cmd, task, leaseFd, lockFd, known, got, want, renewals, mishaps>>
  /\ UNCHANGED <<files, copy, remote>>

\* The transfer worker creates the destination directory, exclusively.
Transfer(p) ==
  /\ pc[p] = "transfer"
  /\ copy' = [copy EXCEPT ![p] = source[p]]
  /\ Goto(p, "validate")
  /\ UNCHANGED <<files, remote, cmd, task, leaseFd, lockFd, known, got, want, source, renewals, mishaps>>

\* Docker fails, the destination exists, or the worker is cut off or fails
\* after it has written.
TransferFails(p) ==
  /\ pc[p] = "transfer"
  /\ \E s \in {Missing, Torn, source[p]} : copy' = [copy EXCEPT ![p] = s]
  /\ Fails(p)
  /\ UNCHANGED <<files, remote>>

\* The status and the verification worker at the destination.
Verified(p) == copy[p] = source[p] /\ copy[p].generation = known[p].generation

Validate(p) ==
  /\ pc[p] = "validate"
  /\ UNCHANGED <<files, copy, remote, mishaps>>
  /\ \/ /\ Verified(p)
        /\ IF cmd[p] = "cleanup handoff" /\ tmp = {}
           THEN Section(p, "cleanup")
                /\ UNCHANGED <<cmd, leaseFd, lockFd, known, got, want, source, renewals>>
           ELSE Ends(p, IF cmd[p] = "handoff" THEN "done" ELSE "failed")
     \/ Ends(p, "failed")

\* Mutant of Unchanged: the source is not compared with what was verified.
UnchangedNames(p) == tmp = {} /\ lockFile = lockFd[p] /\ leaseFile = leaseFd[p]

\* Only the state and the lock files this process holds are there, and the
\* state is the one that was verified.
Unchanged(p) ==
  /\ tmp = {} /\ lockFile = lockFd[p] /\ leaseFile = leaseFd[p]
  /\ Renewable(store) /\ store.generation = known[p].generation /\ store = source[p]

CheckSource(p) ==
  /\ pc[p] = "locked" /\ task[p] = "cleanup"
  /\ IF Unchanged(p)
     THEN Goto(p, "unlink state")
          /\ UNCHANGED <<cmd, task, leaseFd, lockFd, known, got, want, source, renewals, mishaps>>
     ELSE Fails(p)
  /\ UNCHANGED <<files, copy, remote>>

UnlinkState(p) ==
  /\ pc[p] = "unlink state"
  /\ store' = Missing
  /\ Goto(p, "unlink lock")
  /\ UNCHANGED <<issued, tmp, directory, lockFile, leaseFile, inodes, copy, remote, cmd, task,
                 leaseFd, lockFd, known, got, want, source, renewals, mishaps>>

UnlinkLock(p) ==
  /\ pc[p] = "unlink lock"
  /\ lockFile' = 0
  /\ Goto(p, "unlink lease")
  /\ UNCHANGED <<store, issued, tmp, directory, leaseFile, inodes, copy, remote, cmd, task,
                 leaseFd, lockFd, known, got, want, source, renewals, mishaps>>

UnlinkLease(p) ==
  /\ pc[p] = "unlink lease"
  /\ leaseFile' = 0
  /\ Goto(p, "rmdir")
  /\ UNCHANGED <<store, issued, tmp, directory, lockFile, inodes, copy, remote, cmd, task,
                 leaseFd, lockFd, known, got, want, source, renewals, mishaps>>

\* rmdir fails when someone has put a file there again.
RemoveDirectory(p) ==
  /\ pc[p] = "rmdir"
  /\ IF store = Missing /\ tmp = {} /\ lockFile = 0 /\ leaseFile = 0
     THEN directory' = FALSE /\ Ends(p, "done")
     ELSE Ends(p, "failed") /\ UNCHANGED directory
  /\ UNCHANGED <<store, issued, tmp, lockFile, leaseFile, inodes, copy, remote, mishaps>>

-----------------------------------------------------------------------------
Step(p) ==
  \/ Start(p) \/ OpenLease(p) \/ TakeLease(p) \/ LeaseTimesOut(p)
  \/ OpenLock(p) \/ OpenFails(p) \/ TryLock(p) \/ Load(p)
  \/ Compare(p) \/ Rename(p) \/ RenameFails(p)
  \/ Connect(p) \/ Renew(p) \/ RenewalLost(p) \/ RenewalRefused(p) \/ Register(p)
  \/ Authorize(p) \/ AuthorizationLost(p) \/ Work(p) \/ Revoke(p) \/ RequestFails(p)
  \/ ReadSource(p) \/ Transfer(p) \/ TransferFails(p) \/ Validate(p) \/ CheckSource(p)
  \/ UnlinkState(p) \/ UnlinkLock(p) \/ UnlinkLease(p) \/ RemoveDirectory(p)

AllEnded == (\A p \in Procs : pc[p] \in Ended) /\ UNCHANGED vars

Next == (\E p \in Procs : Step(p) \/ Crash(p)) \/ AllEnded

Spec == Init /\ [][Next]_vars

\* The operating system runs a started process, and its calls return.
FairSpec == Spec /\ \A p \in Procs : WF_vars(pc[p] # "idle" /\ Step(p))
=============================================================================
