---------------------------- MODULE OAuthSafety -----------------------------
(***************************************************************************)
(* What the lock, the lease and the compare-and-swap must guarantee.       *)
(***************************************************************************)
EXTENDS OAuthStore

Labels ==
  Ended \cup { "idle", "open lease", "await lease", "open lock", "try lock", "locked", "rename",
    "connect", "renew", "register", "authorize", "work", "revoke", "read source", "transfer",
    "validate", "unlink state", "unlink lock", "unlink lease", "rmdir" }

Tasks == Writes \cup {"none", "load", "cleanup"}

\* The store, the provider and the processes are of their types.
TypeOK ==
  /\ store \in State /\ copy \in [Procs -> State]
  /\ issued \in Nat /\ lockFile \in Nat /\ leaseFile \in Nat /\ inodes \in Nat /\ minted \in Nat
  /\ tmp \subseteq Procs /\ directory \in BOOLEAN
  /\ live \subseteq 1 .. minted
  /\ cmd \in [Procs -> Commands \cup {"none"}]
  /\ pc \in [Procs -> Labels]
  /\ task \in [Procs -> Tasks]
  /\ leaseFd \in [Procs -> Nat] /\ lockFd \in [Procs -> Nat]
  /\ known \in [Procs -> State] /\ source \in [Procs -> State]
  /\ got \in [Procs -> Nat] /\ want \in [Procs -> Nat] /\ renewals \in [Procs -> Nat]
  /\ mishaps \subseteq Nat

\* Processes past the load of their session, which go on from what they know.
Informed ==
  { p \in Procs : /\ HasLease(p)
                  /\ ~(pc[p] \in {"open lock", "try lock", "locked"} /\ task[p] = "load") }

-----------------------------------------------------------------------------
(* Invariants.                                                             *)

\* At most one process is in its session, from the load of the state to its
\* last call: renewals never overlap.
SingleOwner == \A p, q \in Procs : HasLease(p) /\ HasLease(q) => p = q

\* No two processes are renewing the connection at the same time, each having
\* read it or about to send the token it read.
Renewing(p) == HasLease(p) /\ known[p].token # 0 /\ (pc[p] = "renew" \/ got[p] # 0)

RenewalsApart == \A p, q \in Procs : Renewing(p) /\ Renewing(q) => p = q

\* What the owner goes by is what the store holds, however many status reads,
\* failed calls and lost processes come between: its swaps never fail and a
\* handoff copies the current state.
KnownIsCurrent == \A p \in Informed : known[p] = store

\* A stored token the provider no longer accepts is one whose renewal is on
\* its way into the store, or whose loss a lost call or process explains.
StoredTokenGood ==
  store.token \in live \cup {0} \cup mishaps
    \/ \E p \in Procs : HasLease(p) /\ known[p].token = store.token
                        /\ (got[p] # 0 \/ task[p] = "erase")

\* A token the provider accepts is not forgotten: it is in the store or in
\* the copy, on its way there, or its loss is explained.
NoTokenForgotten ==
  live \subseteq {store.token} \cup { copy[p].token : p \in Procs }
                 \cup { got[p] : p \in Procs } \cup mishaps

-----------------------------------------------------------------------------
(* The connection itself, whatever the files that keep it.                 *)

Owners == { p \in Procs : HasLease(p) }

Phase ==
  IF store.token = 0 THEN "none"
  ELSE IF store.token \in live THEN "good"
  ELSE IF \E p \in Procs : got[p] # 0 THEN "renewing"
  ELSE IF \E p \in Procs : task[p] = "erase" THEN "withdrawn"
  ELSE "lost"

Link == INSTANCE Connection WITH Users <- Procs, user <- Owners, phase <- Phase

\* The state file, its locks and its lease implement a connection that one
\* process at a time uses, that nobody else changes, and that is lost only
\* with a user that was replacing or revoking it.
ImplementsConnection == Link!Spec

-----------------------------------------------------------------------------
(* The inductive invariant behind the theorems of OAuthStore_proofs: what  *)
(* holds as long as no handoff removes the lock files.                     *)

Removal == {"unlink state", "unlink lock", "unlink lease", "rmdir"}

NoRemoval ==
  \A p \in Procs : pc[p] \notin Removal /\ task[p] # "cleanup" /\ cmd[p] # "cleanup handoff"

\* Every open lease file is the one that is linked.
OneLease == \A p \in Procs : leaseFd[p] \in {0, leaseFile}

\* Whoever acts on what it knows has the lease; only a status does without.
Leased ==
  \A p \in Procs :
    /\ pc[p] \in {"open lock", "try lock", "locked"} =>
         leaseFd[p] # 0 \/ (cmd[p] = "status" /\ task[p] = "load")
    /\ pc[p] \in { "await lease", "rename", "connect", "renew", "register", "authorize", "work",
                   "revoke", "read source", "transfer", "validate" } => leaseFd[p] # 0

\* A token is asked for, held and stored only for a client.
ClientKnown ==
  \A p \in Procs :
    /\ pc[p] \in {"renew", "authorize", "work"} \/ task[p] = "tokens" => known[p].client
    /\ got[p] # 0 => task[p] = "tokens" /\ pc[p] \in {"open lock", "try lock", "locked", "rename"}
    /\ pc[p] = "rename" => task[p] \in Writes

OwnerInv == TypeOK /\ NoRemoval /\ OneLease /\ Leased /\ SingleOwner /\ KnownIsCurrent /\ ClientKnown

-----------------------------------------------------------------------------
(* Action properties.                                                      *)

\* The source is removed only when a destination holds exactly what it held.
RemovedOnlyIfCopied ==
  [][ store.generation # 0 /\ store'.generation = 0 => \E p \in Procs : copy[p] = store ]_vars

\* A stored state is replaced only by a process that knows it.
ReplacedKnowingly ==
  [][ store'.generation > issued /\ store.generation # 0 =>
        \E p \in Procs : known[p].generation = store.generation /\ pc[p] = "rename" ]_vars

\* Only the connection the operator named is ever revoked: the generation is
\* still stored when the request goes out.
RevokedAsNamed ==
  [][ \A p \in Procs : pc[p] = "revoke" /\ live' # live => want[p] = store.generation ]_vars

\* What finds the storage lock taken may be tried again later: it fails before
\* the stored token was given up.
ContentionStrandsNothing ==
  [][ \A p \in Procs : pc[p] = "try lock" /\ pc'[p] = "failed" =>
        (store.token \in mishaps' => store.token \in mishaps) ]_vars

-----------------------------------------------------------------------------
(* Liveness.                                                               *)

\* Whoever takes the lease gives it back, however its command goes.
LeaseReleased == \A p \in Procs : HasLease(p) ~> ~HasLease(p)
=============================================================================
