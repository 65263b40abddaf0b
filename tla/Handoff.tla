------------------------------ MODULE Handoff -------------------------------
(***************************************************************************)
(* The script that moves the operator's staging OAuth state into the       *)
(* volume of a Compose project, seen from the destination.                 *)
(*                                                                         *)
(* The script drives Docker by commands that fail or run out of time.  A   *)
(* container whose client is killed goes on: the transfer worker of a      *)
(* handoff that has reported, or crashed, may still create the state, and  *)
(* takes whatever part of its input it gets for the whole.  Several        *)
(* handoffs of one or several staging states may run, and the operator may *)
(* start and stop the bridge at any time.  What the lease of the staging   *)
(* state guarantees against its other users is in OAuthStore.              *)
(***************************************************************************)
EXTENDS Naturals

CONSTANTS
  Handoffs,   \* runs of the script
  Sources     \* staging states

Nobody == "nobody"
ASSUME NobodyAssumption == Nobody \notin Handoffs /\ "bridge" \notin Handoffs

VARIABLES
  staging,    \* is the staging state still there
  volume,     \* the destination volume: none, that of the project, or another's
  dest,       \* its state directory: who made it, the file, renewed by the bridge?
  bridge,     \* the container of the bridge
  pc,         \* where a handoff is
  src,        \* the staging state it moves
  cleanup,    \* is it to remove it
  attempted,  \* transfer_attempted
  worker,     \* its transfer worker
  report      \* what it tells the operator

script == <<pc, src, cleanup, attempted, report>>
vars   == <<staging, volume, dest, bridge, worker, script>>

DockerCalls == {"configure", "check source", "build", "check built", "volume", "await worker",
                "status", "verify", "check moved"}
Leasing == {"build", "check built", "volume", "transfer", "await worker", "status", "verify",
            "check moved", "cleanup", "unlinked"}
Ended   == {"reported", "crashed"}

Verified == {"verified", "verified, cleanup failed"}

\* Mutant of Content: a torn state passes.
ContentAny(p) == dest.by = p

\* The destination holds the bytes p read, which nobody has renewed since.
Content(p) == dest.file = "whole" /\ dest.by = p /\ ~dest.renewed

Goto(p, label) ==
  pc' = [pc EXCEPT ![p] = label] /\ UNCHANGED <<src, cleanup, attempted, report>>

Tell(p, what) ==
  /\ pc' = [pc EXCEPT ![p] = "reported"] /\ report' = [report EXCEPT ![p] = what]
  /\ UNCHANGED <<src, cleanup, attempted>>

\* A failure advises to retry only if no transfer has been attempted.
Fail(p) == Tell(p, IF attempted[p] THEN "failed, inspect" ELSE "failed, retry")

-----------------------------------------------------------------------------
(* The script.                                                             *)

Start(p) ==
  /\ pc[p] = "idle"
  /\ (staging[src[p]] /\ Goto(p, "configure")) \/ Fail(p)
  /\ UNCHANGED <<staging, volume, dest, bridge, worker>>

Configure(p) ==
  /\ pc[p] = "configure" /\ Goto(p, "check source")
  /\ UNCHANGED <<staging, volume, dest, bridge, worker>>

\* A Docker command does not run, exits with an error, answers with what the
\* script does not accept, or runs out of time: its container goes on.
DockerFails(p) ==
  /\ pc[p] \in DockerCalls
  /\ Fail(p)
  /\ UNCHANGED <<staging, volume, dest, bridge, worker>>

\* The bridge must have no container, or a stopped one: asked before the
\* lease, before the transfer, and after the verification.
AfterCheck == [c \in {"check source", "check built", "check moved"} |->
  IF c = "check source" THEN "lease" ELSE IF c = "check built" THEN "volume" ELSE "cleanup"]

RequireStopped(p) ==
  /\ pc[p] \in DOMAIN AfterCheck
  /\ IF bridge \in {"none", "stopped"} THEN Goto(p, AfterCheck[pc[p]]) ELSE Fail(p)
  /\ UNCHANGED <<staging, volume, dest, bridge, worker>>

\* The lease is taken and the state read, which nobody else changes then.
Lease(p) ==
  /\ pc[p] = "lease"
  /\ IF staging[src[p]] /\ \A q \in Handoffs : pc[q] \in Leasing => src[q] # src[p]
     THEN Goto(p, "build") ELSE Fail(p)
  /\ UNCHANGED <<staging, volume, dest, bridge, worker>>

Build(p) ==
  /\ pc[p] = "build" /\ Goto(p, "check built")
  /\ UNCHANGED <<staging, volume, dest, bridge, worker>>

\* The volume is created, or there already with the project's labels.
EnsureVolume(p) ==
  /\ pc[p] = "volume"
  /\ IF volume = "foreign" THEN Fail(p) /\ UNCHANGED volume
     ELSE /\ volume' = "ours"
          /\ Goto(p, "transfer") \/ Fail(p)
  /\ UNCHANGED <<staging, dest, bridge, worker>>

\* Mutant of Transfer: the attempt is noted only when it has succeeded.
TransferUnnoted(p) ==
  /\ pc[p] = "transfer"
  /\ Goto(p, "await worker")
  /\ worker' = [worker EXCEPT ![p] = "pending"]
  /\ UNCHANGED <<staging, volume, dest, bridge>>

Transfer(p) ==
  /\ pc[p] = "transfer"
  /\ pc' = [pc EXCEPT ![p] = "await worker"]
  /\ attempted' = [attempted EXCEPT ![p] = TRUE]
  /\ worker' = [worker EXCEPT ![p] = "pending"]
  /\ UNCHANGED <<staging, volume, dest, bridge, src, cleanup, report>>

\* Mutant of Transferred: what the worker says is believed.
TransferredUnverified(p) ==
  /\ pc[p] = "await worker" /\ worker[p] \in {"done", "failed"}
  /\ IF worker[p] = "done" THEN Goto(p, "check moved") ELSE Fail(p)
  /\ UNCHANGED <<staging, volume, dest, bridge, worker>>

Transferred(p) ==
  /\ pc[p] = "await worker" /\ worker[p] \in {"done", "failed"}
  /\ IF worker[p] = "done" THEN Goto(p, "status") ELSE Fail(p)
  /\ UNCHANGED <<staging, volume, dest, bridge, worker>>

\* A container reads the generation of the state at its place; another one
\* compares the bytes.
Validate(p) ==
  /\ pc[p] \in {"status", "verify"}
  /\ IF Content(p) THEN Goto(p, IF pc[p] = "status" THEN "verify" ELSE "check moved")
     ELSE Fail(p)
  /\ UNCHANGED <<staging, volume, dest, bridge, worker>>

\* The staging state is compared and unlinked, then the rest of its
\* directory.  Whatever fails then, the destination has been verified.
Cleanup(p) ==
  /\ pc[p] = "cleanup"
  /\ IF ~cleanup[p] THEN Tell(p, "verified") /\ UNCHANGED staging
     ELSE \/ Tell(p, "verified, cleanup failed") /\ UNCHANGED staging
          \/ Goto(p, "unlinked") /\ staging' = [staging EXCEPT ![src[p]] = FALSE]
  /\ UNCHANGED <<volume, dest, bridge, worker>>

Unlinked(p) ==
  /\ pc[p] = "unlinked"
  /\ \E what \in Verified : Tell(p, what)
  /\ UNCHANGED <<staging, volume, dest, bridge, worker>>

\* The script is killed: it reports nothing.
Crash(p) ==
  /\ pc[p] \notin Ended \cup {"idle"}
  /\ Goto(p, "crashed")
  /\ UNCHANGED <<staging, volume, dest, bridge, worker>>

-----------------------------------------------------------------------------
(* The transfer worker, in its container, however late.                    *)

\* Mutant of Create: a directory that is there is used.
CreateAnyway(p) ==
  /\ worker[p] = "pending"
  /\ \/ worker' = [worker EXCEPT ![p] = "failed"] /\ UNCHANGED dest
     \/ \E opened \in BOOLEAN :
          /\ worker' = [worker EXCEPT ![p] = IF opened THEN "writing" ELSE "failed"]
          /\ dest' = [there |-> TRUE, by |-> p, renewed |-> FALSE,
                      file |-> IF opened THEN "torn" ELSE "none"]
  /\ UNCHANGED <<staging, volume, bridge, script>>

\* It makes the directory, which must not be there, and the file in it.
Create(p) ==
  /\ worker[p] = "pending"
  /\ \/ worker' = [worker EXCEPT ![p] = "failed"] /\ UNCHANGED dest
     \/ ~dest.there
          /\ \E opened \in BOOLEAN :
               /\ worker' = [worker EXCEPT ![p] = IF opened THEN "writing" ELSE "failed"]
               /\ dest' = [there |-> TRUE, by |-> p, renewed |-> FALSE,
                           file |-> IF opened THEN "torn" ELSE "none"]
  /\ UNCHANGED <<staging, volume, bridge, script>>

\* It writes its input, of which it may get and write a part without an
\* error.
Write(p) ==
  /\ worker[p] = "writing"
  /\ \/ worker' = [worker EXCEPT ![p] = "done"] /\ dest' = [dest EXCEPT !.file = "whole"]
     \/ \E exit \in {"done", "failed"} : worker' = [worker EXCEPT ![p] = exit] /\ UNCHANGED dest
  /\ UNCHANGED <<staging, volume, bridge, script>>

-----------------------------------------------------------------------------
(* The operator and the bridge of the destination.                         *)

Compose ==
  /\ bridge' \in {"none", "stopped", "running", "unsettled"} \ {bridge}
  /\ volume' = IF bridge' # "none" /\ volume = "none" THEN "ours" ELSE volume
  /\ UNCHANGED <<staging, dest, worker, script>>

\* Mutant of BridgeUses: a torn state is taken for a state.
BridgeUsesTorn ==
  /\ bridge = "running"
  /\ dest' = IF ~dest.there
             THEN [there |-> TRUE, by |-> "bridge", file |-> "none", renewed |-> FALSE]
             ELSE [dest EXCEPT !.renewed = dest.file # "none"]
  /\ dest' # dest
  /\ UNCHANGED <<staging, volume, bridge, worker, script>>

\* A session of the bridge makes the directory when there is none, and
\* renews a state it can read.
BridgeUses ==
  /\ bridge = "running"
  /\ dest' = IF ~dest.there
             THEN [there |-> TRUE, by |-> "bridge", file |-> "none", renewed |-> FALSE]
             ELSE [dest EXCEPT !.renewed = dest.file = "whole"]
  /\ dest' # dest
  /\ UNCHANGED <<staging, volume, bridge, worker, script>>

-----------------------------------------------------------------------------
Init ==
  /\ staging = [s \in Sources |-> TRUE]
  /\ volume \in {"none", "ours", "foreign"} /\ bridge \in {"none", "stopped", "running"}
  /\ dest = [there |-> FALSE, by |-> Nobody, file |-> "none", renewed |-> FALSE]
  /\ pc = [p \in Handoffs |-> "idle"]
  /\ src \in [Handoffs -> Sources] /\ cleanup \in [Handoffs -> BOOLEAN]
  /\ attempted = [p \in Handoffs |-> FALSE]
  /\ worker = [p \in Handoffs |-> "none"]
  /\ report = [p \in Handoffs |-> "none"]

Step(p) ==
  \/ Start(p) \/ Configure(p) \/ DockerFails(p) \/ RequireStopped(p) \/ Lease(p) \/ Build(p)
  \/ EnsureVolume(p) \/ Transfer(p) \/ Transferred(p) \/ Validate(p) \/ Cleanup(p)
  \/ Unlinked(p) \/ Crash(p) \/ Create(p) \/ Write(p)

Next == (\E p \in Handoffs : Step(p)) \/ Compose \/ BridgeUses

Spec == Init /\ [][Next]_vars

=============================================================================
