--------------------------- MODULE Handoff_proofs ---------------------------
(***************************************************************************)
(* Proofs about the handoff, for any number of handoffs and of staging     *)
(* states.                                                                 *)
(***************************************************************************)
EXTENDS HandoffSafety, TLAPS

\* The destination holds the whole of what p moved.
Moved(p) == dest.file = "whole" /\ dest.by = p

\* p has found its bytes at the destination.
Found(p) ==
  pc[p] \in {"verify", "check moved", "cleanup", "unlinked"} \/ report[p] \in Verified

\* Workers are started by attempts, and only they make a directory as p's.
Attempts == \A p \in Handoffs : /\ attempted[p] <=> worker[p] # "none"
                                /\ dest.by = p => worker[p] # "none"

\* A report is the last step, and it tells of an attempt.
Reports == \A p \in Handoffs :
  /\ report[p] # "none" => pc[p] = "reported"
  /\ report[p] = "failed, retry" => ~attempted[p]

\* What has been found stays.
Finds == \A p \in Handoffs : Found(p) => Moved(p)

\* The inductive invariant.
IInv == TypeOK /\ Attempts /\ Reports /\ Finds /\ ConnectionKept

-----------------------------------------------------------------------------
(* Initially.                                                              *)

LEMMA InitIInv == Init => IInv
  BY NobodyAssumption
  DEF Init, IInv, TypeOK, Destination, Attempts, Reports, Finds, Found, Moved, ConnectionKept,
      Verified, Ended, DockerCalls, Leasing

-----------------------------------------------------------------------------
(* The destination.                                                        *)

\* What is in the state directory keeps its maker, and stays whole.
DestKept ==
  dest.there => /\ dest'.there /\ dest'.by = dest.by
                /\ dest.file = "whole" => dest'.file = "whole"

\* A directory is made for the worker that makes it, or by the bridge.
DestMade ==
  dest'.there /\ ~dest.there =>
    dest'.by = "bridge" \/ \E p \in Handoffs : worker[p] = "pending" /\ dest'.by = p

LEMMA DestSteps ==
  ASSUME TypeOK, [Next]_vars
  PROVE  dest' \in Destination /\ DestKept /\ DestMade
<1>a. dest \in Destination
  BY DEF TypeOK
<1>1. CASE dest' = dest
  BY <1>1, <1>a DEF DestKept, DestMade
<1>2. ASSUME NEW p \in Handoffs, Create(p), dest' # dest
      PROVE  dest' \in Destination /\ DestKept /\ DestMade
  <2>1. PICK opened \in BOOLEAN :
          dest' = [there |-> TRUE, by |-> p, renewed |-> FALSE,
                   file |-> IF opened THEN "torn" ELSE "none"]
    BY <1>2 DEF Create
  <2>2. worker[p] = "pending" /\ ~dest.there
    BY <1>2 DEF Create
  <2> QED
    BY <2>1, <2>2, NobodyAssumption DEF Destination, DestKept, DestMade
<1>3. ASSUME NEW p \in Handoffs, Write(p), dest' # dest
      PROVE  dest' \in Destination /\ DestKept /\ DestMade
  <2>1. dest' = [dest EXCEPT !.file = "whole"]
    BY <1>3 DEF Write
  <2> QED
    BY <2>1, <1>a DEF Destination, DestKept, DestMade
<1>4. CASE BridgeUses
  BY <1>4, <1>a DEF BridgeUses, Destination, Nobody, DestKept, DestMade
<1>5. ASSUME NEW p \in Handoffs, Step(p), ~Create(p), ~Write(p) PROVE dest' = dest
  BY <1>5 DEF Step, Start, Configure, DockerFails, RequireStopped, Lease, Build, EnsureVolume,
              Transfer, Transferred, Validate, Cleanup, Unlinked, Crash
<1>6. ASSUME Compose \/ UNCHANGED vars PROVE dest' = dest
  BY <1>6 DEF Compose, vars
<1> QED
  BY <1>1, <1>2, <1>3, <1>4, <1>5, <1>6 DEF Next

-----------------------------------------------------------------------------
(* The script and its worker.                                              *)

\* A step of p leaves the other handoffs alone.
Apart(p) ==
  \A q \in Handoffs \ {p} : /\ pc'[q] = pc[q] /\ report'[q] = report[q]
                            /\ attempted'[q] = attempted[q] /\ worker'[q] = worker[q]

ScriptType ==
  /\ pc \in [Handoffs -> DockerCalls \cup Leasing \cup Ended \cup {"idle", "lease"}]
  /\ src \in [Handoffs -> Sources] /\ cleanup \in [Handoffs -> BOOLEAN]
  /\ attempted \in [Handoffs -> BOOLEAN]
  /\ worker \in [Handoffs -> {"none", "pending", "writing", "done", "failed"}]
  /\ report \in [Handoffs -> Verified \cup {"none", "failed, retry", "failed, inspect"}]

\* What a step of p makes of p: its attempt and its worker agree, it reports
\* last, and it passes only over what it has found.
Goes(p) ==
  /\ attempted'[p] <=> worker'[p] # "none"
  /\ worker[p] # "none" => worker'[p] # "none"
  /\ report'[p] # "none" => pc'[p] = "reported"
  /\ report'[p] = "failed, retry" => ~attempted'[p]
  /\ Found(p)' => Found(p) \/ Moved(p)

LEMMA GotoGoes ==
  ASSUME ScriptType, NEW p \in Handoffs, Attempts, Reports, pc[p] \notin {"reported"},
         NEW label \in DockerCalls \cup Leasing \cup {"idle", "lease", "crashed"},
         Goto(p, label), UNCHANGED worker,
         label \in {"verify", "check moved", "cleanup", "unlinked"} => Found(p) \/ Moved(p)
  PROVE  ScriptType' /\ Apart(p) /\ Goes(p)
BY DEF ScriptType, Attempts, Reports, Goto, Apart, Goes, Found, Ended, Verified

LEMMA TellGoes ==
  ASSUME ScriptType, NEW p \in Handoffs, Attempts, Reports,
         NEW what \in Verified \cup {"failed, retry", "failed, inspect"},
         Tell(p, what), UNCHANGED worker,
         what = "failed, retry" => ~attempted[p],
         what \in Verified => Found(p)
  PROVE  ScriptType' /\ Apart(p) /\ Goes(p)
BY DEF ScriptType, Attempts, Reports, Tell, Apart, Goes, Found, Ended, Verified

LEMMA FailGoes ==
  ASSUME ScriptType, NEW p \in Handoffs, Attempts, Reports, Fail(p), UNCHANGED worker
  PROVE  ScriptType' /\ Apart(p) /\ Goes(p)
<1>1. CASE attempted[p]
  BY <1>1, TellGoes DEF Fail, Verified
<1>2. CASE ~attempted[p]
  BY <1>2, TellGoes DEF Fail, Verified
<1> QED
  BY <1>1, <1>2

LEMMA ScriptSteps ==
  ASSUME ScriptType, Attempts, Reports, NEW p \in Handoffs, Step(p)
  PROVE  ScriptType' /\ Apart(p) /\ Goes(p)
<1> DEFINE Goal == ScriptType' /\ Apart(p) /\ Goes(p)
<1>1. CASE Start(p)
  BY <1>1, GotoGoes, FailGoes DEF Start, DockerCalls
<1>2. CASE Configure(p)
  BY <1>2, GotoGoes DEF Configure, DockerCalls
<1>3. CASE DockerFails(p)
  BY <1>3, FailGoes DEF DockerFails
<1>4. CASE RequireStopped(p)
  <2>1. CASE Fail(p)
    BY <1>4, <2>1, FailGoes DEF RequireStopped
  <2>2. CASE Goto(p, AfterCheck[pc[p]])
    <3>1. pc[p] \in {"check source", "check built", "check moved"}
      BY <1>4 DEF RequireStopped, AfterCheck
    <3>2. AfterCheck[pc[p]] \in {"lease", "volume", "cleanup"}
          /\ (AfterCheck[pc[p]] = "cleanup" => pc[p] = "check moved")
      BY <3>1 DEF AfterCheck
    <3> QED
      BY <1>4, <2>2, <3>1, <3>2, GotoGoes DEF RequireStopped, DockerCalls, Leasing, Found
  <2> QED
    BY <1>4, <2>1, <2>2 DEF RequireStopped
<1>5. CASE Lease(p)
  <2>1. pc[p] = "lease" /\ UNCHANGED worker /\ (Goto(p, "build") \/ Fail(p))
    BY <1>5 DEF Lease
  <2> QED
    BY <2>1, GotoGoes, FailGoes DEF DockerCalls
<1>6. CASE Build(p)
  BY <1>6, GotoGoes DEF Build, DockerCalls
<1>7. CASE EnsureVolume(p)
  <2>1. pc[p] = "volume" /\ UNCHANGED worker /\ (Goto(p, "transfer") \/ Fail(p))
    BY <1>7 DEF EnsureVolume
  <2> QED
    BY <2>1, GotoGoes, FailGoes DEF Leasing
<1>8. CASE Transfer(p)
  BY <1>8 DEF Transfer, ScriptType, Apart, Goes, Reports, Attempts, Found, DockerCalls, Ended, Verified
<1>9. CASE Transferred(p)
  <2>1. pc[p] = "await worker" /\ UNCHANGED worker /\ (Goto(p, "status") \/ Fail(p))
    BY <1>9 DEF Transferred
  <2> QED
    BY <2>1, GotoGoes, FailGoes DEF DockerCalls
<1>10. CASE Validate(p)
  <2>1. pc[p] \in {"status", "verify"} /\ UNCHANGED worker
    BY <1>10 DEF Validate
  <2>2. CASE Fail(p)
    BY <2>1, <2>2, FailGoes
  <2>3. CASE Content(p) /\ (Goto(p, "verify") \/ Goto(p, "check moved"))
    BY <2>1, <2>3, GotoGoes DEF DockerCalls, Content, Moved
  <2> QED
    BY <1>10, <2>2, <2>3 DEF Validate
<1>11. CASE Cleanup(p)
  <2>1. pc[p] = "cleanup" /\ UNCHANGED worker /\ Found(p)
    BY <1>11 DEF Cleanup, Found
  <2>2. CASE Goto(p, "unlinked")
    BY <2>1, <2>2, GotoGoes DEF Leasing
  <2>3. ASSUME NEW what \in Verified, Tell(p, what) PROVE Goal
    <3>1. what # "failed, retry"
      BY DEF Verified
    <3> QED
      BY <2>1, <2>3, <3>1, TellGoes
  <2> QED
    BY <1>11, <2>2, <2>3 DEF Cleanup, Verified
<1>12. CASE Unlinked(p)
  <2>1. pc[p] = "unlinked" /\ UNCHANGED worker /\ Found(p)
    BY <1>12 DEF Unlinked, Found
  <2>2. PICK what \in Verified : Tell(p, what)
    BY <1>12 DEF Unlinked
  <2>3. what # "failed, retry"
    BY DEF Verified
  <2> QED
    BY <2>1, <2>2, <2>3, TellGoes
<1>13. CASE Crash(p)
  BY <1>13, GotoGoes DEF Crash, Ended
<1>14. CASE Create(p) \/ Write(p)
  <2>1. UNCHANGED <<pc, src, cleanup, attempted, report>>
    BY <1>14 DEF Create, Write, script
  <2>2. PICK w \in {"writing", "done", "failed"} : worker' = [worker EXCEPT ![p] = w]
    BY <1>14 DEF Create, Write
  <2>3. worker[p] # "none"
    BY <1>14 DEF Create, Write
  <2>4. worker'[p] = w /\ \A q \in Handoffs \ {p} : worker'[q] = worker[q]
    BY <2>2 DEF ScriptType
  <2>5. ScriptType' /\ Apart(p)
    BY <2>1, <2>2, <2>4 DEF ScriptType, Apart
  <2>6. Goes(p)
    BY <2>1, <2>3, <2>4 DEF Goes, Attempts, Reports, Found
  <2> QED
    BY <2>5, <2>6
<1> QED
  BY <1>1, <1>2, <1>3, <1>4, <1>5, <1>6, <1>7, <1>8, <1>9, <1>10, <1>11, <1>12, <1>13, <1>14
  DEF Step

-----------------------------------------------------------------------------
(* The invariant.                                                          *)

LEMMA TypeStep ==
  ASSUME TypeOK, Attempts, Reports, [Next]_vars
  PROVE  TypeOK'
<1>1. dest' \in Destination
  BY DestSteps
<1>2. ScriptType'
  <2>1. ScriptType
    BY DEF TypeOK, ScriptType
  <2>2. ASSUME NEW p \in Handoffs, Step(p) PROVE ScriptType'
    BY <2>1, <2>2, ScriptSteps
  <2>3. CASE Compose \/ BridgeUses \/ UNCHANGED vars
    BY <2>1, <2>3 DEF Compose, BridgeUses, vars, script, ScriptType
  <2> QED
    BY <2>2, <2>3 DEF Next
<1>3. /\ staging' \in [Sources -> BOOLEAN] /\ volume' \in {"none", "ours", "foreign"}
      /\ bridge' \in {"none", "stopped", "running", "unsettled"}
  BY DEF TypeOK, Next, Step, vars, Start, Configure, DockerFails, RequireStopped, Lease, Build,
         EnsureVolume, Transfer, Transferred, Validate, Cleanup, Unlinked, Crash, Create, Write,
         Compose, BridgeUses
<1> QED
  BY <1>1, <1>2, <1>3 DEF TypeOK, ScriptType

\* What is whole by p stays so, and becomes so only by a worker of p.
LEMMA MovedStays ==
  ASSUME TypeOK, DestKept, NEW p \in Handoffs, Moved(p)
  PROVE  Moved(p)'
BY NobodyAssumption DEF TypeOK, Destination, DestKept, Moved

LEMMA NextAttempts ==
  ASSUME TypeOK, Attempts, Reports, [Next]_vars
  PROVE  Attempts'
<1>1. ScriptType
  BY DEF TypeOK, ScriptType
<1>2. DestKept /\ DestMade /\ dest' \in Destination /\ dest \in Destination
  BY DestSteps DEF TypeOK
<1>3. ASSUME NEW q \in Handoffs
      PROVE  /\ attempted'[q] <=> worker'[q] # "none"
             /\ worker[q] # "none" => worker'[q] # "none"
  <2>1. ASSUME NEW p \in Handoffs, Step(p)
        PROVE  /\ attempted'[q] <=> worker'[q] # "none"
               /\ worker[q] # "none" => worker'[q] # "none"
    BY <1>1, <2>1, ScriptSteps DEF Apart, Goes, Attempts
  <2>2. CASE Compose \/ BridgeUses \/ UNCHANGED vars
    BY <2>2 DEF Compose, BridgeUses, vars, script, Attempts
  <2> QED
    BY <2>1, <2>2 DEF Next
<1>4. ASSUME NEW q \in Handoffs, dest'.by = q PROVE worker[q] # "none"
  <2>1. q # Nobody /\ q # "bridge"
    BY NobodyAssumption
  <2>2. CASE dest.there
    BY <1>2, <1>4, <2>2 DEF DestKept, Attempts
  <2>3. CASE ~dest.there
    BY <1>2, <1>4, <2>1, <2>3 DEF DestMade, Destination
  <2> QED
    BY <2>2, <2>3
<1> QED
  BY <1>3, <1>4 DEF Attempts

LEMMA NextReports ==
  ASSUME TypeOK, Attempts, Reports, [Next]_vars
  PROVE  Reports'
<1>1. ScriptType
  BY DEF TypeOK, ScriptType
<1>2. ASSUME NEW p \in Handoffs, Step(p) PROVE Reports'
  BY <1>1, <1>2, ScriptSteps DEF Apart, Goes, Reports
<1>3. CASE Compose \/ BridgeUses \/ UNCHANGED vars
  BY <1>3 DEF Compose, BridgeUses, vars, script, Reports
<1> QED
  BY <1>2, <1>3 DEF Next

LEMMA NextFinds ==
  ASSUME TypeOK, Attempts, Reports, Finds, [Next]_vars
  PROVE  Finds'
<1>1. ScriptType
  BY DEF TypeOK, ScriptType
<1>2. ASSUME NEW q \in Handoffs, Found(q)' PROVE Found(q) \/ Moved(q)
  <2>1. ASSUME NEW p \in Handoffs, Step(p) PROVE Found(q) \/ Moved(q)
    <3>1. CASE p = q
      BY <1>1, <1>2, <2>1, <3>1, ScriptSteps DEF Goes
    <3>2. CASE p # q
      BY <1>1, <1>2, <2>1, <3>2, ScriptSteps DEF Apart, Found
    <3> QED
      BY <3>1, <3>2
  <2>2. CASE Compose \/ BridgeUses \/ UNCHANGED vars
    BY <1>2, <2>2 DEF Compose, BridgeUses, vars, script, Found
  <2> QED
    BY <2>1, <2>2 DEF Next
<1>3. DestKept
  BY DestSteps
<1> QED
  BY <1>2, <1>3, MovedStays DEF Finds

LEMMA NextConnection ==
  ASSUME TypeOK, Finds, ConnectionKept, [Next]_vars
  PROVE  ConnectionKept'
<1>1. src' = src
  BY DEF Next, Step, vars, script, Start, Configure, DockerFails, RequireStopped, Lease, Build,
         EnsureVolume, Transfer, Transferred, Validate, Cleanup, Unlinked, Crash, Create, Write,
         Compose, BridgeUses, Goto, Fail, Tell
<1>2. DestKept
  BY DestSteps
<1>3. ASSUME NEW s \in Sources, dest.file = "whole", dest.by \in Handoffs, src[dest.by] = s
      PROVE  dest'.file = "whole" /\ dest'.by \in Handoffs /\ src'[dest'.by] = s
  BY <1>1, <1>2, <1>3, NobodyAssumption DEF TypeOK, Destination, DestKept
<1>4. ASSUME NEW s \in Sources, staging[s], ~staging'[s]
      PROVE  dest.file = "whole" /\ dest.by \in Handoffs /\ src[dest.by] = s
  <2>1. PICK p \in Handoffs : Cleanup(p) /\ s = src[p]
    BY <1>4 DEF Next, Step, vars, Start, Configure, DockerFails, RequireStopped, Lease, Build,
                EnsureVolume, Transfer, Transferred, Validate, Cleanup, Unlinked, Crash, Create,
                Write, Compose, BridgeUses, TypeOK
  <2> QED
    BY <2>1 DEF Cleanup, Finds, Found, Moved
<1> QED
  BY <1>3, <1>4 DEF ConnectionKept

THEOREM Inductive == Spec => []IInv
<1>1. Init => IInv
  BY InitIInv
<1>2. IInv /\ [Next]_vars => IInv'
  BY TypeStep, NextAttempts, NextReports, NextFinds, NextConnection DEF IInv
<1> QED
  BY <1>1, <1>2, PTL DEF Spec

-----------------------------------------------------------------------------
(* What follows for the operator.                                          *)

\* The destination, the handoffs and their workers are of their types.
THEOREM TypeCorrect == Spec => []TypeOK
<1>1. IInv => TypeOK
  BY DEF IInv
<1> QED
  BY <1>1, Inductive, PTL

\* A destination reported as verified has the whole state, and keeps it.
THEOREM VerifiedIsMoved == Spec => []VerifiedMeansMoved
<1>1. IInv => VerifiedMeansMoved
  BY DEF IInv, VerifiedMeansMoved, Finds, Found, Moved
<1> QED
  BY <1>1, Inductive, PTL

\* No staging state is removed but for a whole copy of it.
THEOREM ConnectionIsKept == Spec => []ConnectionKept
<1>1. IInv => ConnectionKept
  BY DEF IInv
<1> QED
  BY <1>1, Inductive, PTL

\* Where a retry is advised, nothing has been or will be touched.
THEOREM RetriesAreSafe == Spec => []RetryIsSafe
<1>1. IInv => RetryIsSafe
  BY DEF IInv, RetryIsSafe, Attempts, Reports
<1> QED
  BY <1>1, Inductive, PTL

\* A state is written once, whatever workers and bridges race for it.
THEOREM StateIsWrittenOnce == Spec => WrittenOnce
<1>1. TypeOK /\ [Next]_vars => DestKept
  BY DestSteps
<1>2. TypeOK /\ [Next]_vars =>
        [dest.there => /\ dest'.there /\ dest'.by = dest.by
                       /\ dest.file = "whole" => dest'.file = "whole"]_dest
  BY <1>1 DEF DestKept
<1> QED
  BY <1>2, TypeCorrect, PTL DEF Spec, WrittenOnce

=============================================================================
