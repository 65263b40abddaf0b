---------------------------- MODULE HandoffSafety ----------------------------
(* What an operator may believe of a handoff's report.                     *)
EXTENDS Handoff

\* A state directory that is not there is nobody's; only a whole state can
\* have been renewed.
Destination ==
  { d \in [there : BOOLEAN, by : Handoffs \cup {Nobody, "bridge"},
           file : {"none", "torn", "whole"}, renewed : BOOLEAN] :
      (d.there <=> d.by # Nobody) /\ (d.renewed => d.file = "whole") }

\* The destination, the handoffs and their workers are of their types.
TypeOK ==
  /\ staging \in [Sources -> BOOLEAN] /\ volume \in {"none", "ours", "foreign"}
  /\ dest \in Destination
  /\ bridge \in {"none", "stopped", "running", "unsettled"}
  /\ pc \in [Handoffs -> DockerCalls \cup Leasing \cup Ended \cup {"idle", "lease"}]
  /\ src \in [Handoffs -> Sources] /\ cleanup \in [Handoffs -> BOOLEAN]
  /\ attempted \in [Handoffs -> BOOLEAN]
  /\ worker \in [Handoffs -> {"none", "pending", "writing", "done", "failed"}]
  /\ report \in [Handoffs -> Verified \cup {"none", "failed, retry", "failed, inspect"}]

\* A handoff that reports a verified destination, cleaned up or not, has put
\* its whole state there, and there it stays.
VerifiedMeansMoved ==
  \A p \in Handoffs : report[p] \in Verified => dest.file = "whole" /\ dest.by = p

\* The renewable connection is never lost: a staging state is removed only
\* when the destination has the whole of it, whatever crashes and whichever
\* other handoffs, workers and bridges are about.
ConnectionKept ==
  \A s \in Sources :
    staging[s] \/ (dest.file = "whole" /\ dest.by \in Handoffs /\ src[dest.by] = s)

\* A handoff that advises to retry has not touched the destination and never
\* will: no worker of it is waiting to make what the retry would refuse.
RetryIsSafe ==
  \A p \in Handoffs :
    report[p] = "failed, retry" => worker[p] = "none" /\ dest.by # p

\* Who makes the state directory is the only one to write the state in it,
\* and a whole state is never truncated, overwritten or removed.
WrittenOnce ==
  [][dest.there => /\ dest'.there /\ dest'.by = dest.by
                   /\ dest.file = "whole" => dest'.file = "whole"]_dest

=============================================================================
