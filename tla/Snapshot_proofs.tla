--------------------------- MODULE Snapshot_proofs ---------------------------
(***************************************************************************)
(* Proofs about snapshots, for any number of executions, any time and      *)
(* bounds, and whatever Finary answers within the schemas: the types, the  *)
(* successes a reader is shown, the freshness a snapshot claims, and the   *)
(* contract by which two programs judge it.                                *)
(***************************************************************************)
EXTENDS SnapshotSafety, FiniteSetTheorems, SequenceTheorems, TLAPS

-----------------------------------------------------------------------------
(* Types.                                                                  *)

LEMMA InitTypeOK == Init => TypeOK
<1> SUFFICES ASSUME Init PROVE TypeOK
  OBVIOUS
<1>1. now \in StartTime .. MaxTime /\ offset \in [Clocks -> -1 .. 1] /\ adjusted \subseteq Clocks
      /\ adjustments \in 0 .. MaxAdjustments
  BY TimesAssumption DEF Init
<1>2. /\ phase = "idle" /\ run = Null /\ draft = Null /\ detail = NoDetail /\ terminals = {}
      /\ stage = [r \in Runs |-> "idle"]
  BY DEF Init
<1>3. { t.run : t \in terminals } = { r \in Runs : stage[r] = "succeeded" }
  BY <1>2
<1>4. \A r \in Runs : stage[r] = "collecting" <=> run = r
  BY <1>2, NullAssumption
<1>5. stage \in [Runs -> {"idle", "waiting", "collecting", "writing", "succeeded", "failed"}]
  BY <1>2
<1> QED
  BY <1>1, <1>2, <1>3, <1>4, <1>5 DEF TypeOK

\* What the draft is of.
LEMMA DraftTimes == ASSUME NEW t PROVE Draft(t).ended = t /\ Draft(t).generated = t
BY DEF Draft

\* A step of the session on its way.
LEMMA SessionTypeOK ==
  ASSUME TypeOK,
         UNCHANGED <<now, offset, adjusted, adjustments, stage, terminals, run, draft>>,
         phase \in {"overview", "accounts", "holdings"},
         phase' \in {"accounts", "holdings", "close"},
         phase' = "accounts" => phase = "overview" /\ detail' = detail
  PROVE  TypeOK'
<1>1. run # Null /\ draft = Null
  BY DEF TypeOK
<1>2. IF phase' \in {"answered", "refused"}
      THEN draft'.ended \in Int /\ draft'.generated = draft'.ended
      ELSE draft' = Null /\ (phase' \in {"idle", "overview", "accounts"} => detail' = NoDetail)
  BY <1>1 DEF TypeOK
<1> QED
  BY <1>1, <1>2 DEF TypeOK

\* A step of an execution beside the session.
LEMMA ExecutionTypeOK ==
  ASSUME TypeOK, UNCHANGED <<now, offset, adjusted, adjustments, phase, run, detail, draft, terminals>>,
         NEW r \in Runs, stage[r] \in {"idle", "waiting", "writing"},
         NEW s \in {"waiting", "failed"}, stage' = [stage EXCEPT ![r] = s]
  PROVE  TypeOK'
<1>1. stage' \in [Runs -> {"idle", "waiting", "collecting", "writing", "succeeded", "failed"}]
      /\ stage'[r] = s /\ \A q \in Runs : q # r => stage'[q] = stage[q]
  BY DEF TypeOK
<1>2. \A q \in Runs : stage'[q] = "collecting" <=> stage[q] = "collecting"
  BY <1>1
<1>3. { q \in Runs : stage'[q] = "succeeded" } = { q \in Runs : stage[q] = "succeeded" }
  BY <1>1
<1> QED
  BY <1>1, <1>2, <1>3 DEF TypeOK

\* The session ends and its execution goes on.
LEMMA EndTypeOK ==
  ASSUME TypeOK, UNCHANGED <<now, offset, adjusted, adjustments, terminals>>, NoSession,
         run # Null, NEW s \in {"writing", "failed"}, stage' = [stage EXCEPT ![run] = s]
  PROVE  TypeOK'
<1>1. run \in Runs /\ stage[run] = "collecting"
  BY DEF TypeOK
<1>2. stage' \in [Runs -> {"idle", "waiting", "collecting", "writing", "succeeded", "failed"}]
      /\ stage'[run] = s /\ \A q \in Runs : q # run => stage'[q] = stage[q]
  BY <1>1 DEF TypeOK
<1>3. phase' = "idle" /\ run' = Null /\ draft' = Null /\ detail' = NoDetail
  BY DEF NoSession
<1>4. \A q \in Runs : stage'[q] = "collecting" <=> run' = q
  BY <1>2, <1>3, NullAssumption DEF TypeOK
<1>5. { q \in Runs : stage'[q] = "succeeded" } = { q \in Runs : stage[q] = "succeeded" }
  BY <1>1, <1>2
<1> QED
  BY <1>2, <1>3, <1>4, <1>5 DEF TypeOK

LEMMA CompleteTypeOK ==
  ASSUME TypeOK, NEW r \in Runs, Complete(r)
  PROVE  TypeOK'
<1> DEFINE t == [run |-> r, generated |-> generated[r], completed |-> Reading("n8n")]
<1>1. /\ terminals' = terminals \cup {t} /\ stage[r] = "writing"
      /\ stage' = [stage EXCEPT ![r] = "succeeded"]
      /\ UNCHANGED <<now, offset, adjusted, adjustments, phase, run, detail, draft>>
  BY DEF Complete, clocks, session
<1>2. t.run = r
  OBVIOUS
<1> HIDE DEF t
<1>3. stage' \in [Runs -> {"idle", "waiting", "collecting", "writing", "succeeded", "failed"}]
      /\ stage'[r] = "succeeded" /\ \A q \in Runs : q # r => stage'[q] = stage[q]
  BY <1>1 DEF TypeOK
<1>4. { q \in Runs : stage'[q] = "succeeded" } = { q \in Runs : stage[q] = "succeeded" } \cup {r}
  BY <1>3
<1>5. { u.run : u \in terminals' } = { u.run : u \in terminals } \cup {r}
  BY <1>1, <1>2
<1>6. { u.run : u \in terminals' } = { q \in Runs : stage'[q] = "succeeded" }
  BY <1>4, <1>5 DEF TypeOK
<1>7. \A q \in Runs : stage'[q] = "collecting" <=> stage[q] = "collecting"
  BY <1>1, <1>3
<1> QED
  BY <1>1, <1>3, <1>6, <1>7 DEF TypeOK

LEMMA NextTypeOK == TypeOK /\ [Next]_vars => TypeOK'
<1> SUFFICES ASSUME TypeOK, [Next]_vars PROVE TypeOK'
  OBVIOUS
<1>1. ASSUME NEW r \in Runs, Begin(r) PROVE TypeOK'
  BY <1>1, ExecutionTypeOK DEF Begin, clocks, session
<1>2. ASSUME NEW r \in Runs, Lease(r) PROVE TypeOK'
  <2>1. /\ phase = "idle" /\ stage[r] = "waiting" /\ phase' = "overview" /\ run' = r
        /\ stage' = [stage EXCEPT ![r] = "collecting"]
        /\ UNCHANGED <<now, offset, adjusted, adjustments, detail, draft, terminals>>
    BY <1>2 DEF Lease, clocks
  <2>2. run = Null /\ draft = Null /\ detail = NoDetail
    BY <2>1 DEF TypeOK
  <2>3. stage' \in [Runs -> {"idle", "waiting", "collecting", "writing", "succeeded", "failed"}]
        /\ stage'[r] = "collecting" /\ \A q \in Runs : q # r => stage'[q] = stage[q]
    BY <2>1 DEF TypeOK
  <2>4. \A q \in Runs : stage'[q] = "collecting" <=> run' = q
    BY <2>1, <2>2, <2>3, NullAssumption DEF TypeOK
  <2>5. { q \in Runs : stage'[q] = "succeeded" } = { q \in Runs : stage[q] = "succeeded" }
    BY <2>1, <2>3
  <2>6. r # Null
    BY NullAssumption
  <2> QED
    BY <2>1, <2>2, <2>3, <2>4, <2>5, <2>6 DEF TypeOK
<1>3. ASSUME NEW r \in Runs, CollectionFails(r) PROVE TypeOK'
  <2>1. UNCHANGED <<now, offset, adjusted, adjustments, terminals>> /\ stage' = [stage EXCEPT ![r] = "failed"]
    BY <1>3 DEF CollectionFails, clocks
  <2>2. CASE stage[r] = "waiting" /\ UNCHANGED session
    BY <2>1, <2>2, ExecutionTypeOK DEF session
  <2>3. CASE run = r /\ NoSession
    <3>1. run # Null
      BY <2>3, NullAssumption
    <3> QED
      BY <2>1, <2>3, <3>1, EndTypeOK
  <2> QED
    BY <1>3, <2>2, <2>3 DEF CollectionFails
<1>4. ASSUME NEW r \in Runs, Complete(r) PROVE TypeOK'
  BY <1>4, CompleteTypeOK
<1>5. ASSUME NEW r \in Runs, WriteFails(r) PROVE TypeOK'
  BY <1>5, ExecutionTypeOK DEF WriteFails, clocks, session
<1>6. CASE ReadOverview
  BY <1>6, SessionTypeOK DEF ReadOverview, Proceeds, clocks, records
<1>7. CASE ReadAccounts
  <2>1. phase = "accounts" /\ phase' \in {"holdings", "close"} /\ UNCHANGED <<clocks, run, draft, records>>
    BY <1>7 DEF ReadAccounts, Proceeds
  <2> QED
    BY <2>1, SessionTypeOK DEF clocks, records
<1>8. CASE ReadHoldings
  BY <1>8, SessionTypeOK DEF ReadHoldings, Proceeds, clocks, records
<1>9. CASE Assemble
  <2>1. /\ phase = "close" /\ phase' \in {"answered", "refused"} /\ draft' = Draft(Reading("bridge"))
        /\ UNCHANGED <<now, offset, adjusted, adjustments, run, detail, stage, terminals>>
    BY <1>9 DEF Assemble, Proceeds, clocks, records
  <2>2. Reading("bridge") \in Int
    BY TimesAssumption DEF TypeOK, Reading, Clocks
  <2>3. draft'.ended = Reading("bridge") /\ draft'.generated = Reading("bridge")
    BY <2>1, DraftTimes
  <2> QED
    BY <2>1, <2>2, <2>3 DEF TypeOK
<1>10. CASE Receive
  <2>1. /\ UNCHANGED <<now, offset, adjusted, adjustments, terminals>> /\ NoSession
        /\ phase \in {"answered", "refused"}
        /\ \/ stage' = [stage EXCEPT ![run] = "writing"]
           \/ stage' = [stage EXCEPT ![run] = "failed"]
    BY <1>10 DEF Receive, clocks
  <2>2. run # Null
    BY <2>1 DEF TypeOK
  <2> QED
    BY <2>1, <2>2, EndTypeOK
<1>11. CASE Tick
  <2>1. now' = now + 1 /\ now < MaxTime
        /\ UNCHANGED <<offset, adjusted, adjustments, phase, run, detail, draft, stage, terminals>>
    BY <1>11 DEF Tick, session, records
  <2>2. now' \in StartTime .. MaxTime
    BY <2>1, TimesAssumption DEF TypeOK
  <2> QED
    BY <2>1, <2>2 DEF TypeOK
<1>12. ASSUME NEW c \in Clocks, Adjust(c) PROVE TypeOK'
  <2>1. /\ adjusted' = adjusted \cup {c} /\ \E o \in -1 .. 1 : offset' = [offset EXCEPT ![c] = o]
        /\ adjustments' = adjustments + 1 /\ adjustments < MaxAdjustments
        /\ UNCHANGED <<now, phase, run, detail, draft, stage, terminals>>
    BY <1>12 DEF Adjust, session, records
  <2>2. offset' \in [Clocks -> -1 .. 1] /\ adjusted' \subseteq Clocks
    BY <2>1 DEF TypeOK
  <2>3. adjustments' \in 0 .. MaxAdjustments
    BY <2>1, TimesAssumption DEF TypeOK
  <2> QED
    BY <2>1, <2>2, <2>3 DEF TypeOK
<1>13. CASE UNCHANGED vars
  BY <1>13 DEF vars, clocks, session, records, TypeOK
<1> QED
  BY <1>1, <1>2, <1>3, <1>4, <1>5, <1>6, <1>7, <1>8, <1>9, <1>10, <1>11, <1>12, <1>13 DEF Next

\* Whatever a session, the executions and the clocks do, they keep their types,
\* and one execution at a time is in the session.
THEOREM TypeCorrect == Spec => []TypeOK
BY InitTypeOK, NextTypeOK, PTL DEF Spec

-----------------------------------------------------------------------------
(* The successes of a reader.                                              *)

\* The clocks agree and have always done.
Agree == adjusted = {} /\ \A c, d \in Clocks : offset[c] = offset[d]

\* Times are times.
Instants ==
  /\ stage \in [Runs -> {"idle", "waiting", "collecting", "writing", "succeeded", "failed"}]
  /\ now \in Int /\ offset \in [Clocks -> Int] /\ generated \in [Runs -> Int]
  /\ phase \in {"answered", "refused"} => draft.generated \in Int
  /\ \A t \in terminals : t.generated \in Int /\ t.completed \in Int

\* Where the clocks agree, nothing has been generated or completed later
\* than now, nor completed before it was generated.
InOrder == Agree =>
  /\ phase \in {"answered", "refused"} => draft.generated <= Reading("bridge")
  /\ \A r \in Runs : stage[r] = "writing" => generated[r] <= Reading("bridge")
  /\ \A t \in terminals : t.generated <= t.completed /\ t.completed <= Reading("reader")

\* One success has been completed last.
Newest == terminals # {} => \E t \in terminals : \A u \in terminals : u.completed <= t.completed

\* The inductive invariant.
IInv == Instants /\ InOrder /\ Newest

-----------------------------------------------------------------------------
LEMMA InitIInv == Init => IInv
<1> SUFFICES ASSUME Init PROVE IInv
  OBVIOUS
<1>1. /\ stage \in [Runs -> {"idle", "waiting", "collecting", "writing", "succeeded", "failed"}]
      /\ now \in Int /\ offset \in [Clocks -> Int] /\ generated \in [Runs -> Int]
  BY TimesAssumption DEF Init
<1>2. phase = "idle" /\ terminals = {} /\ \A r \in Runs : stage[r] = "idle"
  BY DEF Init
<1> QED
  BY <1>1, <1>2 DEF IInv, Instants, InOrder, Newest

LEMMA ReadingType ==
  ASSUME Instants, NEW c \in Clocks
  PROVE  Reading(c) \in Int
BY DEF Instants, Reading

\* Agreeing clocks read the same.
LEMMA AgreeingReadings ==
  ASSUME Agree, NEW c \in Clocks, NEW d \in Clocks
  PROVE  Reading(c) = Reading(d)
BY DEF Agree, Reading

LEMMA ClocksAre == /\ "bridge" \in Clocks /\ "n8n" \in Clocks /\ "reader" \in Clocks
BY DEF Clocks

\* A step of the session that says nothing yet.
LEMMA SilentStep ==
  ASSUME IInv, UNCHANGED <<now, offset, adjusted, generated, terminals>>,
         phase' \in {"answered", "refused"} => phase' = phase /\ draft' = draft,
         stage' = stage \/ \E r \in Runs, s \in {"waiting", "collecting", "failed"} :
                             stage' = [stage EXCEPT ![r] = s]
  PROVE  IInv'
<1>1. /\ stage' \in [Runs -> {"idle", "waiting", "collecting", "writing", "succeeded", "failed"}]
      /\ \A r \in Runs : stage'[r] = "writing" => stage[r] = "writing"
  BY DEF IInv, Instants
<1> QED
  BY <1>1 DEF IInv, Instants, InOrder, Newest, Agree, Reading

LEMMA SilentSteps ==
  ASSUME IInv, \/ \E r \in Runs : Begin(r) \/ Lease(r) \/ CollectionFails(r) \/ WriteFails(r)
               \/ ReadOverview \/ ReadAccounts \/ ReadHoldings \/ UNCHANGED vars
  PROVE  IInv'
<1>1. ASSUME NEW r \in Runs, Begin(r) PROVE IInv'
  BY <1>1, SilentStep DEF Begin, clocks, session
<1>2. ASSUME NEW r \in Runs, Lease(r) PROVE IInv'
  BY <1>2, SilentStep DEF Lease, clocks
<1>3. ASSUME NEW r \in Runs, CollectionFails(r) PROVE IInv'
  BY <1>3, SilentStep DEF CollectionFails, NoSession, clocks, session
<1>4. ASSUME NEW r \in Runs, WriteFails(r) PROVE IInv'
  BY <1>4, SilentStep DEF WriteFails, clocks, session
<1>5. CASE ReadOverview \/ ReadHoldings
  BY <1>5, SilentStep DEF ReadOverview, ReadHoldings, clocks, records
<1>6. CASE ReadAccounts
  <2>1. phase' \in {"holdings", "close"} /\ UNCHANGED <<clocks, records>>
    BY <1>6 DEF ReadAccounts
  <2> QED
    BY <2>1, SilentStep DEF clocks, records
<1>7. CASE UNCHANGED vars
  BY <1>7, SilentStep DEF vars, clocks, session, records
<1> QED
  BY <1>1, <1>2, <1>3, <1>4, <1>5, <1>6, <1>7

LEMMA AssembleStep ==
  ASSUME IInv, Assemble
  PROVE  IInv'
<1>1. /\ draft' = Draft(Reading("bridge"))
      /\ UNCHANGED <<now, offset, adjusted, generated, terminals, stage>>
  BY DEF Assemble, clocks, records
<1>2. draft'.generated = Reading("bridge") /\ Reading("bridge") \in Int
  BY <1>1, DraftTimes, ReadingType, ClocksAre DEF IInv
<1> QED
  BY <1>1, <1>2 DEF IInv, Instants, InOrder, Newest, Agree, Reading

LEMMA ReceiveStep ==
  ASSUME IInv, Receive
  PROVE  IInv'
<1>1. /\ phase' = "idle" /\ UNCHANGED <<now, offset, adjusted, terminals>>
      /\ phase \in {"answered", "refused"}
  BY DEF Receive, NoSession, clocks
<1>2. CASE stage' = [stage EXCEPT ![run] = "failed"] /\ UNCHANGED generated
  <2>1. /\ stage' \in [Runs -> {"idle", "waiting", "collecting", "writing", "succeeded", "failed"}]
        /\ \A r \in Runs : stage'[r] = "writing" => stage[r] = "writing"
    BY <1>2 DEF IInv, Instants
  <2> QED
    BY <1>1, <1>2, <2>1 DEF IInv, Instants, InOrder, Newest, Agree, Reading
<1>3. CASE /\ stage' = [stage EXCEPT ![run] = "writing"]
           /\ generated' = [generated EXCEPT ![run] = draft.generated]
  <2>1. Instants'
    BY <1>1, <1>3 DEF IInv, Instants
  <2>2. ASSUME NEW r \in Runs, stage'[r] = "writing"
        PROVE  generated'[r] = draft.generated \/ (stage[r] = "writing" /\ generated'[r] = generated[r])
    <3>1. CASE r = run
      BY <1>3, <3>1 DEF IInv, Instants
    <3>2. CASE r # run
      BY <1>3, <2>2, <3>2 DEF IInv, Instants
    <3> QED
      BY <3>1, <3>2
  <2>3. InOrder' /\ Newest'
    BY <1>1, <2>2 DEF IInv, InOrder, Newest, Agree, Reading
  <2> QED
    BY <2>1, <2>3 DEF IInv
<1> QED
  BY <1>2, <1>3 DEF Receive

LEMMA CompleteStep ==
  ASSUME IInv, NEW r \in Runs, Complete(r)
  PROVE  IInv'
<1> DEFINE t == [run |-> r, generated |-> generated[r], completed |-> Reading("n8n")]
<1>1. /\ terminals' = terminals \cup {t} /\ stage[r] = "writing"
      /\ stage' = [stage EXCEPT ![r] = "succeeded"]
      /\ UNCHANGED <<now, offset, adjusted, generated, phase, draft>>
  BY DEF Complete, clocks, session
<1>2. t.completed = Reading("n8n") /\ t.generated = generated[r] /\ Reading("n8n") \in Int
  BY ReadingType, ClocksAre DEF IInv
<1> HIDE DEF t
<1>3. Instants'
  BY <1>1, <1>2 DEF IInv, Instants
<1>4. InOrder'
  <2> SUFFICES ASSUME Agree PROVE InOrder'
    BY <1>1 DEF InOrder, Agree
  <2>1. Reading("n8n") = Reading("bridge") /\ Reading("n8n") = Reading("reader")
    BY AgreeingReadings, ClocksAre
  <2>2. generated[r] <= Reading("bridge")
    BY <1>1 DEF IInv, InOrder
  <2>3. t.generated <= t.completed /\ t.completed <= Reading("reader")
    BY <1>2, <2>1, <2>2 DEF IInv, Instants
  <2>4. \A q \in Runs : stage'[q] = "writing" => stage[q] = "writing"
    BY <1>1 DEF IInv, Instants
  <2>5. Reading("bridge")' = Reading("bridge") /\ Reading("reader")' = Reading("reader")
    BY <1>1 DEF Reading
  <2> QED
    BY <1>1, <2>3, <2>4, <2>5 DEF IInv, InOrder
<1>5. Newest'
  <2>1. CASE terminals = {}
    BY <1>1, <1>2, <2>1 DEF Newest
  <2>2. CASE terminals # {}
    <3>1. PICK n \in terminals : \A u \in terminals : u.completed <= n.completed
      BY <2>2 DEF IInv, Newest
    <3>2. n.completed \in Int /\ \A u \in terminals : u.completed \in Int
      BY DEF IInv, Instants
    <3>3. CASE n.completed <= t.completed
      <4>1. \A u \in terminals' : u.completed <= t.completed
        BY <1>1, <1>2, <3>1, <3>2, <3>3
      <4> QED
        BY <1>1, <4>1 DEF Newest
    <3>4. CASE ~(n.completed <= t.completed)
      <4>1. \A u \in terminals' : u.completed <= n.completed
        BY <1>1, <1>2, <3>1, <3>2, <3>4
      <4> QED
        BY <1>1, <4>1 DEF Newest
    <3> QED
      BY <3>3, <3>4
  <2> QED
    BY <2>1, <2>2
<1> QED
  BY <1>3, <1>4, <1>5 DEF IInv

LEMMA TimeStep ==
  ASSUME IInv, Tick \/ \E c \in Clocks : Adjust(c)
  PROVE  IInv'
<1>1. CASE Tick
  <2>1. /\ now' = now + 1 /\ UNCHANGED <<offset, adjusted, generated, terminals, phase, draft, stage>>
    BY <1>1 DEF Tick, session, records
  <2>2. Instants' /\ Newest'
    BY <2>1 DEF IInv, Instants, Newest
  <2>3. /\ Reading("bridge") <= Reading("bridge")' /\ Reading("reader") <= Reading("reader")'
        /\ Reading("bridge") \in Int /\ Reading("reader") \in Int
        /\ Reading("bridge")' \in Int /\ Reading("reader")' \in Int
    BY <2>1, ClocksAre DEF IInv, Instants, Reading
  <2>4. InOrder'
    BY <2>1, <2>3 DEF IInv, Instants, InOrder, Agree
  <2> QED
    BY <2>2, <2>4 DEF IInv
<1>2. ASSUME NEW c \in Clocks, Adjust(c) PROVE IInv'
  <2>1. /\ adjusted' = adjusted \cup {c} /\ \E o \in -1 .. 1 : offset' = [offset EXCEPT ![c] = o]
        /\ UNCHANGED <<now, generated, terminals, phase, draft, stage>>
    BY <1>2 DEF Adjust, session, records
  <2>2. Instants' /\ Newest'
    BY <2>1 DEF IInv, Instants, Newest
  <2>3. InOrder'
    BY <2>1 DEF InOrder, Agree
  <2> QED
    BY <2>2, <2>3 DEF IInv
<1> QED
  BY <1>1, <1>2

LEMMA Inductive == Spec => []IInv
<1>1. IInv /\ [Next]_vars => IInv'
  BY SilentSteps, AssembleStep, ReceiveStep, CompleteStep, TimeStep DEF Next
<1> QED
  BY <1>1, InitIInv, PTL DEF Spec

-----------------------------------------------------------------------------
(* What follows for the reader.                                            *)

\* Two successes that are shown are one.
LEMMA ShownOnce == Instants => Cardinality(Shown) <= 1
<1> SUFFICES ASSUME Instants PROVE Cardinality(Shown) <= 1
  OBVIOUS
<1>1. ASSUME NEW t \in Shown, NEW u \in Shown PROVE t = u
  <2>1. /\ t \in terminals /\ Accepts(t) /\ \A v \in terminals : v.completed > t.completed => ~Accepts(v)
        /\ u \in terminals /\ Accepts(u) /\ \A v \in terminals : v.completed > u.completed => ~Accepts(v)
        /\ ~Tied
    BY DEF Shown
  <2>2. ~(t.completed > u.completed) /\ ~(u.completed > t.completed)
    BY <2>1
  <2>3. t.completed \in Int /\ u.completed \in Int
    BY <2>1 DEF Instants
  <2>4. t.completed = u.completed
    BY <2>2, <2>3
  <2> QED
    BY <2>1, <2>4 DEF Tied
<1>2. CASE Shown = {}
  BY <1>2, FS_EmptySet
<1>3. CASE Shown # {}
  <2>1. PICK t : Shown = {t}
    BY <1>1, <1>3
  <2>2. Cardinality({t}) = 1
    BY FS_Singleton, Zenon
  <2>3. Cardinality(Shown) = 1
    BY <2>1, <2>2
  <2> QED
    BY <2>3
<1> QED
  BY <1>2, <1>3

\* Where the clocks agree the success completed last is the one shown.
LEMMA NewestShown ==
  IInv /\ Agree /\ terminals # {} /\ ~Tied =>
    \E t \in Shown : \A u \in terminals : u.completed <= t.completed
<1> SUFFICES ASSUME IInv, Agree, terminals # {}, ~Tied
             PROVE  \E t \in Shown : \A u \in terminals : u.completed <= t.completed
  OBVIOUS
<1>1. PICK t \in terminals : \A u \in terminals : u.completed <= t.completed
  BY DEF IInv, Newest
<1>2. Accepts(t)
  BY DEF IInv, InOrder, Accepts
<1>3. \A u \in terminals : ~(u.completed > t.completed)
  BY <1>1 DEF IInv, Instants
<1>4. t \in Shown
  BY <1>2, <1>3 DEF Shown
<1> QED
  BY <1>1, <1>4

\* Whatever the clocks do the reader never shows two successes; where they
\* agree it shows the one completed last.
THEOREM SuccessIsServed == Spec => []SuccessServed
<1>1. IInv => SuccessServed
  BY ShownOnce, NewestShown DEF IInv, SuccessServed, Agree
<1> QED
  BY <1>1, Inductive, PTL

-----------------------------------------------------------------------------
(* What a detail says of the freshness.                                    *)

\* The parts of a detail.
Parts == {"accountsState", "holdingsState", "freshness", "accounts", "ownership", "connections",
          "positions", "rates", "warnings", "unsupported"}

Linked == { a \in answer.accounts : a.link # Null }

\* The connection of an account is there, without an error, and its last
\* success at most 48 h before the overview was read.
FineAt(a) ==
  /\ a.link.id \in DOMAIN answer.connections
  /\ LET c == answer.connections[a.link.id] IN
       ~c.error /\ c.success # Null /\ at - c.success <= StaleAfter

\* A warning names the account or its connection.
Named(a, warnings) ==
  \/ <<"MISSING_ENRICHMENT", a.id>> \in warnings
  \/ \E code \in {"BROKEN_CONNECTION", "STALE_SOURCE", "UNKNOWN_FRESHNESS"} :
       <<code, a.link.id>> \in warnings

\* What a detail claims is so at the instant of the overview.
Sincere(d) ==
  /\ d.freshness = "FRESH" => Linked # {} /\ \A a \in Linked : FineAt(a)
  /\ d.freshness = "NOT_APPLICABLE" => Linked = {}
  /\ d.accountsState = "COMPLETE" => \A a \in Linked : FineAt(a) \/ Named(a, d.warnings)

\* The parts of one detail are those of another but for more warnings and
\* what its holdings add.
Extends(e, d) ==
  /\ DOMAIN e = Parts
  /\ e.freshness = d.freshness /\ e.accountsState = d.accountsState
  /\ d.warnings \subseteq e.warnings

LEMMA ExtendsSincere ==
  ASSUME NEW d, NEW e, Sincere(d), Extends(e, d)
  PROVE  Sincere(e)
BY DEF Sincere, Extends, Named

LEMMA NoDetailIs ==
  /\ DOMAIN NoDetail = Parts /\ NoDetail.accountsState = "UNAVAILABLE"
  /\ NoDetail.holdingsState = "UNAVAILABLE" /\ NoDetail.freshness = "UNKNOWN"
  /\ NoDetail.accounts = {} /\ NoDetail.ownership = {} /\ NoDetail.connections = {}
  /\ NoDetail.positions = {} /\ NoDetail.rates = {} /\ NoDetail.unsupported = {}
BY DEF NoDetail, Parts

LEMMA NoDetailSincere == Sincere(NoDetail)
BY NoDetailIs DEF Sincere

LEMMA IncompleteExtends == ASSUME NEW d, DOMAIN d = Parts PROVE Extends(Incomplete(d), d)
BY DEF Incomplete, Extends, Parts

LEMMA HoldingsExtends == DOMAIN detail = Parts => Extends(HoldingsDetail, detail)
<1> SUFFICES ASSUME DOMAIN detail = Parts PROVE Extends(HoldingsDetail, detail)
  OBVIOUS
<1> DEFINE warned == detail.warnings \cup {<<"UNVERIFIED_DETAIL", Null>>}
<1>1. CASE Unsupported # {}
  <2>1. HoldingsDetail = [detail EXCEPT !.holdingsState = "PARTIAL", !.unsupported = Unsupported,
                                        !.warnings = warned]
    BY <1>1 DEF HoldingsDetail
  <2> QED
    BY <2>1 DEF Extends, Parts
<1>2. CASE Unsupported = {}
  <2> DEFINE P == { Position(h) : h \in answer.holdings }
             R == UNION { Rates(h) : h \in answer.holdings }
             W == warned \cup { <<"MISSING_ENRICHMENT", Position(h).key>> :
                    h \in { g \in answer.holdings : Product(g) # Null /\ ~Resolves(Product(g), answer.products) } }
  <2>1. HoldingsDetail = [detail EXCEPT !.holdingsState = "COMPLETE", !.positions = P, !.rates = R,
                                        !.warnings = W]
    BY <1>2 DEF HoldingsDetail
  <2>2. detail.warnings \subseteq W
    OBVIOUS
  <2> HIDE DEF P, R, W
  <2> QED
    BY <2>1, <2>2 DEF Extends, Parts
<1> QED
  BY <1>1, <1>2

LEMMA DraftExtends == ASSUME NEW t, DOMAIN detail = Parts PROVE Extends(Draft(t).detail, detail)
<1> DEFINE W == detail.warnings \cup (IF DebtValuation = "PARTIAL" THEN {<<"UNVALUED_DEBT", Null>>} ELSE {})
<1>1. Draft(t).detail = [detail EXCEPT !.warnings = W]
  BY DEF Draft
<1> QED
  BY <1>1 DEF Extends, Parts

\* The worst of some freshnesses.
WorstOf(states) ==
  LET Worst == <<"BROKEN", "STALE", "UNKNOWN", "FRESH">>
  IN Worst[CHOOSE i \in 1 .. 4 : Worst[i] \in states /\ \A j \in 1 .. i - 1 : Worst[j] \notin states]

LEMMA WorstIs ==
  ASSUME NEW states \in SUBSET {"BROKEN", "STALE", "UNKNOWN", "FRESH"}, states # {}
  PROVE  WorstOf(states) \in states /\ (WorstOf(states) = "FRESH" => states = {"FRESH"})
<1> DEFINE Worst == <<"BROKEN", "STALE", "UNKNOWN", "FRESH">>
           P(i) == Worst[i] \in states /\ \A j \in 1 .. i - 1 : Worst[j] \notin states
           w == CHOOSE i \in 1 .. 4 : P(i)
<1>1. \E i \in 1 .. 4 : P(i)
  <2>1. CASE "BROKEN" \in states
    BY <2>1
  <2>2. CASE "BROKEN" \notin states /\ "STALE" \in states
    <3>1. Worst[1] \notin states /\ Worst[2] \in states
      BY <2>2
    <3>2. P(2)
      BY <3>1
    <3> QED
      BY <3>2
  <2>3. CASE "BROKEN" \notin states /\ "STALE" \notin states /\ "UNKNOWN" \in states
    <3>1. Worst[1] \notin states /\ Worst[2] \notin states /\ Worst[3] \in states
      BY <2>3
    <3>2. P(3)
      BY <3>1
    <3> QED
      BY <3>2
  <2>4. CASE "BROKEN" \notin states /\ "STALE" \notin states /\ "UNKNOWN" \notin states /\ "FRESH" \in states
    <3>1. Worst[1] \notin states /\ Worst[2] \notin states /\ Worst[3] \notin states /\ Worst[4] \in states
      BY <2>4
    <3>2. P(4)
      BY <3>1
    <3> QED
      BY <3>2
  <2> QED
    BY <2>1, <2>2, <2>3, <2>4
<1>2. w \in 1 .. 4 /\ P(w)
  BY <1>1
<1> HIDE DEF w
<1>3. Worst[w] = "FRESH" => states = {"FRESH"}
  <2> SUFFICES ASSUME Worst[w] = "FRESH" PROVE states = {"FRESH"}
    OBVIOUS
  <2>1. w = 4
    BY <1>2
  <2>2. Worst[1] \notin states /\ Worst[2] \notin states /\ Worst[3] \notin states /\ Worst[4] \in states
    BY <1>2, <2>1
  <2> QED
    BY <2>2
<1> QED
  BY <1>2, <1>3 DEF w, WorstOf

LEMMA FreshnessIs ==
  ASSUME answer \in Answers, at \in Int, NEW i \in DOMAIN answer.connections
  PROVE  LET c == answer.connections[i] IN
         /\ Freshness(c) \in {"BROKEN", "STALE", "UNKNOWN", "FRESH"}
         /\ Freshness(c) = "FRESH" => ~c.error /\ c.success # Null /\ at - c.success <= StaleAfter
<1> DEFINE c == answer.connections[i]
<1>1. c.success \in Int \cup {Null} /\ StaleAfter \in Int
  BY SchemasAssumption, TimesAssumption
<1> HIDE DEF c
<1>2. /\ Freshness(c) \in {"BROKEN", "STALE", "UNKNOWN", "FRESH"}
      /\ Freshness(c) = "FRESH" => ~c.error /\ c.success # Null /\ at - c.success <= StaleAfter
  BY <1>1 DEF Freshness
<1> QED
  BY <1>2 DEF c

LEMMA ResolvedAre ==
  ASSUME answer \in Answers, at \in Int
  PROVE  /\ \A c \in Resolved : /\ c.key \in DOMAIN answer.connections
                                /\ c.freshness = Freshness(answer.connections[c.key])
                                /\ c.freshness \in {"BROKEN", "STALE", "UNKNOWN", "FRESH"}
                                /\ \E a \in Linked : c.key = a.link.id
         /\ \A a \in Linked : a.link.id \in DOMAIN answer.connections =>
              \E c \in Resolved : c.key = a.link.id
         /\ \A a \in Linked : a.link.id \notin DOMAIN answer.connections =>
              ConnectionState(a) = "UNRESOLVED"
         /\ \A a \in answer.accounts : ConnectionState(a) = "UNRESOLVED" => a \in Linked
<1> DEFINE row(a) == [key |-> a.link.id, freshness |-> Freshness(answer.connections[a.link.id])]
<1>1. Resolved = { row(a) : a \in { b \in answer.accounts : ConnectionState(b) = "RESOLVED" } }
  BY DEF Resolved
<1>2. \A a : row(a).key = a.link.id /\ row(a).freshness = Freshness(answer.connections[a.link.id])
  OBVIOUS
<1> HIDE DEF row
<1>3. \A a \in answer.accounts : ConnectionState(a) = "RESOLVED" <=>
        a \in Linked /\ a.link.id \in DOMAIN answer.connections
  BY DEF ConnectionState, Resolves, Linked
<1>4. \A c \in Resolved : \E a \in Linked : a.link.id \in DOMAIN answer.connections /\ c = row(a)
  BY <1>1, <1>3
<1>5. \A c \in Resolved : /\ c.key \in DOMAIN answer.connections
                          /\ c.freshness = Freshness(answer.connections[c.key])
                          /\ \E a \in Linked : c.key = a.link.id
  BY <1>2, <1>4
<1>6. \A i \in DOMAIN answer.connections :
        Freshness(answer.connections[i]) \in {"BROKEN", "STALE", "UNKNOWN", "FRESH"}
  BY FreshnessIs
<1>7. \A c \in Resolved : c.freshness \in {"BROKEN", "STALE", "UNKNOWN", "FRESH"}
  BY <1>5, <1>6
<1>8. \A a \in Linked : a.link.id \in DOMAIN answer.connections => \E c \in Resolved : c.key = a.link.id
  BY <1>1, <1>2, <1>3 DEF Linked
<1>9. \A a \in Linked : a.link.id \notin DOMAIN answer.connections => ConnectionState(a) = "UNRESOLVED"
  BY DEF ConnectionState, Resolves, Linked
<1>10. \A a \in answer.accounts : ConnectionState(a) = "UNRESOLVED" => a \in Linked
  BY DEF ConnectionState, Linked
<1> QED
  BY <1>5, <1>7, <1>8, <1>9, <1>10

\* The source's freshness is the worst of its connections'.
LEMMA SourceFreshnessIs ==
  ASSUME answer \in Answers, at \in Int
  PROVE  /\ SourceFreshness = "FRESH" => Linked # {} /\ \A a \in Linked : FineAt(a)
         /\ SourceFreshness = "NOT_APPLICABLE" => Linked = {}
<1> DEFINE unresolved == \E a \in answer.accounts : ConnectionState(a) = "UNRESOLVED"
           states == { c.freshness : c \in Resolved } \cup (IF unresolved THEN {"UNKNOWN"} ELSE {})
<1>1. SourceFreshness = IF states = {} THEN "NOT_APPLICABLE" ELSE WorstOf(states)
  BY DEF SourceFreshness, WorstOf
<1>2. states \in SUBSET {"BROKEN", "STALE", "UNKNOWN", "FRESH"}
  BY ResolvedAre
<1>3. states # {} => WorstOf(states) \in states /\ (WorstOf(states) = "FRESH" => states = {"FRESH"})
  <2> HIDE DEF states
  <2> QED
    BY <1>2, WorstIs
<1>4. states = {} => Linked = {}
  <2> SUFFICES ASSUME states = {}, NEW a \in Linked PROVE FALSE
    OBVIOUS
  <2>1. Resolved = {} /\ ~unresolved
    OBVIOUS
  <2> HIDE DEF unresolved
  <2>2. a.link.id \notin DOMAIN answer.connections
    BY <2>1, ResolvedAre
  <2> QED
    BY <2>1, <2>2, ResolvedAre DEF unresolved, Linked
<1>5. states = {"FRESH"} => \A c \in Resolved : c.freshness = "FRESH"
  OBVIOUS
<1>6. states = {"FRESH"} => ~unresolved
  OBVIOUS
<1>7. states = {"FRESH"} => Resolved # {}
  BY <1>6
<1> HIDE DEF states, unresolved
<1>8. SourceFreshness = "FRESH" => states = {"FRESH"}
  BY <1>1, <1>3
<1>9. SourceFreshness = "NOT_APPLICABLE" => states = {}
  BY <1>1, <1>2, <1>3
<1>10. ASSUME states = {"FRESH"}, NEW a \in Linked PROVE FineAt(a)
  <2>1. a.link.id \in DOMAIN answer.connections
    BY <1>6, <1>10, ResolvedAre DEF unresolved, Linked
  <2>2. Freshness(answer.connections[a.link.id]) = "FRESH"
    BY <1>5, <1>10, <2>1, ResolvedAre
  <2> QED
    BY <2>1, <2>2, FreshnessIs DEF FineAt
<1>11. states = {"FRESH"} => Linked # {}
  BY <1>7, ResolvedAre
<1> QED
  BY <1>4, <1>8, <1>9, <1>10, <1>11

\* What is not fresh has a warning.
LEMMA WarningsName ==
  ASSUME answer \in Answers, at \in Int, NEW a \in Linked
  PROVE  FineAt(a) \/ Named(a, AccountWarnings)
<1>1. CASE a.link.id \notin DOMAIN answer.connections
  <2>1. a \in { b \in answer.accounts : ConnectionState(b) = "UNRESOLVED" }
    BY <1>1, ResolvedAre DEF Linked
  <2>2. <<"MISSING_ENRICHMENT", a.id>> \in AccountWarnings
    BY <2>1 DEF AccountWarnings
  <2> QED
    BY <2>2 DEF Named
<1>2. CASE a.link.id \in DOMAIN answer.connections
  <2>1. PICK c \in Resolved : c.key = a.link.id
    BY <1>2, ResolvedAre
  <2>2. c.freshness = Freshness(answer.connections[a.link.id])
        /\ c.freshness \in {"BROKEN", "STALE", "UNKNOWN", "FRESH"}
    BY <2>1, ResolvedAre
  <2>3. CASE c.freshness = "FRESH"
    BY <1>2, <2>2, <2>3, FreshnessIs DEF FineAt
  <2>4. CASE c.freshness # "FRESH"
    <3>1. FreshnessCode[c.freshness] \in {"BROKEN_CONNECTION", "STALE_SOURCE", "UNKNOWN_FRESHNESS"}
      BY <2>2, <2>4 DEF FreshnessCode
    <3>2. <<FreshnessCode[c.freshness], c.key>> \in
            { <<FreshnessCode[d.freshness], d.key>> : d \in { e \in Resolved : e.freshness # "FRESH" } }
      BY <2>4
    <3>3. <<FreshnessCode[c.freshness], a.link.id>> \in AccountWarnings
      BY <2>1, <3>2 DEF AccountWarnings
    <3> QED
      BY <3>1, <3>3 DEF Named
  <2> QED
    BY <2>3, <2>4
<1> QED
  BY <1>1, <1>2

LEMMA AccountDetailIs ==
  /\ DOMAIN AccountDetail = Parts /\ AccountDetail.accountsState = "COMPLETE"
  /\ AccountDetail.holdingsState = "UNAVAILABLE" /\ AccountDetail.freshness = SourceFreshness
  /\ AccountDetail.accounts = { Account(a) : a \in answer.accounts }
  /\ AccountDetail.ownership = UNION { Owners(a) : a \in answer.accounts }
  /\ AccountDetail.connections = Resolved /\ AccountDetail.warnings = AccountWarnings
  /\ AccountDetail.positions = {} /\ AccountDetail.rates = {} /\ AccountDetail.unsupported = {}
<1> DEFINE A == { Account(a) : a \in answer.accounts }
           O == UNION { Owners(a) : a \in answer.accounts }
<1>1. AccountDetail = [NoDetail EXCEPT !.accountsState = "COMPLETE", !.freshness = SourceFreshness,
                         !.accounts = A, !.ownership = O, !.connections = Resolved,
                         !.warnings = AccountWarnings]
  BY DEF AccountDetail
<1> HIDE DEF A, O
<1>2. AccountDetail = 
    [accountsState |-> "COMPLETE", holdingsState |-> "UNAVAILABLE", freshness |-> SourceFreshness,
   accounts |-> A, ownership |-> O, connections |-> Resolved, positions |-> {}, rates |-> {},
   warnings |-> AccountWarnings, unsupported |-> {}]
  BY <1>1 DEF NoDetail
<1>3. /\ DOMAIN AccountDetail = Parts /\ AccountDetail.accountsState = "COMPLETE"
      /\ AccountDetail.holdingsState = "UNAVAILABLE" /\ AccountDetail.freshness = SourceFreshness
      /\ AccountDetail.accounts = A /\ AccountDetail.ownership = O
      /\ AccountDetail.connections = Resolved /\ AccountDetail.warnings = AccountWarnings
      /\ AccountDetail.positions = {} /\ AccountDetail.rates = {} /\ AccountDetail.unsupported = {}
  BY <1>2 DEF Parts
<1> QED
  BY <1>3 DEF A, O

LEMMA AccountDetailSincere == answer \in Answers /\ at \in Int => Sincere(AccountDetail)
BY AccountDetailIs, SourceFreshnessIs, WarningsName DEF Sincere

-----------------------------------------------------------------------------
(* Freshness, from the overview to the answer.                             *)

\* The instants a session goes by, while the clock of the bridge is not set.
Timely ==
  /\ answer \in Answers /\ at \in Int
  /\ begun \in [Runs -> Int] /\ started \in [Runs -> Int] /\ \A r \in Runs : begun[r] <= now
  /\ Steady("bridge") =>
       /\ \A r \in Runs : stage[r] \in {"waiting", "collecting"} => started[r] = begun[r] + offset["bridge"]
       /\ phase \in {"accounts", "holdings", "close"} => begun[run] + offset["bridge"] <= at
       /\ phase \in {"answered", "refused"} => draft.ended - at <= Window

\* What is claimed on the way to the answer is so.
Honest ==
  /\ DOMAIN detail = Parts
  /\ phase \in {"holdings", "close"} => Sincere(detail)
  /\ phase \in {"answered", "refused"} => Sincere(draft.detail)

LEMMA InitTimely == Init => Timely /\ Honest
<1> SUFFICES ASSUME Init PROVE Timely /\ Honest
  OBVIOUS
<1>1. /\ answer \in Answers /\ now = StartTime /\ at = 0 /\ phase = "idle" /\ detail = NoDetail
      /\ begun = [r \in Runs |-> 0] /\ started = [r \in Runs |-> 0] /\ stage = [r \in Runs |-> "idle"]
  BY DEF Init
<1> QED
  BY <1>1, TimesAssumption, NoDetailIs DEF Timely, Honest

\* A claim remains true.
LEMMA SincereKept ==
  ASSUME UNCHANGED <<answer, at>>
  PROVE  /\ Sincere(detail') => Sincere(detail)'
         /\ Sincere(draft'.detail) => Sincere(draft.detail)'
BY DEF Sincere, Linked, FineAt, Named

LEMMA HonestKept ==
  ASSUME Honest, UNCHANGED <<answer, at, detail, draft, phase>>
  PROVE  Honest'
BY SincereKept DEF Honest

LEMMA NoSessionHonest == NoSession => Honest'
BY NoDetailIs DEF NoSession, Honest

LEMMA ReadingInt == TypeOK => Reading("bridge") = now + offset["bridge"] /\ now \in Int /\ offset["bridge"] \in Int
BY TimesAssumption DEF TypeOK, Reading, Clocks

\* A step of an execution, or the end of a session.
LEMMA ExecutionTimely ==
  ASSUME TypeOK, Timely, UNCHANGED <<answer, now, offset, adjusted, begun, started>>,
         UNCHANGED <<phase, run, at, draft>> \/ NoSession,
         \A q \in Runs : stage'[q] \in {"waiting", "collecting"} => stage[q] \in {"waiting", "collecting"}
  PROVE  Timely'
<1>1. at' \in Int
  BY DEF NoSession, Timely
<1>2. CASE UNCHANGED <<phase, run, at, draft>>
  BY <1>1, <1>2 DEF Timely, Steady
<1>3. CASE NoSession
  BY <1>1, <1>3 DEF NoSession, Timely, Steady
<1> QED
  BY <1>2, <1>3

\* A step of the session beyond the overview.
LEMMA SessionTimely ==
  ASSUME TypeOK, Timely,
         UNCHANGED <<answer, now, offset, adjusted, begun, started, stage, run, at, draft>>,
         phase \in {"accounts", "holdings"}, phase' \in {"holdings", "close"}
  PROVE  Timely'
BY DEF Timely, Steady

LEMMA NextTimely == TypeOK /\ Timely /\ Honest /\ [Next]_vars => Timely' /\ Honest'
<1> SUFFICES ASSUME TypeOK, Timely, Honest, [Next]_vars PROVE Timely' /\ Honest'
  OBVIOUS
<1>a. \A q \in Runs : stage[q] \in {"idle", "waiting", "collecting", "writing", "succeeded", "failed"}
  BY DEF TypeOK
<1>1. ASSUME NEW r \in Runs, Begin(r) PROVE Timely' /\ Honest'
  <2>1. /\ stage[r] = "idle" /\ stage' = [stage EXCEPT ![r] = "waiting"]
        /\ begun' = [begun EXCEPT ![r] = now] /\ started' = [started EXCEPT ![r] = Reading("bridge")]
        /\ UNCHANGED <<answer, now, offset, adjusted, phase, run, at, detail, draft>>
    BY <1>1 DEF Begin, clocks, session
  <2>2. begun' \in [Runs -> Int] /\ started' \in [Runs -> Int] /\ \A q \in Runs : begun'[q] <= now'
    BY <2>1, ReadingInt DEF Timely
  <2>3. ASSUME Steady("bridge")', NEW q \in Runs, stage'[q] \in {"waiting", "collecting"}
        PROVE  started'[q] = begun'[q] + offset'["bridge"]
    <3>1. CASE q = r
      BY <2>1, <3>1, ReadingInt DEF Timely
    <3>2. CASE q # r
      <4>1. stage'[q] = stage[q] /\ started'[q] = started[q] /\ begun'[q] = begun[q]
        BY <2>1, <3>2 DEF TypeOK, Timely
      <4> QED
        BY <2>1, <2>3, <4>1 DEF Timely, Steady
    <3> QED
      BY <3>1, <3>2
  <2>4. ASSUME Steady("bridge")', phase' \in {"accounts", "holdings", "close"}
        PROVE  begun'[run'] + offset'["bridge"] <= at'
    <3>1. run \in Runs /\ run # r
      BY <2>1, <2>4 DEF TypeOK
    <3>2. begun'[run] = begun[run]
      BY <2>1, <3>1 DEF Timely
    <3> QED
      BY <2>1, <2>4, <3>2 DEF Timely, Steady
  <2>5. Timely'
    BY <2>1, <2>2, <2>3, <2>4 DEF Timely, Steady
  <2> QED
    BY <2>1, <2>5, HonestKept
<1>2. ASSUME NEW r \in Runs, Lease(r) PROVE Timely' /\ Honest'
  <2>1. /\ stage[r] = "waiting" /\ phase' = "overview" /\ stage' = [stage EXCEPT ![r] = "collecting"]
        /\ UNCHANGED <<answer, now, offset, adjusted, at, detail, draft, begun, started>>
    BY <1>2 DEF Lease, clocks
  <2>2. \A q \in Runs : stage'[q] \in {"waiting", "collecting"} => stage[q] \in {"waiting", "collecting"}
    BY <2>1 DEF TypeOK
  <2> QED
    BY <2>1, <2>2 DEF Timely, Honest, Steady
<1>3. ASSUME NEW r \in Runs, CollectionFails(r) PROVE Timely' /\ Honest'
  <2>1. /\ UNCHANGED <<phase, run, at, detail, draft>> \/ NoSession
        /\ stage' = [stage EXCEPT ![r] = "failed"] /\ UNCHANGED <<answer, now, offset, adjusted, begun, started>>
    BY <1>3 DEF CollectionFails, clocks, session
  <2>2. \A q \in Runs : stage'[q] \in {"waiting", "collecting"} => stage[q] \in {"waiting", "collecting"}
    BY <2>1 DEF TypeOK
  <2>3. Timely'
    BY <2>1, <2>2, ExecutionTimely
  <2> QED
    BY <2>1, <2>3, HonestKept, NoSessionHonest
<1>4. ASSUME NEW r \in Runs, Complete(r) \/ WriteFails(r) PROVE Timely' /\ Honest'
  <2>1. /\ UNCHANGED <<phase, run, at, detail, draft>> /\ UNCHANGED <<answer, now, offset, adjusted, begun, started>>
        /\ \E s \in {"succeeded", "failed"} : stage' = [stage EXCEPT ![r] = s]
    BY <1>4 DEF Complete, WriteFails, clocks, session
  <2>2. \A q \in Runs : stage'[q] \in {"waiting", "collecting"} => stage[q] \in {"waiting", "collecting"}
    BY <2>1 DEF TypeOK
  <2> QED
    BY <2>1, <2>2, ExecutionTimely, HonestKept
<1>5. CASE ReadOverview
  <2>1. /\ phase = "overview" /\ phase' = "accounts" /\ at' = Reading("bridge")
        /\ UNCHANGED <<answer, now, offset, adjusted, run, detail, draft, begun, started, stage>>
    BY <1>5 DEF ReadOverview, Proceeds, clocks, records
  <2>2. run \in Runs
    BY <2>1 DEF TypeOK
  <2>3. at' \in Int /\ begun[run] + offset["bridge"] <= at'
    BY <2>1, <2>2, ReadingInt DEF Timely
  <2>4. Timely'
    BY <2>1, <2>3 DEF Timely, Steady
  <2> QED
    BY <2>1, <2>4 DEF Honest
<1>6. CASE ReadAccounts
  <2>1. /\ phase = "accounts" /\ phase' \in {"holdings", "close"}
        /\ detail' \in {AccountDetail, Incomplete(AccountDetail), Incomplete(NoDetail)}
        /\ UNCHANGED <<answer, now, offset, adjusted, run, at, draft, begun, started, stage>>
    BY <1>6 DEF ReadAccounts, Proceeds, clocks, records
  <2>2. Timely'
    BY <2>1, SessionTimely
  <2>3. Sincere(detail') /\ DOMAIN detail' = Parts
    <3>1. Sincere(AccountDetail) /\ DOMAIN AccountDetail = Parts
      BY AccountDetailSincere, AccountDetailIs DEF Timely
    <3>2. Sincere(Incomplete(AccountDetail)) /\ DOMAIN Incomplete(AccountDetail) = Parts
      BY <3>1, IncompleteExtends, ExtendsSincere DEF Extends
    <3>3. Sincere(Incomplete(NoDetail)) /\ DOMAIN Incomplete(NoDetail) = Parts
      BY NoDetailIs, NoDetailSincere, IncompleteExtends, ExtendsSincere DEF Extends
    <3> QED
      BY <2>1, <3>1, <3>2, <3>3
  <2> QED
    BY <2>1, <2>2, <2>3, SincereKept DEF Honest
<1>7. CASE ReadHoldings
  <2>1. /\ phase = "holdings" /\ phase' = "close" /\ detail' = HoldingsDetail
        /\ UNCHANGED <<answer, now, offset, adjusted, run, at, draft, begun, started, stage>>
    BY <1>7 DEF ReadHoldings, Proceeds, clocks, records
  <2>2. Timely'
    BY <2>1, SessionTimely
  <2>3. Extends(HoldingsDetail, detail) /\ Sincere(detail)
    BY <2>1, HoldingsExtends DEF Honest
  <2>4. Sincere(detail') /\ DOMAIN detail' = Parts
    BY <2>1, <2>3, ExtendsSincere DEF Extends
  <2> QED
    BY <2>1, <2>2, <2>4, SincereKept DEF Honest
<1>8. CASE Assemble
  <2>1. /\ phase = "close" /\ phase' \in {"answered", "refused"} /\ draft' = Draft(Reading("bridge"))
        /\ now - begun[run] <= Window
        /\ UNCHANGED <<answer, now, offset, adjusted, run, at, detail, begun, started, stage>>
    BY <1>8 DEF Assemble, Proceeds, Elapsed, clocks, records
  <2>2. draft'.ended = Reading("bridge")
    BY <2>1, DraftTimes
  <2>3. run \in Runs
    BY <2>1 DEF TypeOK
  <2>4. Steady("bridge") => draft'.ended - at <= Window
    BY <2>1, <2>2, <2>3, ReadingInt, TimesAssumption DEF Timely
  <2>5. Timely'
    BY <2>1, <2>4 DEF Timely, Steady
  <2>6. Extends(draft'.detail, detail) /\ Sincere(detail)
    BY <2>1, DraftExtends DEF Honest
  <2>7. Sincere(draft'.detail)
    BY <2>6, ExtendsSincere
  <2> QED
    BY <2>1, <2>5, <2>7, SincereKept DEF Honest
<1>9. CASE Receive
  <2>1. /\ NoSession /\ UNCHANGED <<answer, now, offset, adjusted, begun, started>>
        /\ \E s \in {"writing", "failed"} : stage' = [stage EXCEPT ![run] = s]
    BY <1>9 DEF Receive, clocks
  <2>2. \A q \in Runs : stage'[q] \in {"waiting", "collecting"} => stage[q] \in {"waiting", "collecting"}
    BY <2>1 DEF TypeOK
  <2> QED
    BY <2>1, <2>2, ExecutionTimely, NoSessionHonest
<1>10. CASE Tick
  <2>1. /\ now' = now + 1
        /\ UNCHANGED <<answer, offset, adjusted, phase, run, at, detail, draft, stage, begun, started>>
    BY <1>10 DEF Tick, session, records
  <2>2. \A r \in Runs : begun'[r] <= now'
    BY <2>1, ReadingInt DEF Timely
  <2>3. Timely'
    BY <2>1, <2>2 DEF Timely, Steady
  <2> QED
    BY <2>1, <2>3, HonestKept
<1>11. ASSUME NEW c \in Clocks, Adjust(c) PROVE Timely' /\ Honest'
  <2>1. /\ adjusted' = adjusted \cup {c} /\ \E o \in -1 .. 1 : offset' = [offset EXCEPT ![c] = o]
        /\ UNCHANGED <<answer, now, phase, run, at, detail, draft, stage, begun, started>>
    BY <1>11 DEF Adjust, session, records
  <2>2. Steady("bridge")' => Steady("bridge") /\ offset'["bridge"] = offset["bridge"]
    BY <2>1 DEF Steady, TypeOK, Clocks
  <2>3. Timely'
    BY <2>1, <2>2 DEF Timely
  <2> QED
    BY <2>1, <2>3, HonestKept
<1>12. CASE UNCHANGED vars
  <2>1. UNCHANGED <<answer, now, offset, adjusted, phase, run, at, detail, draft, stage, begun, started>>
    BY <1>12 DEF vars, clocks, session, records
  <2>2. Timely'
    BY <2>1 DEF Timely, Steady
  <2> QED
    BY <2>1, <2>2, HonestKept
<1> QED
  BY <1>1, <1>2, <1>3, <1>4, <1>5, <1>6, <1>7, <1>8, <1>9, <1>10, <1>11, <1>12 DEF Next

LEMMA SessionInvariant == Spec => [](TypeOK /\ Timely /\ Honest)
<1>1. Spec => [](Timely /\ Honest)
  BY InitTimely, NextTimely, TypeCorrect, PTL DEF Spec
<1> QED
  BY <1>1, TypeCorrect, PTL

\* FRESH is true of every linked connection, but for the 180 s between the
\* overview and the end, as long as the bridge's clock is not set meanwhile;
\* NOT_APPLICABLE is true; and what is not fresh is named.
THEOREM FreshnessIsHonest == Spec => []FreshnessHonest
<1>1. TypeOK /\ Timely /\ Honest => FreshnessHonest
  <2> SUFFICES ASSUME TypeOK, Timely, Honest, phase = "answered" PROVE FreshnessHonest
    BY DEF FreshnessHonest
  <2> DEFINE d == draft.detail
             Fine(a) == /\ a.link.id \in DOMAIN answer.connections
                        /\ LET c == answer.connections[a.link.id] IN
                             ~c.error /\ c.success # Null /\ draft.ended - c.success <= StaleAfter + Window
  <2>1. Sincere(draft.detail)
    BY DEF Honest
  <2>2. ASSUME Steady("bridge"), NEW a \in Linked, FineAt(a) PROVE Fine(a)
    <3> DEFINE c == answer.connections[a.link.id]
    <3>1. a.link.id \in DOMAIN answer.connections /\ ~c.error /\ c.success # Null /\ at - c.success <= StaleAfter
      BY <2>2 DEF FineAt
    <3>2. c.success \in Int
      BY <3>1, SchemasAssumption DEF Timely
    <3>3. draft.ended - at <= Window /\ draft.ended \in Int /\ at \in Int
      BY <2>2 DEF Timely, TypeOK
    <3> HIDE DEF c
    <3>4. draft.ended - c.success <= StaleAfter + Window
      BY <3>1, <3>2, <3>3, TimesAssumption
    <3> QED
      BY <3>1, <3>4 DEF c
  <2>3. ASSUME NEW a \in Linked, Named(a, d.warnings)
        PROVE  \/ a.id \in Entities({"MISSING_ENRICHMENT"})
               \/ a.link.id \in Entities({"BROKEN_CONNECTION", "STALE_SOURCE", "UNKNOWN_FRESHNESS"})
    <3>1. CASE <<"MISSING_ENRICHMENT", a.id>> \in d.warnings
      <4> DEFINE w == <<"MISSING_ENRICHMENT", a.id>>
      <4>1. w[1] = "MISSING_ENRICHMENT" /\ w[2] = a.id /\ w \in draft.detail.warnings
        BY <3>1
      <4> QED
        BY <4>1 DEF Entities
    <3>2. CASE \E code \in {"BROKEN_CONNECTION", "STALE_SOURCE", "UNKNOWN_FRESHNESS"} :
                 <<code, a.link.id>> \in d.warnings
      <4>1. PICK code \in {"BROKEN_CONNECTION", "STALE_SOURCE", "UNKNOWN_FRESHNESS"} :
                 <<code, a.link.id>> \in d.warnings
        BY <3>2
      <4> DEFINE w == <<code, a.link.id>>
      <4>2. w[1] = code /\ w[2] = a.link.id /\ w \in draft.detail.warnings
        BY <4>1
      <4> QED
        BY <4>2 DEF Entities
    <3> QED
      BY <2>3, <3>1, <3>2 DEF Named
  <2> HIDE DEF d, Fine
  <2>4. /\ d.freshness = "FRESH" /\ Steady("bridge") => Linked # {} /\ \A a \in Linked : Fine(a)
        /\ d.freshness = "NOT_APPLICABLE" => Linked = {}
        /\ d.accountsState = "COMPLETE" /\ Steady("bridge") =>
             \A a \in Linked :
               Fine(a) \/ a.id \in Entities({"MISSING_ENRICHMENT"})
                 \/ a.link.id \in Entities({"BROKEN_CONNECTION", "STALE_SOURCE", "UNKNOWN_FRESHNESS"})
    BY <2>1, <2>2, <2>3 DEF Sincere, d
  <2> QED
    BY <2>4 DEF FreshnessHonest, d, Fine, Linked
<1> QED
  BY <1>1, SessionInvariant, PTL

-----------------------------------------------------------------------------
(* The two validators.                                                     *)

\* The image of a finite set is finite.
LEMMA ImageIsFinite ==
  ASSUME NEW S, IsFiniteSet(S), NEW T, NEW f, \A t \in T : \E x \in S : t = f[x]
  PROVE  IsFiniteSet(T)
<1> DEFINE R == { f[x] : x \in S }
           g == [x \in S |-> f[x]]
<1>1. g \in Surjection(S, R)
  BY DEF Surjection
<1>2. IsFiniteSet(R)
  BY <1>1, FS_Surjection
<1>3. T \in SUBSET R
  OBVIOUS
<1> QED
  BY <1>2, <1>3, FS_Subset

LEMMA MoneyAgrees ==
  ASSUME NEW m, NEW view
  PROVE  ValidateMoney(m, view) <=> McpMoney(m, view)
BY DEF ValidateMoney, McpMoney

\* How n8n values a table.
McpState(values, state) ==
  LET known == Cardinality({ v \in values : v.amount # Null /\ v.currency # Null }) IN
    IF state # "COMPLETE" THEN "UNAVAILABLE"
    ELSE IF known = Cardinality(values) THEN "COMPLETE"
    ELSE IF known > 0 THEN "PARTIAL" ELSE "UNAVAILABLE"

\* To compare sets or their sizes is the same.
LEMMA ValuationAgrees ==
  ASSUME NEW values, NEW state, IsFiniteSet(values)
  PROVE  Valuation(values, state) = McpState(values, state)
<1> DEFINE known == { v \in values : v.amount # Null /\ v.currency # Null }
<1>1. known \subseteq values /\ IsFiniteSet(known)
  BY FS_Subset
<1>2. Cardinality(known) = Cardinality(values) <=> known = values
  BY <1>1, FS_Subset
<1>3. Cardinality(known) \in Nat /\ (Cardinality(known) = 0 <=> known = {})
  BY <1>1, FS_CardinalityType, FS_EmptySet
<1>4. Cardinality(known) > 0 <=> known # {}
  BY <1>3
<1> QED
  BY <1>2, <1>4 DEF Valuation, McpState

\* Whatever snapshot they are given, of finite tables and states of the
\* contract, the validators of the bridge and of n8n judge it alike.
THEOREM ValidatorsAgree ==
  ASSUME NEW s, IsFiniteSet(s.detail.accounts), IsFiniteSet(s.detail.positions),
         \A a \in s.detail.accounts : a.state \in {"NO_CONNECTION", "RESOLVED", "UNRESOLVED"}
  PROVE  ValidateSnapshot(s) <=> McpSnapshot(s)
<1> DEFINE d == s.detail
           Connected == \A a \in d.accounts :
             /\ a.state = "NO_CONNECTION" => a.connection = Null
             /\ a.state = "UNRESOLVED" => a.connection # Null
             /\ a.state = "RESOLVED" => a.connection \in Keys(d.connections)
             /\ ValidateMoney(a.balance, Null)
             /\ a.balance.basis = "SOURCE_CONVERSION" => a.full # Null /\ a.balance.eur = a.full
           McpConnected == \A a \in d.accounts :
             /\ IF a.state = "NO_CONNECTION" THEN a.connection = Null
                ELSE IF a.state = "RESOLVED" THEN a.connection \in Keys(d.connections)
                ELSE a.connection # Null
             /\ McpMoney(a.balance, Null)
             /\ a.balance.basis = "SOURCE_CONVERSION" => a.full # Null /\ a.balance.eur = a.full
           Owned == \A o \in d.ownership :
             \E a \in d.accounts : a.key = o.account /\ a.evidence = "EXPLICIT_ENTRIES"
           McpOwned == \A o \in d.ownership :
             o.account \in Keys({ a \in d.accounts : a.evidence = "EXPLICIT_ENTRIES" })
           Positioned == \A p \in d.positions : p.account \in Keys(d.accounts) /\ ValidatePosition(p)
           McpPositioned == \A p \in d.positions :
             /\ p.account \in Keys(d.accounts) /\ p.key = <<p.account, p.type, p.id>>
             /\ McpMoney(p.value, Null) /\ p.value.basis # "SOURCE_CONVERSION"
           Rated == \A r \in d.rates : r.position \in Keys(d.positions)
           McpRated == { r.position : r \in d.rates } \subseteq Keys(d.positions)
           Placed == \A u \in d.unsupported : u.account \in Keys(d.accounts)
           McpPlaced == { u.account : u \in d.unsupported } \subseteq Keys(d.accounts)
           Debts == \A debt \in {s.overview.debt} \cup { m.debt : m \in s.members } :
             ValidateMoney(debt, s.currency) /\ (debt.amount = Null \/ debt.amount >= 0)
           McpDebts == \A m \in s.members \cup {[row |-> 0, debt |-> s.overview.debt]} :
             McpMoney(m.debt, s.currency) /\ (m.debt.amount # Null => m.debt.amount >= 0)
           Typed == \A t \in s.types : \E c \in s.categories : c.category = t.category
           McpTyped == { t.category : t \in s.types } \subseteq { c.category : c \in s.categories }
           balances == { a.balance : a \in d.accounts }
           amounts == { p.value : p \in d.positions }
<1>1. Connected <=> McpConnected
  BY MoneyAgrees
<1>2. Owned <=> McpOwned
  BY DEF Keys
<1>3. Positioned <=> McpPositioned
  BY MoneyAgrees DEF ValidatePosition
<1>4. Rated <=> McpRated
  OBVIOUS
<1>5. Placed <=> McpPlaced
  OBVIOUS
<1>6. Debts <=> McpDebts
  <2> DEFINE row == [row |-> 0, debt |-> s.overview.debt]
  <2>1. row.debt = s.overview.debt
    OBVIOUS
  <2> HIDE DEF row
  <2>2. Debts <=> \A m \in s.members \cup {row} :
                    ValidateMoney(m.debt, s.currency) /\ (m.debt.amount = Null \/ m.debt.amount >= 0)
    BY <2>1
  <2> QED
    BY <2>2, MoneyAgrees DEF row
<1>7. Typed <=> McpTyped
  OBVIOUS
<1>8. IsFiniteSet(balances) /\ IsFiniteSet(amounts)
  <2> DEFINE balance == [a \in d.accounts |-> a.balance]
             value == [p \in d.positions |-> p.value]
  <2>1. /\ \A m \in balances : \E a \in d.accounts : m = balance[a]
        /\ \A m \in amounts : \E p \in d.positions : m = value[p]
    OBVIOUS
  <2> HIDE DEF balance, value, balances, amounts
  <2> QED
    BY <2>1, ImageIsFinite
<1>9. /\ Valuation(balances, d.accountsState) = McpState(balances, d.accountsState)
      /\ Valuation(amounts, d.holdingsState) = McpState(amounts, d.holdingsState)
  BY <1>8, ValuationAgrees
<1>10. ValidateMoney(s.overview.gross, s.currency) <=> McpMoney(s.overview.gross, s.currency)
  BY MoneyAgrees
<1>11. ValidateSnapshot(s) <=>
         /\ Schema(s) /\ KeysUnique(s)
         /\ s.started <= s.ended /\ s.ended <= s.generated /\ s.ended - s.started <= Window
         /\ s.date = Day(s.generated)
         /\ Connected /\ Owned /\ Positioned /\ Rated /\ Placed /\ Debts /\ Typed
         /\ s.accountValuation = Valuation(balances, d.accountsState)
         /\ s.holdingValuation = Valuation(amounts, d.holdingsState)
         /\ ValidateMoney(s.overview.gross, s.currency)
  BY DEF ValidateSnapshot, ValidateCollectionContext
<1>12. McpSnapshot(s) <=>
         /\ Schema(s) /\ KeysUnique(s)
         /\ s.started <= s.ended /\ s.ended <= s.generated /\ s.ended - s.started <= Window
         /\ s.date = Day(s.generated)
         /\ McpConnected /\ McpOwned /\ McpPositioned /\ McpRated /\ McpPlaced /\ McpDebts /\ McpTyped
         /\ s.accountValuation = McpState(balances, d.accountsState)
         /\ s.holdingValuation = McpState(amounts, d.holdingsState)
         /\ McpMoney(s.overview.gross, s.currency)
  BY DEF McpSnapshot, McpState
<1> HIDE DEF Connected, McpConnected, Owned, McpOwned, Positioned, McpPositioned, Rated, McpRated,
             Placed, McpPlaced, Debts, McpDebts, Typed, McpTyped, balances, amounts
<1> QED
  BY <1>1, <1>2, <1>3, <1>4, <1>5, <1>6, <1>7, <1>9, <1>10, <1>11, <1>12

-----------------------------------------------------------------------------
(* Keys.                                                                   *)

\* Finite rows that the fields tell apart are unique.
LEMMA UniqueWhenApart ==
  ASSUME NEW rows, NEW fields, IsFiniteSet(rows),
         \A r, q \in rows : (\A f \in fields : r[f] = q[f]) => r = q
  PROVE  Unique(rows, fields)
<1> DEFINE key(r) == [f \in fields |-> r[f]]
           keys == { key(r) : r \in rows }
           g == [r \in rows |-> key(r)]
<1>1. g \in Surjection(rows, keys)
  BY DEF Surjection
<1>2. ASSUME NEW r \in rows, NEW q \in rows, g[r] = g[q] PROVE r = q
  <2>1. \A f \in fields : key(r)[f] = r[f] /\ key(q)[f] = q[f]
    OBVIOUS
  <2>2. key(r) = key(q)
    BY <1>2
  <2> HIDE DEF key
  <2> QED
    BY <2>1, <2>2
<1>3. Unique(rows, fields) <=> Cardinality(keys) = Cardinality(rows)
  BY DEF Unique
<1> HIDE DEF g, keys
<1>4. g \in Injection(rows, keys)
  BY <1>1, <1>2 DEF Injection, Surjection, IsInjective
<1> QED
  BY <1>1, <1>3, <1>4, FS_Surjection

\* Rows of these fields alone are unique.
LEMMA UniqueAlone ==
  ASSUME NEW rows, NEW fields, \A r \in rows : r = [f \in fields |-> r[f]]
  PROVE  Unique(rows, fields)
<1>1. { [f \in fields |-> r[f]] : r \in rows } = rows
  OBVIOUS
<1> QED
  BY <1>1 DEF Unique

LEMMA UniqueEmpty == ASSUME NEW fields PROVE Unique({}, fields)
BY UniqueAlone

\* The indices of a sequence are finite, and as many as it is long.
LEMMA UpToIs == \A n \in Nat : IsFiniteSet(1 .. n) /\ Cardinality(1 .. n) = n
<1> SUFFICES ASSUME NEW n \in Nat PROVE IsFiniteSet(1 .. n) /\ Cardinality(1 .. n) = n
  OBVIOUS
<1>1. 1 \in Int /\ n \in Int
  OBVIOUS
<1>2. /\ IsFiniteSet(1 .. n)
      /\ Cardinality(1 .. n) = IF 1 > n THEN 0 ELSE n - 1 + 1
  BY <1>1, FS_Interval, Zenon
<1>3. (IF 1 > n THEN 0 ELSE n - 1 + 1) = n
  OBVIOUS
<1> QED
  BY <1>2, <1>3

\* A sequence without repetition tells its indices apart.
LEMMA NoRepeats ==
  ASSUME NEW s, Len(s) \in Nat, ~Repeats(s), NEW i \in 1 .. Len(s), NEW j \in 1 .. Len(s), s[i] = s[j]
  PROVE  i = j
<1> DEFINE n == Len(s)
           T == { s[k] : k \in 1 .. n }
           g == [k \in 1 .. n |-> s[k]]
<1>1. g \in Surjection(1 .. n, T)
  BY DEF Surjection
<1>2. IsFiniteSet(1 .. n) /\ Cardinality(1 .. n) = n
  BY UpToIs
<1>3. IsFiniteSet(T) /\ Cardinality(T) <= n
  BY <1>1, <1>2, FS_Surjection
<1>4. Cardinality(T) \in Nat /\ ~(Cardinality(T) < n)
  BY <1>3, FS_CardinalityType DEF Repeats
<1>5. Cardinality(T) = Cardinality(1 .. n)
  BY <1>2, <1>3, <1>4
<1>6. g \in Injection(1 .. n, T)
  BY <1>1, <1>2, <1>5, FS_Surjection
<1>7. g[i] = g[j]
  OBVIOUS
<1> HIDE DEF g
<1> QED
  BY <1>6, <1>7 DEF Injection, IsInjective

\* The sequence of a field.
LEMMA LenOfFunction ==
  ASSUME NEW n \in Nat, NEW s
  PROVE  Len([i \in 1 .. n |-> s[i].category]) = n
<1> DEFINE c == [i \in 1 .. n |-> s[i].category]
           S == { c[i] : i \in 1 .. n }
<1>1. c \in [1 .. n -> S]
  OBVIOUS
<1>2. DOMAIN c = 1 .. n
  OBVIOUS
<1> HIDE DEF c, S
<1>3. c \in Seq(S)
  BY <1>1
<1>4. Len(c) \in Nat /\ 1 .. Len(c) = 1 .. n
  BY <1>2, <1>3, LenProperties
<1>5. Len(c) = n
  <2>1. ASSUME Len(c) < n PROVE FALSE
    <3>1. n \in 1 .. n /\ n \notin 1 .. Len(c)
      BY <1>4, <2>1
    <3> QED
      BY <1>4, <3>1
  <2>2. ASSUME n < Len(c) PROVE FALSE
    <3>1. Len(c) \in 1 .. Len(c) /\ Len(c) \notin 1 .. n
      BY <1>4, <2>2
    <3> QED
      BY <1>4, <3>1
  <2> QED
    BY <1>4, <2>1, <2>2
<1> QED
  BY <1>5 DEF c

\* The rows of a bounded table are finite.
LEMMA IndexedFinite ==
  ASSUME NEW n \in Nat, NEW T, NEW f, \A t \in T : \E i \in 1 .. n : t = f[i]
  PROVE  IsFiniteSet(T)
<1>1. IsFiniteSet(1 .. n)
  BY UpToIs
<1> QED
  BY <1>1, ImageIsFinite

-----------------------------------------------------------------------------
(* Money.                                                                  *)

LEMMA MoneyIs ==
  ASSUME NEW amount, NEW currency, NEW conversion, amount # Null => currency # Null
  PROVE  LET m == Money(amount, currency, conversion) IN
         /\ m.amount = amount /\ m.currency = currency
         /\ MoneySchema(m) /\ ValidateMoney(m, Null)
         /\ m.basis = "SOURCE_CONVERSION" => conversion # Null /\ m.eur = conversion
         /\ conversion = Null /\ currency # Null => ValidateMoney(m, currency)
<1> DEFINE basis == IF amount = Null \/ currency = Null THEN "UNAVAILABLE"
                    ELSE IF currency = "EUR" THEN "SOURCE_EUR"
                    ELSE IF conversion # Null THEN "SOURCE_CONVERSION" ELSE "UNAVAILABLE"
           eur == IF basis = "SOURCE_EUR" THEN amount
                  ELSE IF basis = "SOURCE_CONVERSION" THEN conversion ELSE Null
           m == Money(amount, currency, conversion)
<1>1. m.amount = amount /\ m.currency = currency /\ m.basis = basis /\ m.eur = eur
  BY DEF Money
<1> HIDE DEF m
<1>2. MoneySchema(m)
  BY <1>1 DEF MoneySchema
<1>3. ValidateMoney(m, Null)
  BY <1>1 DEF ValidateMoney
<1>4. m.basis = "SOURCE_CONVERSION" => conversion # Null /\ m.eur = conversion
  BY <1>1
<1>5. conversion = Null /\ currency # Null => ValidateMoney(m, currency)
  BY <1>1 DEF ValidateMoney
<1> QED
  BY <1>1, <1>2, <1>3, <1>4, <1>5 DEF m

-----------------------------------------------------------------------------
(* The contract of a detail: what the validators ask of it.                *)

AccountsSound(d) ==
  /\ IsFiniteSet(d.accounts)
  /\ \A a \in d.accounts :
       /\ a.state \in {"NO_CONNECTION", "RESOLVED", "UNRESOLVED"}
       /\ a.state = "NO_CONNECTION" => a.connection = Null
       /\ a.state = "UNRESOLVED" => a.connection # Null
       /\ a.state = "RESOLVED" => a.connection \in Keys(d.connections)
       /\ MoneySchema(a.balance) /\ ValidateMoney(a.balance, Null)
       /\ a.balance.basis = "SOURCE_CONVERSION" => a.full # Null /\ a.balance.eur = a.full
  /\ d.accountsState # "COMPLETE" => d.accounts = {} /\ d.ownership = {} /\ d.connections = {}
  /\ Unique(d.accounts, {"key"}) /\ Unique(d.connections, {"key"})
  /\ \A o \in d.ownership :
       \E a \in d.accounts : a.key = o.account /\ a.evidence = "EXPLICIT_ENTRIES"

HoldingsSound(d) ==
  /\ IsFiniteSet(d.positions)
  /\ \A p \in d.positions :
       /\ MoneySchema(p.value) /\ p.type \in DOMAIN ProductType
       /\ p.account \in Keys(d.accounts) /\ ValidatePosition(p)
  /\ d.holdingsState # "COMPLETE" => d.positions = {} /\ d.rates = {}
  /\ d.holdingsState = "COMPLETE" => d.accountsState = "COMPLETE"
  /\ d.unsupported # {} => d.holdingsState = "PARTIAL"
  /\ Unique(d.positions, {"type", "id"}) /\ Unique(d.rates, {"position", "field"})
  /\ Unique(d.unsupported, {"account", "type"})
  /\ \A r \in d.rates : r.position \in Keys(d.positions)
  /\ \A u \in d.unsupported : u.account \in Keys(d.accounts)

\* Only the answer's own repetition makes an owner come twice.
OwnersSound(d) == ~Odd => Unique(d.ownership, {"account", "owner"})

\* Details with the same tables.
Alike(e, d) ==
  /\ e.accountsState = d.accountsState /\ e.holdingsState = d.holdingsState
  /\ e.accounts = d.accounts /\ e.ownership = d.ownership /\ e.connections = d.connections
  /\ e.positions = d.positions /\ e.rates = d.rates /\ e.unsupported = d.unsupported

LEMMA AlikeSound ==
  ASSUME NEW d, NEW e, Alike(e, d)
  PROVE  /\ AccountsSound(d) => AccountsSound(e)
         /\ HoldingsSound(d) => HoldingsSound(e)
         /\ OwnersSound(d) => OwnersSound(e)
BY Zenon DEF Alike, AccountsSound, HoldingsSound, OwnersSound

LEMMA IncompleteAlike == ASSUME NEW d, DOMAIN d = Parts PROVE Alike(Incomplete(d), d)
BY DEF Incomplete, Alike, Parts

LEMMA DraftAlike == ASSUME NEW t, DOMAIN detail = Parts PROVE Alike(Draft(t).detail, detail)
<1> DEFINE W == detail.warnings \cup (IF DebtValuation = "PARTIAL" THEN {<<"UNVALUED_DEBT", Null>>} ELSE {})
<1>1. Draft(t).detail = [detail EXCEPT !.warnings = W]
  BY DEF Draft
<1> QED
  BY <1>1 DEF Alike, Parts

LEMMA NoDetailSound == AccountsSound(NoDetail) /\ HoldingsSound(NoDetail) /\ OwnersSound(NoDetail)
BY NoDetailIs, UniqueEmpty, FS_EmptySet DEF AccountsSound, HoldingsSound, OwnersSound

-----------------------------------------------------------------------------
(* The accounts meet it.                                                   *)

LEMMA AccountIs ==
  ASSUME NEW a
  PROVE  /\ Account(a).key = a.id /\ Account(a).full = a.conversion /\ Account(a).state = ConnectionState(a)
         /\ Account(a).balance = Money(a.amount, a.currency, a.conversion)
         /\ Account(a).connection = IF a.link = Null THEN Null ELSE a.link.id
         /\ Account(a).evidence = IF a.owners = Null THEN "UNAVAILABLE" ELSE "EXPLICIT_ENTRIES"
BY DEF Account

LEMMA AccountsUnique ==
  ASSUME answer \in Answers
  PROVE  LET rows == { Account(a) : a \in answer.accounts } IN
         IsFiniteSet(rows) /\ Unique(rows, {"key"})
<1> DEFINE rows == { Account(a) : a \in answer.accounts }
           f == [a \in answer.accounts |-> Account(a)]
<1>1. \A r \in rows : \E a \in answer.accounts : r = f[a]
  OBVIOUS
<1>2. IsFiniteSet(answer.accounts)
  BY AnswersAssumption
<1>3. IsFiniteSet(rows)
  <2> HIDE DEF rows, f
  <2> QED
    BY <1>1, <1>2, ImageIsFinite
<1>4. ASSUME NEW r \in rows, NEW q \in rows, r.key = q.key PROVE r = q
  <2>1. PICK a \in answer.accounts : r = Account(a)
    OBVIOUS
  <2>2. PICK b \in answer.accounts : q = Account(b)
    OBVIOUS
  <2>3. a.id = b.id
    BY <1>4, <2>1, <2>2, AccountIs
  <2> QED
    BY <2>1, <2>2, <2>3, AnswersAssumption
<1>5. \A r, q \in rows : (\A k \in {"key"} : r[k] = q[k]) => r = q
  BY <1>4
<1> HIDE DEF rows
<1>6. Unique(rows, {"key"})
  BY <1>3, <1>5, UniqueWhenApart
<1> QED
  BY <1>3, <1>6 DEF rows

LEMMA ConnectionsUnique ==
  ASSUME answer \in Answers
  PROVE  Unique(Resolved, {"key"})
<1> DEFINE row(a) == [key |-> a.link.id, freshness |-> Freshness(answer.connections[a.link.id])]
           f == [a \in answer.accounts |-> row(a)]
<1>1. \A c \in Resolved : \E a \in answer.accounts : c = row(a)
  BY DEF Resolved
<1>2. \A c \in Resolved : \E a \in answer.accounts : c = f[a]
  BY <1>1
<1>3. IsFiniteSet(answer.accounts)
  BY AnswersAssumption
<1>4. IsFiniteSet(Resolved)
  <2> HIDE DEF f
  <2> QED
    BY <1>2, <1>3, ImageIsFinite
<1>5. ASSUME NEW r \in Resolved, NEW q \in Resolved, r.key = q.key PROVE r = q
  <2>1. PICK a \in answer.accounts : r = row(a)
    BY <1>1
  <2>2. PICK b \in answer.accounts : q = row(b)
    BY <1>1
  <2>3. row(a).key = a.link.id /\ row(b).key = b.link.id
    OBVIOUS
  <2>4. a.link.id = b.link.id
    <3> HIDE DEF row
    <3> QED
      BY <1>5, <2>1, <2>2, <2>3
  <2>5. row(a) = row(b)
    BY <2>4
  <2> QED
    BY <2>1, <2>2, <2>5
<1>6. \A r, q \in Resolved : (\A k \in {"key"} : r[k] = q[k]) => r = q
  BY <1>5
<1> QED
  BY <1>4, <1>6, UniqueWhenApart

LEMMA OwnershipUnique ==
  ASSUME answer \in Answers, ~Odd
  PROVE  Unique(UNION { Owners(a) : a \in answer.accounts }, {"account", "owner"})
<1> DEFINE rows == UNION { Owners(a) : a \in answer.accounts }
           row(a, i) == [account |-> a.id, owner |-> a.owners[i], row |-> i]
           tables == { Owners(a) : a \in answer.accounts }
           f == [a \in answer.accounts |-> Owners(a)]
<1>1. \A a \in answer.accounts : a.owners # Null => Len(a.owners) \in Nat
  BY SchemasAssumption
<1>2. ASSUME NEW a \in answer.accounts PROVE IsFiniteSet(Owners(a))
  <2>1. CASE a.owners = Null
    BY <2>1, FS_EmptySet DEF Owners
  <2>2. CASE a.owners # Null
    <3> DEFINE g == [i \in 1 .. Len(a.owners) |-> row(a, i)]
    <3>1. \A o \in Owners(a) : \E i \in 1 .. Len(a.owners) : o = g[i]
      BY <2>2 DEF Owners
    <3> HIDE DEF g
    <3> QED
      BY <1>1, <2>2, <3>1, IndexedFinite
  <2> QED
    BY <2>1, <2>2
<1>3. IsFiniteSet(rows)
  <2>1. \A t \in tables : \E a \in answer.accounts : t = f[a]
    OBVIOUS
  <2>2. \A t \in tables : IsFiniteSet(t)
    BY <1>2
  <2>3. IsFiniteSet(answer.accounts)
    BY AnswersAssumption
  <2> HIDE DEF f, tables
  <2>4. IsFiniteSet(tables)
    BY <2>1, <2>3, ImageIsFinite
  <2>5. IsFiniteSet(UNION tables)
    BY <2>2, <2>4, FS_UNION
  <2> QED
    BY <2>5 DEF tables
<1>4. ASSUME NEW r \in rows
      PROVE  \E a \in answer.accounts : a.owners # Null /\ \E i \in 1 .. Len(a.owners) : r = row(a, i)
  BY DEF Owners
<1>5. \A a, i : row(a, i).account = a.id /\ row(a, i).owner = a.owners[i]
  OBVIOUS
<1> HIDE DEF row, rows
<1>6. ASSUME NEW r \in rows, NEW q \in rows, r.account = q.account, r.owner = q.owner PROVE r = q
  <2>1. PICK a \in answer.accounts : a.owners # Null /\ \E i \in 1 .. Len(a.owners) : r = row(a, i)
    BY <1>4
  <2>2. PICK i \in 1 .. Len(a.owners) : r = row(a, i)
    BY <2>1
  <2>3. PICK b \in answer.accounts : b.owners # Null /\ \E j \in 1 .. Len(b.owners) : q = row(b, j)
    BY <1>4
  <2>4. PICK j \in 1 .. Len(b.owners) : q = row(b, j)
    BY <2>3
  <2>5. a.id = b.id /\ a.owners[i] = b.owners[j]
    BY <1>5, <1>6, <2>2, <2>4
  <2>6. a = b
    BY <2>5, AnswersAssumption
  <2>7. ~Repeats(a.owners)
    BY <2>1 DEF Odd
  <2>8. i = j
    BY <1>1, <2>1, <2>5, <2>6, <2>7, NoRepeats
  <2> QED
    BY <2>2, <2>4, <2>6, <2>8
<1>7. \A r, q \in rows : (\A k \in {"account", "owner"} : r[k] = q[k]) => r = q
  BY <1>6
<1> QED
  BY <1>3, <1>7, UniqueWhenApart DEF rows

LEMMA AccountDetailSound ==
  ASSUME answer \in Answers, at \in Int, AccountsFit
  PROVE  /\ AccountsSound(AccountDetail) /\ HoldingsSound(AccountDetail) /\ OwnersSound(AccountDetail)
         /\ Keys(AccountDetail.accounts) = { a.id : a \in answer.accounts }
<1> DEFINE d == AccountDetail
<1>1. ASSUME NEW r \in d.accounts
      PROVE  /\ r.state \in {"NO_CONNECTION", "RESOLVED", "UNRESOLVED"}
             /\ r.state = "NO_CONNECTION" => r.connection = Null
             /\ r.state = "UNRESOLVED" => r.connection # Null
             /\ r.state = "RESOLVED" => r.connection \in Keys(d.connections)
             /\ MoneySchema(r.balance) /\ ValidateMoney(r.balance, Null)
             /\ r.balance.basis = "SOURCE_CONVERSION" => r.full # Null /\ r.balance.eur = r.full
  <2>1. PICK a \in answer.accounts : r = Account(a)
    BY AccountDetailIs
  <2>2. a.amount # Null => a.currency # Null
    BY DEF AccountsFit, Denominated
  <2>3. /\ MoneySchema(r.balance) /\ ValidateMoney(r.balance, Null)
        /\ r.balance.basis = "SOURCE_CONVERSION" => r.full # Null /\ r.balance.eur = r.full
    BY <2>1, <2>2, AccountIs, MoneyIs
  <2>4. r.state = ConnectionState(a) /\ r.connection = IF a.link = Null THEN Null ELSE a.link.id
    BY <2>1, AccountIs
  <2>5. a.link # Null => a.link.id # Null
    BY SchemasAssumption
  <2>6. r.state = "RESOLVED" => r.connection \in Keys(d.connections)
    <3> SUFFICES ASSUME r.state = "RESOLVED" PROVE r.connection \in Keys(d.connections)
      OBVIOUS
    <3>1. a \in Linked /\ a.link.id \in DOMAIN answer.connections
      BY <2>4 DEF ConnectionState, Resolves, Linked
    <3>2. PICK c \in Resolved : c.key = a.link.id
      BY <3>1, ResolvedAre
    <3> QED
      BY <2>4, <3>1, <3>2, AccountDetailIs DEF Keys, Linked
  <2> QED
    BY <2>3, <2>4, <2>5, <2>6 DEF ConnectionState
<1>2. \A o \in d.ownership : \E r \in d.accounts : r.key = o.account /\ r.evidence = "EXPLICIT_ENTRIES"
  <2> SUFFICES ASSUME NEW o \in d.ownership
               PROVE  \E r \in d.accounts : r.key = o.account /\ r.evidence = "EXPLICIT_ENTRIES"
    OBVIOUS
  <2>1. PICK a \in answer.accounts : o \in Owners(a)
    BY AccountDetailIs
  <2>2. a.owners # Null /\ o.account = a.id
    BY <2>1 DEF Owners
  <2>3. Account(a) \in d.accounts
    BY AccountDetailIs
  <2> QED
    BY <2>2, <2>3, AccountIs
<1>3. AccountsSound(d)
  BY <1>1, <1>2, AccountDetailIs, AccountsUnique, ConnectionsUnique DEF AccountsSound
<1>4. HoldingsSound(d)
  BY AccountDetailIs, UniqueEmpty, FS_EmptySet DEF HoldingsSound
<1>5. OwnersSound(d)
  BY AccountDetailIs, OwnershipUnique DEF OwnersSound
<1>6. Keys(d.accounts) = { a.id : a \in answer.accounts }
  BY AccountDetailIs, AccountIs DEF Keys
<1> QED
  BY <1>3, <1>4, <1>5, <1>6

-----------------------------------------------------------------------------
(* The holdings meet it.                                                   *)

LEMMA PositionIs ==
  ASSUME NEW h
  PROVE  /\ Position(h).key = <<h.account, h.type, h.id>> /\ Position(h).account = h.account
         /\ Position(h).type = h.type /\ Position(h).id = h.id
         /\ Position(h).value = Money(h.amount, h.currency, Null)
BY DEF Position

\* A detail whose accounts have been read and whose holdings have not.
AccountsOnly(d) ==
  /\ DOMAIN d = Parts /\ d.accountsState = "COMPLETE" /\ d.holdingsState = "UNAVAILABLE"
  /\ Keys(d.accounts) = { a.id : a \in answer.accounts }

LEMMA PartialIs ==
  ASSUME DOMAIN detail = Parts, Unsupported # {}
  PROVE  LET d == HoldingsDetail IN
         /\ d.accountsState = detail.accountsState /\ d.holdingsState = "PARTIAL"
         /\ d.accounts = detail.accounts /\ d.ownership = detail.ownership
         /\ d.connections = detail.connections
         /\ d.positions = detail.positions /\ d.rates = detail.rates /\ d.unsupported = Unsupported
<1> DEFINE W == detail.warnings \cup {<<"UNVERIFIED_DETAIL", Null>>}
<1>1. HoldingsDetail = [detail EXCEPT !.holdingsState = "PARTIAL", !.unsupported = Unsupported,
                                      !.warnings = W]
  BY DEF HoldingsDetail
<1> HIDE DEF W
<1> QED
  BY <1>1 DEF Parts

LEMMA CompleteIs ==
  ASSUME DOMAIN detail = Parts, Unsupported = {}
  PROVE  LET d == HoldingsDetail IN
         /\ d.accountsState = detail.accountsState /\ d.holdingsState = "COMPLETE"
         /\ d.accounts = detail.accounts /\ d.ownership = detail.ownership
         /\ d.connections = detail.connections /\ d.unsupported = detail.unsupported
         /\ d.positions = { Position(h) : h \in answer.holdings }
         /\ d.rates = UNION { Rates(h) : h \in answer.holdings }
<1> DEFINE P == { Position(h) : h \in answer.holdings }
           R == UNION { Rates(h) : h \in answer.holdings }
           W == detail.warnings \cup {<<"UNVERIFIED_DETAIL", Null>>} \cup
                  { <<"MISSING_ENRICHMENT", Position(h).key>> :
                      h \in { g \in answer.holdings : Product(g) # Null /\ ~Resolves(Product(g), answer.products) } }
<1>1. HoldingsDetail = [detail EXCEPT !.holdingsState = "COMPLETE", !.positions = P, !.rates = R,
                                      !.warnings = W]
  BY DEF HoldingsDetail
<1> HIDE DEF P, R, W
<1>2. LET d == HoldingsDetail IN
      /\ d.accountsState = detail.accountsState /\ d.holdingsState = "COMPLETE"
      /\ d.accounts = detail.accounts /\ d.ownership = detail.ownership
      /\ d.connections = detail.connections /\ d.unsupported = detail.unsupported
      /\ d.positions = P /\ d.rates = R
  BY <1>1 DEF Parts
<1> QED
  BY <1>2 DEF P, R

LEMMA PositionsUnique ==
  ASSUME answer \in Answers
  PROVE  LET rows == { Position(h) : h \in answer.holdings } IN
         IsFiniteSet(rows) /\ Unique(rows, {"type", "id"})
<1> DEFINE rows == { Position(h) : h \in answer.holdings }
           f == [h \in answer.holdings |-> Position(h)]
<1>1. \A r \in rows : \E h \in answer.holdings : r = f[h]
  OBVIOUS
<1>2. IsFiniteSet(answer.holdings)
  BY AnswersAssumption
<1>3. IsFiniteSet(rows)
  <2> HIDE DEF rows, f
  <2> QED
    BY <1>1, <1>2, ImageIsFinite
<1>4. ASSUME NEW r \in rows, NEW q \in rows, r.type = q.type, r.id = q.id PROVE r = q
  <2>1. PICK h \in answer.holdings : r = Position(h)
    OBVIOUS
  <2>2. PICK g \in answer.holdings : q = Position(g)
    OBVIOUS
  <2>3. h.type = g.type /\ h.id = g.id
    BY <1>4, <2>1, <2>2, PositionIs
  <2> QED
    BY <2>1, <2>2, <2>3, AnswersAssumption
<1>5. \A r, q \in rows : (\A k \in {"type", "id"} : r[k] = q[k]) => r = q
  BY <1>4
<1> HIDE DEF rows
<1>6. Unique(rows, {"type", "id"})
  BY <1>3, <1>5, UniqueWhenApart
<1> QED
  BY <1>3, <1>6 DEF rows

LEMMA RatesUnique ==
  Unique(UNION { Rates(h) : h \in answer.holdings }, {"position", "field"})
<1> DEFINE rows == UNION { Rates(h) : h \in answer.holdings }
<1>1. ASSUME NEW r \in rows PROVE r = [f \in {"position", "field"} |-> r[f]]
  <2>1. PICK p, x : r = [position |-> p, field |-> x]
    BY DEF Rates
  <2> QED
    BY <2>1
<1> HIDE DEF rows
<1>2. Unique(rows, {"position", "field"})
  BY <1>1, UniqueAlone
<1> QED
  BY <1>2 DEF rows

LEMMA UnsupportedUnique == Unique(Unsupported, {"account", "type"})
<1>1. ASSUME NEW r \in Unsupported PROVE r = [f \in {"account", "type"} |-> r[f]]
  <2>1. PICK p, x : r = [account |-> p, type |-> x]
    BY DEF Unsupported
  <2> QED
    BY <2>1
<1> QED
  BY <1>1, UniqueAlone

LEMMA HoldingsDetailSound ==
  ASSUME answer \in Answers, AccountsOnly(detail), Unsupported = {} => HoldingsFit,
         AccountsSound(detail), HoldingsSound(detail), OwnersSound(detail)
  PROVE  AccountsSound(HoldingsDetail) /\ HoldingsSound(HoldingsDetail) /\ OwnersSound(HoldingsDetail)
<1> DEFINE d == HoldingsDetail
<1>1. DOMAIN detail = Parts
  BY DEF AccountsOnly
<1>2. \A h \in answer.holdings : h.account \in Keys(detail.accounts)
  BY AnswersAssumption DEF AccountsOnly
<1>3. detail.positions = {} /\ detail.rates = {} /\ detail.unsupported = {}
  BY DEF AccountsOnly, HoldingsSound
<1>4. CASE Unsupported # {}
  <2>1. /\ d.accountsState = detail.accountsState /\ d.holdingsState = "PARTIAL"
        /\ d.accounts = detail.accounts /\ d.ownership = detail.ownership
        /\ d.connections = detail.connections
        /\ d.positions = {} /\ d.rates = {} /\ d.unsupported = Unsupported
    BY <1>1, <1>3, <1>4, PartialIs
  <2>2. \A u \in Unsupported : u.account \in Keys(d.accounts)
    BY <1>2, <2>1 DEF Unsupported
  <2> HIDE DEF d
  <2>3. HoldingsSound(d)
    BY <2>1, <2>2, UniqueEmpty, UnsupportedUnique, FS_EmptySet DEF HoldingsSound
  <2>4. AccountsSound(d) /\ OwnersSound(d)
    BY <2>1, Zenon DEF AccountsSound, OwnersSound
  <2> QED
    BY <2>3, <2>4 DEF d
<1>5. CASE Unsupported = {}
  <2> DEFINE P == { Position(h) : h \in answer.holdings }
             R == UNION { Rates(h) : h \in answer.holdings }
  <2>1. /\ d.accountsState = detail.accountsState /\ d.holdingsState = "COMPLETE"
        /\ d.accounts = detail.accounts /\ d.ownership = detail.ownership
        /\ d.connections = detail.connections
        /\ d.positions = P /\ d.rates = R /\ d.unsupported = {}
    BY <1>1, <1>3, <1>5, CompleteIs
  <2>2. ASSUME NEW p \in P
        PROVE  /\ MoneySchema(p.value) /\ p.type \in DOMAIN ProductType
               /\ p.account \in Keys(detail.accounts) /\ ValidatePosition(p)
    <3>1. PICK h \in answer.holdings : p = Position(h)
      OBVIOUS
    <3>2. h.amount # Null => h.currency # Null
      BY <1>5 DEF HoldingsFit, Denominated
    <3>3. p.value = Money(h.amount, h.currency, Null)
      BY <3>1, PositionIs
    <3>4. /\ MoneySchema(p.value) /\ ValidateMoney(p.value, Null)
          /\ p.value.basis # "SOURCE_CONVERSION"
      BY <3>2, <3>3, MoneyIs
    <3>5. p.type \in DOMAIN ProductType
      <4>1. Supported(h)
        BY <1>5 DEF Unsupported
      <4> QED
        BY <3>1, <4>1, PositionIs DEF Supported
    <3>6. p.account \in Keys(detail.accounts) /\ p.key = <<p.account, p.type, p.id>>
      BY <1>2, <3>1, PositionIs
    <3> QED
      BY <3>4, <3>5, <3>6 DEF ValidatePosition
  <2>3. \A r \in R : r.position \in Keys(P)
    BY DEF Rates, Keys
  <2>4. IsFiniteSet(P) /\ Unique(P, {"type", "id"})
    BY PositionsUnique
  <2>5. Unique(R, {"position", "field"})
    BY RatesUnique
  <2>6. d.accountsState = "COMPLETE"
    BY <2>1 DEF AccountsOnly
  <2> HIDE DEF d, P, R
  <2>7. HoldingsSound(d)
    BY <2>1, <2>2, <2>3, <2>4, <2>5, <2>6, UniqueEmpty DEF HoldingsSound
  <2>8. AccountsSound(d) /\ OwnersSound(d)
    BY <2>1, Zenon DEF AccountsSound, OwnersSound
  <2> QED
    BY <2>7, <2>8 DEF d
<1> QED
  BY <1>4, <1>5

-----------------------------------------------------------------------------
(* The snapshot meets it.                                                  *)

LEMMA OverviewIs ==
  /\ Overview.completeness = answer.completeness /\ Overview.unvalued = answer.unvalued
  /\ Overview.gross = Money(answer.gross, answer.currency, Null)
  /\ Overview.debt = Money(answer.debt, answer.currency, Null)
BY DEF Overview

Categories == { [row |-> i, category |-> answer.allocation[i].category] : i \in 1 .. Len(answer.allocation) }

TypesOf(i) == { [row |-> <<i, j>>, category |-> answer.allocation[i].category,
                 type |-> answer.allocation[i].types[j]] : j \in 1 .. Len(answer.allocation[i].types) }

Types == UNION { TypesOf(i) : i \in 1 .. Len(answer.allocation) }

Members == { [row |-> i, debt |-> Money(answer.members[i], answer.currency, Null)] :
               i \in 1 .. Len(answer.members) }

LEMMA DraftIs ==
  ASSUME NEW t
  PROVE  LET s == Draft(t) IN
         /\ s.started = started[run] /\ s.ended = t /\ s.generated = t /\ s.date = Day(t)
         /\ s.currency = answer.currency /\ s.overview = Overview
         /\ s.categories = Categories /\ s.types = Types /\ s.members = Members
         /\ s.accountValuation = Valuation({ a.balance : a \in detail.accounts }, detail.accountsState)
         /\ s.holdingValuation = Valuation({ p.value : p \in detail.positions }, detail.holdingsState)
         /\ s.debtValuation = DebtValuation /\ s.quality = Quality[DebtValuation]
BY DEF Draft, Categories, Types, TypesOf, Members

LEMMA CategoriesUnique ==
  ASSUME answer \in Answers, ~Odd
  PROVE  Unique(Categories, {"category"})
<1> DEFINE n == Len(answer.allocation)
           row(i) == [row |-> i, category |-> answer.allocation[i].category]
           c == [i \in 1 .. n |-> answer.allocation[i].category]
           f == [i \in 1 .. n |-> row(i)]
<1>1. n \in Nat
  BY SchemasAssumption
<1>2. ~Repeats(c)
  BY DEF Odd
<1>3. Len(c) = n
  BY <1>1, LenOfFunction
<1>4. \A i \in 1 .. n : c[i] = answer.allocation[i].category
  OBVIOUS
<1>5. \A r \in Categories : \E i \in 1 .. n : r = row(i)
  BY DEF Categories
<1>6. \A r \in Categories : \E i \in 1 .. n : r = f[i]
  BY <1>5
<1>7. \A i \in 1 .. n : row(i).category = c[i]
  BY <1>4
<1> HIDE DEF n, row, c, f
<1>8. IsFiniteSet(Categories)
  BY <1>1, <1>6, IndexedFinite
<1>9. ASSUME NEW r \in Categories, NEW q \in Categories, r.category = q.category PROVE r = q
  <2>1. PICK i \in 1 .. n : r = row(i)
    BY <1>5
  <2>2. PICK j \in 1 .. n : q = row(j)
    BY <1>5
  <2>3. c[i] = c[j]
    BY <1>7, <1>9, <2>1, <2>2
  <2>4. i = j
    BY <1>1, <1>2, <1>3, <2>3, NoRepeats
  <2> QED
    BY <2>1, <2>2, <2>4
<1>10. \A r, q \in Categories : (\A k \in {"category"} : r[k] = q[k]) => r = q
  BY <1>9
<1> QED
  BY <1>8, <1>10, UniqueWhenApart

LEMMA TypesUnique ==
  ASSUME answer \in Answers, ~Odd
  PROVE  Unique(Types, {"category", "type"})
<1> DEFINE n == Len(answer.allocation)
           m(i) == Len(answer.allocation[i].types)
           row(i, j) == [row |-> <<i, j>>, category |-> answer.allocation[i].category,
                         type |-> answer.allocation[i].types[j]]
           c == [i \in 1 .. n |-> answer.allocation[i].category]
           tables == { TypesOf(i) : i \in 1 .. n }
           f == [i \in 1 .. n |-> TypesOf(i)]
<1>1. n \in Nat /\ \A i \in 1 .. n : m(i) \in Nat
  BY SchemasAssumption
<1>2. ~Repeats(c) /\ \A i \in 1 .. n : ~Repeats(answer.allocation[i].types)
  BY DEF Odd
<1>3. Len(c) = n
  BY <1>1, LenOfFunction
<1>4. \A i \in 1 .. n : c[i] = answer.allocation[i].category
  OBVIOUS
<1>5. ASSUME NEW i \in 1 .. n PROVE IsFiniteSet(TypesOf(i))
  <2> DEFINE g == [j \in 1 .. m(i) |-> row(i, j)]
  <2>1. \A o \in TypesOf(i) : \E j \in 1 .. m(i) : o = g[j]
    BY DEF TypesOf
  <2>2. m(i) \in Nat
    BY <1>1
  <2> HIDE DEF g, m
  <2> QED
    BY <2>1, <2>2, IndexedFinite
<1>6. IsFiniteSet(Types)
  <2>1. \A t \in tables : \E i \in 1 .. n : t = f[i]
    OBVIOUS
  <2>2. \A t \in tables : IsFiniteSet(t)
    BY <1>5
  <2> HIDE DEF f, tables, n
  <2>3. IsFiniteSet(tables)
    BY <1>1, <2>1, IndexedFinite
  <2>4. IsFiniteSet(UNION tables)
    BY <2>2, <2>3, FS_UNION
  <2> QED
    BY <2>4 DEF tables, Types, n
<1>7. ASSUME NEW r \in Types PROVE \E i \in 1 .. n : \E j \in 1 .. m(i) : r = row(i, j)
  BY DEF Types, TypesOf
<1>8. \A i \in 1 .. n : \A j : row(i, j).category = c[i] /\ row(i, j).type = answer.allocation[i].types[j]
  BY <1>4
<1> HIDE DEF n, m, row, c
<1>9. ASSUME NEW r \in Types, NEW q \in Types, r.category = q.category, r.type = q.type PROVE r = q
  <2>1. PICK i \in 1 .. n : \E j \in 1 .. m(i) : r = row(i, j)
    BY <1>7
  <2>2. PICK j \in 1 .. m(i) : r = row(i, j)
    BY <2>1
  <2>3. PICK k \in 1 .. n : \E l \in 1 .. m(k) : q = row(k, l)
    BY <1>7
  <2>4. PICK l \in 1 .. m(k) : q = row(k, l)
    BY <2>3
  <2>5. c[i] = c[k]
    BY <1>8, <1>9, <2>2, <2>4
  <2>6. i = k
    BY <1>1, <1>2, <1>3, <2>5, NoRepeats
  <2>7. answer.allocation[i].types[j] = answer.allocation[i].types[l]
    BY <1>8, <1>9, <2>2, <2>4, <2>6
  <2>8. j = l
    BY <1>1, <1>2, <2>6, <2>7, NoRepeats DEF m
  <2> QED
    BY <2>2, <2>4, <2>6, <2>8
<1>10. \A r, q \in Types : (\A k \in {"category", "type"} : r[k] = q[k]) => r = q
  BY <1>9
<1> QED
  BY <1>6, <1>10, UniqueWhenApart

LEMMA MembersUnique == answer \in Answers => Unique(Members, {"row"})
<1> SUFFICES ASSUME answer \in Answers PROVE Unique(Members, {"row"})
  OBVIOUS
<1> DEFINE n == Len(answer.members)
           row(i) == [row |-> i, debt |-> Money(answer.members[i], answer.currency, Null)]
           f == [i \in 1 .. n |-> row(i)]
<1>1. n \in Nat
  BY SchemasAssumption
<1>2. \A r \in Members : \E i \in 1 .. n : r = row(i)
  BY DEF Members
<1>3. \A r \in Members : \E i \in 1 .. n : r = f[i]
  BY <1>2
<1>4. \A i \in 1 .. n : row(i).row = i
  OBVIOUS
<1> HIDE DEF n, row, f
<1>5. IsFiniteSet(Members)
  BY <1>1, <1>3, IndexedFinite
<1>6. \A r, q \in Members : r.row = q.row => r = q
  BY <1>2, <1>4
<1>7. \A r, q \in Members : (\A k \in {"row"} : r[k] = q[k]) => r = q
  BY <1>6
<1> QED
  BY <1>5, <1>7, UniqueWhenApart

\* What the overview says of assets and debts fits the schema.
LEMMA OverviewMeets ==
  ASSUME answer \in Answers, ~Odd, OverviewFits, NEW s,
         s.overview = Overview, s.debtValuation = DebtValuation, s.quality = Quality[DebtValuation]
  PROVE  /\ MoneySchema(s.overview.gross) /\ MoneySchema(s.overview.debt)
         /\ s.overview.gross.amount >= 0
         /\ IF s.overview.completeness = "assets_only"
            THEN s.quality = "ASSETS_ONLY" /\ s.debtValuation = "UNAVAILABLE" /\ s.overview.debt.amount = Null
            ELSE /\ s.overview.debt.amount # Null
                 /\ IF s.overview.unvalued = 0
                    THEN s.quality = "REPORTED_COMPLETE" /\ s.debtValuation = "COMPLETE"
                    ELSE s.quality = "REPORTED_UNVALUED_DEBT" /\ s.debtValuation = "PARTIAL"
         /\ ValidateMoney(s.overview.gross, answer.currency)
         /\ ValidateMoney(s.overview.debt, answer.currency)
         /\ s.overview.debt.amount = Null \/ s.overview.debt.amount >= 0
<1>1. /\ answer.currency # Null /\ answer.gross \in Int /\ answer.unvalued \in Nat
      /\ answer.completeness \in {"complete", "assets_only"} /\ answer.debt \in Int \cup {Null}
      /\ answer.completeness = "complete" => answer.debt # Null
  BY SchemasAssumption
<1>2. answer.gross >= 0 /\ (answer.debt = Null \/ answer.debt >= 0)
  BY <1>1 DEF Odd
<1>3. /\ s.overview.gross.amount = answer.gross /\ s.overview.debt.amount = answer.debt
      /\ MoneySchema(s.overview.gross) /\ MoneySchema(s.overview.debt)
      /\ ValidateMoney(s.overview.gross, answer.currency)
      /\ ValidateMoney(s.overview.debt, answer.currency)
  BY <1>1, OverviewIs, MoneyIs
<1>4. s.overview.completeness = answer.completeness /\ s.overview.unvalued = answer.unvalued
  BY OverviewIs
<1>5. CASE answer.completeness = "assets_only"
  <2>1. DebtValuation = "UNAVAILABLE" /\ answer.debt = Null
    BY <1>5 DEF DebtValuation, OverviewFits
  <2>2. s.quality = "ASSETS_ONLY"
    BY <2>1 DEF Quality
  <2> QED
    BY <1>2, <1>3, <1>4, <1>5, <2>1, <2>2
<1>6. CASE answer.completeness # "assets_only"
  <2>1. answer.debt # Null
    BY <1>1, <1>6
  <2>2. CASE answer.unvalued = 0
    <3>1. DebtValuation = "COMPLETE"
      BY <1>6, <2>2 DEF DebtValuation
    <3>2. s.quality = "REPORTED_COMPLETE"
      BY <3>1 DEF Quality
    <3> QED
      BY <1>2, <1>3, <1>4, <1>6, <2>1, <2>2, <3>1, <3>2
  <2>3. CASE answer.unvalued # 0
    <3>1. DebtValuation = "PARTIAL"
      BY <1>1, <1>6, <2>3 DEF DebtValuation
    <3>2. s.quality = "REPORTED_UNVALUED_DEBT"
      BY <3>1 DEF Quality
    <3> QED
      BY <1>2, <1>3, <1>4, <1>6, <2>1, <2>3, <3>1, <3>2
  <2> QED
    BY <2>2, <2>3
<1> QED
  BY <1>5, <1>6

\* The bridge accepts what it has made of an answer that is not odd, if its
\* clock has not been set.
LEMMA DraftMeets ==
  ASSUME answer \in Answers, DOMAIN detail = Parts, OverviewFits, ~Odd,
         AccountsSound(detail), HoldingsSound(detail), OwnersSound(detail),
         NEW t \in Int, started[run] \in Int, started[run] <= t, t - started[run] <= Window
  PROVE  ValidateSnapshot(Draft(t))
<1> DEFINE s == Draft(t)
           d == s.detail
<1>1. AccountsSound(d) /\ HoldingsSound(d) /\ OwnersSound(d)
  BY DraftAlike, AlikeSound
<1>2. Alike(d, detail)
  BY DraftAlike
<1>3. /\ s.started = started[run] /\ s.ended = t /\ s.generated = t /\ s.date = Day(t)
      /\ s.currency = answer.currency /\ s.overview = Overview
      /\ s.categories = Categories /\ s.types = Types /\ s.members = Members
      /\ s.debtValuation = DebtValuation /\ s.quality = Quality[DebtValuation]
  BY DraftIs
<1>4. /\ s.accountValuation = Valuation({ a.balance : a \in d.accounts }, d.accountsState)
      /\ s.holdingValuation = Valuation({ p.value : p \in d.positions }, d.holdingsState)
  BY <1>2, DraftIs DEF Alike
<1> HIDE DEF s, d
<1>5. d = s.detail
  BY DEF d
<1>6. ValidateCollectionContext(s)
  BY <1>3 DEF ValidateCollectionContext
<1>7. KeysUnique(s)
  <2>1. Unique(Categories, {"category"}) /\ Unique(Types, {"category", "type"}) /\ Unique(Members, {"row"})
    BY CategoriesUnique, TypesUnique, MembersUnique
  <2>2. Unique(d.accounts, {"key"}) /\ Unique(d.connections, {"key"})
    BY <1>1 DEF AccountsSound
  <2>3. Unique(d.ownership, {"account", "owner"})
    BY <1>1 DEF OwnersSound
  <2>4. /\ Unique(d.positions, {"type", "id"}) /\ Unique(d.rates, {"position", "field"})
        /\ Unique(d.unsupported, {"account", "type"})
    BY <1>1 DEF HoldingsSound
  <2> QED
    BY <1>3, <1>5, <2>1, <2>2, <2>3, <2>4 DEF KeysUnique
<1>8. /\ MoneySchema(s.overview.gross) /\ MoneySchema(s.overview.debt)
      /\ s.overview.gross.amount >= 0
      /\ IF s.overview.completeness = "assets_only"
         THEN s.quality = "ASSETS_ONLY" /\ s.debtValuation = "UNAVAILABLE" /\ s.overview.debt.amount = Null
         ELSE /\ s.overview.debt.amount # Null
              /\ IF s.overview.unvalued = 0
                 THEN s.quality = "REPORTED_COMPLETE" /\ s.debtValuation = "COMPLETE"
                 ELSE s.quality = "REPORTED_UNVALUED_DEBT" /\ s.debtValuation = "PARTIAL"
      /\ ValidateMoney(s.overview.gross, answer.currency)
      /\ ValidateMoney(s.overview.debt, answer.currency)
      /\ s.overview.debt.amount = Null \/ s.overview.debt.amount >= 0
  BY <1>3, OverviewMeets
<1>9. Schema(s)
  <2>1. \A a \in d.accounts : MoneySchema(a.balance)
    BY <1>1 DEF AccountsSound
  <2>2. \A p \in d.positions : MoneySchema(p.value) /\ p.type \in DOMAIN ProductType
    BY <1>1 DEF HoldingsSound
  <2>3. d.accountsState # "COMPLETE" => d.accounts = {} /\ d.ownership = {} /\ d.connections = {}
    BY <1>1 DEF AccountsSound
  <2>4. /\ d.holdingsState # "COMPLETE" => d.positions = {} /\ d.rates = {}
        /\ d.holdingsState = "COMPLETE" => d.accountsState = "COMPLETE"
        /\ d.unsupported # {} => d.holdingsState = "PARTIAL"
    BY <1>1 DEF HoldingsSound
  <2> QED
    BY <1>5, <1>8, <2>1, <2>2, <2>3, <2>4 DEF Schema
<1>10. \A m \in Members : ValidateMoney(m.debt, answer.currency) /\ (m.debt.amount = Null \/ m.debt.amount >= 0)
  <2> SUFFICES ASSUME NEW m \in Members
               PROVE  ValidateMoney(m.debt, answer.currency) /\ (m.debt.amount = Null \/ m.debt.amount >= 0)
    OBVIOUS
  <2>1. PICK i \in 1 .. Len(answer.members) : m.debt = Money(answer.members[i], answer.currency, Null)
    BY DEF Members
  <2>2. answer.currency # Null /\ answer.members[i] \in Int \cup {Null}
    BY SchemasAssumption
  <2>3. ValidateMoney(m.debt, answer.currency) /\ m.debt.amount = answer.members[i]
    BY <2>1, <2>2, MoneyIs
  <2>4. answer.members[i] = Null \/ answer.members[i] >= 0
    BY <2>2 DEF Odd
  <2> QED
    BY <2>3, <2>4
<1>11. \A debt \in {s.overview.debt} \cup { m.debt : m \in s.members } :
         ValidateMoney(debt, s.currency) /\ (debt.amount = Null \/ debt.amount >= 0)
  BY <1>3, <1>8, <1>10
<1>12. \A x \in s.types : \E c \in s.categories : c.category = x.category
  <2> SUFFICES ASSUME NEW x \in Types PROVE \E c \in Categories : c.category = x.category
    BY <1>3
  <2>1. PICK i \in 1 .. Len(answer.allocation) : x.category = answer.allocation[i].category
    BY DEF Types, TypesOf
  <2> DEFINE c == [row |-> i, category |-> answer.allocation[i].category]
  <2>2. c \in Categories /\ c.category = answer.allocation[i].category
    BY DEF Categories
  <2> QED
    BY <2>1, <2>2
<1>13. \A a \in d.accounts :
         /\ a.state = "NO_CONNECTION" => a.connection = Null
         /\ a.state = "UNRESOLVED" => a.connection # Null
         /\ a.state = "RESOLVED" => a.connection \in Keys(d.connections)
         /\ ValidateMoney(a.balance, Null)
         /\ a.balance.basis = "SOURCE_CONVERSION" => a.full # Null /\ a.balance.eur = a.full
  BY <1>1 DEF AccountsSound
<1>14. \A o \in d.ownership :
         \E a \in d.accounts : a.key = o.account /\ a.evidence = "EXPLICIT_ENTRIES"
  BY <1>1 DEF AccountsSound
<1>15. /\ \A p \in d.positions : p.account \in Keys(d.accounts) /\ ValidatePosition(p)
       /\ \A r \in d.rates : r.position \in Keys(d.positions)
       /\ \A u \in d.unsupported : u.account \in Keys(d.accounts)
  BY <1>1 DEF HoldingsSound
<1>16. ValidateMoney(s.overview.gross, s.currency)
  BY <1>3, <1>8
<1>17. ValidateSnapshot(s)
  BY <1>4, <1>5, <1>6, <1>7, <1>9, <1>11, <1>12, <1>13, <1>14, <1>15, <1>16, Zenon DEF ValidateSnapshot
<1> QED
  BY <1>17 DEF s

-----------------------------------------------------------------------------
(* From the accounts to the answer.                                        *)

\* What has been read meets the contract, and the draft is judged by it.
Sound ==
  /\ AccountsSound(detail) /\ HoldingsSound(detail) /\ OwnersSound(detail)
  /\ phase = "holdings" => AccountsOnly(detail)
  /\ phase \in {"accounts", "holdings", "close"} => OverviewFits
  /\ phase \in {"answered", "refused"} =>
       /\ AccountsSound(draft.detail) /\ HoldingsSound(draft.detail)
       /\ phase = "refused" <=> ~ValidateSnapshot(draft)
       /\ phase = "refused" => Odd \/ ~Steady("bridge")

\* What is sound remains so.
LEMMA SoundKept ==
  ASSUME UNCHANGED answer
  PROVE  /\ OwnersSound(detail') => OwnersSound(detail)'
         /\ AccountsOnly(detail') => AccountsOnly(detail)'
         /\ OverviewFits' <=> OverviewFits
         /\ Odd' <=> Odd
BY DEF OwnersSound, AccountsOnly, OverviewFits, Odd

LEMMA SoundIdle ==
  ASSUME Sound, UNCHANGED <<answer, phase, detail, draft>>, Steady("bridge")' => Steady("bridge")
  PROVE  Sound'
<1>1. (OwnersSound(detail))' /\ (AccountsOnly(detail) => AccountsOnly(detail)')
  BY SoundKept DEF Sound
<1>2. AccountsSound(detail)' /\ HoldingsSound(detail)'
  BY DEF Sound
<1>3. phase' \in {"accounts", "holdings", "close"} => OverviewFits'
  BY SoundKept DEF Sound
<1>4. phase' \in {"answered", "refused"} =>
       /\ AccountsSound(draft'.detail) /\ HoldingsSound(draft'.detail)
       /\ phase' = "refused" <=> ~ValidateSnapshot(draft')
       /\ phase' = "refused" => Odd' \/ ~Steady("bridge")'
  BY SoundKept DEF Sound
<1> QED
  BY <1>1, <1>2, <1>3, <1>4 DEF Sound

LEMMA NoSessionSound == UNCHANGED answer /\ NoSession => Sound'
<1> SUFFICES ASSUME UNCHANGED answer, NoSession PROVE Sound'
  OBVIOUS
<1>1. detail' = NoDetail /\ phase' = "idle"
  BY DEF NoSession
<1>2. AccountsSound(detail') /\ HoldingsSound(detail') /\ OwnersSound(detail')
  BY <1>1, NoDetailSound
<1> QED
  BY <1>1, <1>2, SoundKept DEF Sound

LEMMA InitSound == Init => Sound
<1> SUFFICES ASSUME Init PROVE Sound
  OBVIOUS
<1>1. detail = NoDetail /\ phase = "idle"
  BY DEF Init
<1> QED
  BY <1>1, NoDetailSound DEF Sound

LEMMA AccountsStepSound ==
  ASSUME Timely, Honest, Sound, ReadAccounts
  PROVE  Sound'
<1>1. /\ phase = "accounts" /\ UNCHANGED <<answer, at, draft>>
      /\ "accounts" \in answer.tools => AccountsFit
  BY DEF ReadAccounts, Proceeds
<1>2. \/ "accounts" \in answer.tools /\ detail' = AccountDetail /\ phase' = "holdings"
      \/ "accounts" \in answer.tools /\ detail' = Incomplete(AccountDetail) /\ phase' = "close"
      \/ detail' = Incomplete(NoDetail) /\ phase' = "close"
  BY DEF ReadAccounts
<1>3. OverviewFits'
  BY <1>1, SoundKept DEF Sound
<1>4. AccountsSound(detail') /\ HoldingsSound(detail') /\ OwnersSound(detail')
  <2>1. CASE "accounts" \in answer.tools /\ detail' = AccountDetail
    BY <1>1, <2>1, AccountDetailSound DEF Timely
  <2>2. CASE "accounts" \in answer.tools /\ detail' = Incomplete(AccountDetail)
    <3>1. Alike(detail', AccountDetail)
      BY <2>2, IncompleteAlike, AccountDetailIs
    <3> QED
      BY <1>1, <2>2, <3>1, AccountDetailSound, AlikeSound DEF Timely
  <2>3. CASE detail' = Incomplete(NoDetail)
    <3>1. Alike(detail', NoDetail)
      BY <2>3, IncompleteAlike, NoDetailIs
    <3> QED
      BY <3>1, NoDetailSound, AlikeSound
  <2> QED
    BY <1>2, <2>1, <2>2, <2>3
<1>5. phase' = "holdings" => AccountsOnly(detail')
  <2> SUFFICES ASSUME phase' = "holdings" PROVE AccountsOnly(detail')
    OBVIOUS
  <2>1. AccountsFit /\ detail' = AccountDetail
    BY <1>1, <1>2
  <2>2. Keys(AccountDetail.accounts) = { a.id : a \in answer.accounts }
    BY <2>1, AccountDetailSound DEF Timely
  <2> QED
    BY <2>1, <2>2, AccountDetailIs DEF AccountsOnly
<1>6. phase' \in {"holdings", "close"}
  BY <1>2
<1> QED
  BY <1>1, <1>3, <1>4, <1>5, <1>6, SoundKept DEF Sound

LEMMA HoldingsStepSound ==
  ASSUME Timely, Honest, Sound, ReadHoldings
  PROVE  Sound'
<1>1. /\ phase = "holdings" /\ phase' = "close" /\ detail' = HoldingsDetail /\ UNCHANGED <<answer, at, draft>>
      /\ Unsupported = {} => HoldingsFit
  BY DEF ReadHoldings, Proceeds
<1>2. AccountsSound(HoldingsDetail) /\ HoldingsSound(HoldingsDetail) /\ OwnersSound(HoldingsDetail)
  BY <1>1, HoldingsDetailSound DEF Timely, Sound
<1>3. OverviewFits'
  BY <1>1, SoundKept DEF Sound
<1>4. AccountsSound(detail)' /\ HoldingsSound(detail)' /\ OwnersSound(detail)'
  BY <1>1, <1>2, SoundKept
<1> QED
  BY <1>1, <1>3, <1>4 DEF Sound

LEMMA AssembleSound ==
  ASSUME TypeOK, Timely, Honest, Sound, Assemble
  PROVE  Sound'
<1> DEFINE t == Reading("bridge")
<1>1. /\ phase = "close" /\ now - begun[run] <= Window /\ draft' = Draft(t)
      /\ phase' = IF ValidateSnapshot(draft') THEN "answered" ELSE "refused"
      /\ UNCHANGED <<answer, adjusted, run, at, detail>>
  BY DEF Assemble, Proceeds, Elapsed, clocks, records
<1>2. run \in Runs /\ stage[run] = "collecting"
  BY <1>1 DEF TypeOK
<1>3. t \in Int /\ t = now + offset["bridge"] /\ now \in Int /\ offset["bridge"] \in Int
  BY ReadingInt
<1>4. begun[run] \in Int /\ started[run] \in Int /\ begun[run] <= now
  BY <1>2 DEF Timely
<1> HIDE DEF t
<1>5. Steady("bridge") => started[run] <= t /\ t - started[run] <= Window
  <2> SUFFICES ASSUME Steady("bridge") PROVE started[run] <= t /\ t - started[run] <= Window
    OBVIOUS
  <2>1. started[run] = begun[run] + offset["bridge"]
    BY <1>2 DEF Timely
  <2> QED
    BY <1>1, <1>3, <1>4, <2>1, TimesAssumption
<1>6. Steady("bridge") /\ ~Odd => ValidateSnapshot(draft')
  BY <1>1, <1>3, <1>4, <1>5, DraftMeets DEF Timely, Honest, Sound
<1>7. AccountsSound(draft'.detail) /\ HoldingsSound(draft'.detail)
  BY <1>1, DraftAlike, AlikeSound DEF Honest, Sound
<1>8. AccountsSound(detail)' /\ HoldingsSound(detail)' /\ OwnersSound(detail)'
  BY <1>1, SoundKept DEF Sound
<1>9. /\ phase' \in {"answered", "refused"}
      /\ phase' = "refused" <=> ~ValidateSnapshot(draft')
      /\ phase' = "refused" => Odd' \/ ~Steady("bridge")'
  BY <1>1, <1>6, SoundKept DEF Steady
<1> QED
  BY <1>7, <1>8, <1>9 DEF Sound

LEMMA NextSound == TypeOK /\ Timely /\ Honest /\ Sound /\ [Next]_vars => Sound'
<1> SUFFICES ASSUME TypeOK, Timely, Honest, Sound, [Next]_vars PROVE Sound'
  OBVIOUS
<1>1. ASSUME NEW r \in Runs, Begin(r) \/ Complete(r) \/ WriteFails(r) PROVE Sound'
  <2>1. UNCHANGED <<answer, adjusted, phase, detail, draft>>
    BY <1>1 DEF Begin, Complete, WriteFails, clocks, session
  <2> QED
    BY <2>1, SoundIdle DEF Steady
<1>2. ASSUME NEW r \in Runs, Lease(r) PROVE Sound'
  <2>1. phase' = "overview" /\ UNCHANGED <<answer, detail, draft>>
    BY <1>2 DEF Lease
  <2>2. AccountsSound(detail)' /\ HoldingsSound(detail)' /\ OwnersSound(detail)'
    BY <2>1, SoundKept DEF Sound
  <2> QED
    BY <2>1, <2>2 DEF Sound
<1>3. ASSUME NEW r \in Runs, CollectionFails(r) PROVE Sound'
  <2>1. UNCHANGED <<answer, adjusted>> /\ (NoSession \/ UNCHANGED <<phase, detail, draft>>)
    BY <1>3 DEF CollectionFails, clocks, session
  <2> QED
    BY <2>1, SoundIdle, NoSessionSound DEF Steady
<1>4. CASE ReadOverview
  <2>1. phase' = "accounts" /\ OverviewFits /\ UNCHANGED <<answer, detail, draft>>
    BY <1>4 DEF ReadOverview, Proceeds
  <2>2. AccountsSound(detail)' /\ HoldingsSound(detail)' /\ OwnersSound(detail)' /\ OverviewFits'
    BY <2>1, SoundKept DEF Sound
  <2> QED
    BY <2>1, <2>2 DEF Sound
<1>5. CASE ReadAccounts
  BY <1>5, AccountsStepSound
<1>6. CASE ReadHoldings
  BY <1>6, HoldingsStepSound
<1>7. CASE Assemble
  BY <1>7, AssembleSound
<1>8. CASE Receive
  BY <1>8, NoSessionSound DEF Receive
<1>9. CASE Tick
  <2>1. UNCHANGED <<answer, adjusted, phase, detail, draft>>
    BY <1>9 DEF Tick, session
  <2> QED
    BY <2>1, SoundIdle DEF Steady
<1>10. ASSUME NEW c \in Clocks, Adjust(c) PROVE Sound'
  <2>1. UNCHANGED <<answer, phase, detail, draft>> /\ adjusted' = adjusted \cup {c}
    BY <1>10 DEF Adjust, session
  <2> QED
    BY <2>1, SoundIdle DEF Steady
<1>11. CASE UNCHANGED vars
  <2>1. UNCHANGED <<answer, adjusted, phase, detail, draft>>
    BY <1>11 DEF vars, clocks, session
  <2> QED
    BY <2>1, SoundIdle DEF Steady
<1> QED
  BY <1>1, <1>2, <1>3, <1>4, <1>5, <1>6, <1>7, <1>8, <1>9, <1>10, <1>11 DEF Next

\* Both validators judge every snapshot of the bridge alike, and refuse one
\* only if the answer was odd or the clock of the bridge set meanwhile.
THEOREM ContractIsMet == Spec => []ContractMet
<1>1. Spec => [](TypeOK /\ Timely /\ Honest /\ Sound)
  BY InitSound, NextSound, SessionInvariant, PTL DEF Spec
<1>2. Sound => ContractMet
  <2> SUFFICES ASSUME Sound, phase \in {"answered", "refused"}
               PROVE  /\ phase = "refused" <=> ~McpSnapshot(draft)
                      /\ phase = "refused" => Odd \/ ~Steady("bridge")
    BY DEF ContractMet
  <2>1. AccountsSound(draft.detail) /\ HoldingsSound(draft.detail)
    BY DEF Sound
  <2>2. ValidateSnapshot(draft) <=> McpSnapshot(draft)
    BY <2>1, ValidatorsAgree DEF AccountsSound, HoldingsSound
  <2> QED
    BY <2>2 DEF Sound
<1> QED
  BY <1>1, <1>2, PTL

=============================================================================
