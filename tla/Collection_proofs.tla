-------------------------- MODULE Collection_proofs --------------------------
(***************************************************************************)
(* Proofs about a request of the bridge, for any number of accounts, any   *)
(* bounds and any data behind it.                                          *)
(***************************************************************************)
EXTENDS CollectionSafety, SequenceTheorems, FiniteSetTheorems, TLAPS

\* Tasks are created when the request gathers, and collect only then.
Alone == /\ pc \in Sequential => \A a \in Accounts : task[a] = "none"
         /\ pc \notin {"gather", "cancelling"} => \A a \in Accounts : task[a] \notin Running

\* Only a task that collects, and the request before it gathers, have a call
\* on the wire.
Quiet == /\ \A a \in Accounts : wire[a] # "idle" => task[a] = "collect"
         /\ wire[Main] # "idle" => pc \in Sequential

\* A call that is sent again, and a collector that goes on, have an attempt
\* and a page left.
Budget == /\ \A c \in Callers : wire[c] = "backoff" => attempts[c] + 1 < MaxAttempts
          /\ \A a \in Accounts : task[a] \in Running \cup {"none"} => pages[a] < MaxPages

\* The token request is not sent again.
Token == /\ tokenRequests = 1
         /\ pc = "authorize" => wire[Main] # "backoff" /\ attempts[Main] = 0

\* What has been seen are the rows of the collectors, each once.
Rows == /\ RowsOnce
        /\ \A a \in Accounts : ToSet(rows[a]) \subseteq seen

\* The inductive invariant.
IInv == TypeOK /\ Alone /\ Quiet /\ Budget /\ Token /\ Rows

-----------------------------------------------------------------------------
(* Sequences of holdings.                                                  *)

\* The rows of a slice are those of its places, those of two parts in a row
\* are those of both.
LEMMA SliceSet ==
  ASSUME NEW s \in Seq(Holdings), NEW m \in 1 .. Len(s) + 1, NEW n \in m - 1 .. Len(s)
  PROVE  /\ SubSeq(s, m, n) \in Seq(Holdings) /\ Len(SubSeq(s, m, n)) = n - m + 1
         /\ ToSet(SubSeq(s, m, n)) = { s[k] : k \in m .. n }
<1>1. Len(s) \in Nat /\ m \in Int /\ n \in Int
  OBVIOUS
<1>2. \A k \in m .. n : s[k] \in Holdings
  BY <1>1, ElementOfSeq
<1> DEFINE part == SubSeq(s, m, n)
<1>3. /\ part \in Seq(Holdings) /\ Len(part) = (IF m <= n THEN n - m + 1 ELSE 0)
      /\ \A k \in 1 .. n - m + 1 : part[k] = s[m + k - 1]
  BY <1>1, <1>2, SubSeqProperties
<1> HIDE DEF part
<1>4. Len(part) = n - m + 1
  BY <1>1, <1>3
<1>5. ToSet(part) \subseteq { s[k] : k \in m .. n }
  <2> SUFFICES ASSUME NEW k \in 1 .. n - m + 1 PROVE part[k] \in { s[j] : j \in m .. n }
    BY <1>4 DEF ToSet
  <2>1. m + k - 1 \in m .. n
    BY <1>1
  <2> QED
    BY <1>3, <2>1
<1>6. { s[k] : k \in m .. n } \subseteq ToSet(part)
  <2> SUFFICES ASSUME NEW k \in m .. n PROVE s[k] \in ToSet(part)
    OBVIOUS
  <2>1. k - m + 1 \in 1 .. n - m + 1 /\ m + (k - m + 1) - 1 = k
    BY <1>1
  <2>2. part[k - m + 1] = s[k]
    BY <1>3, <2>1
  <2> QED
    BY <1>4, <2>1, <2>2 DEF ToSet
<1>7. part \in Seq(Holdings) /\ Len(part) = n - m + 1 /\ ToSet(part) = { s[k] : k \in m .. n }
  BY <1>3, <1>4, <1>5, <1>6
<1> QED
  BY <1>7 DEF part

LEMMA ChangeTypes ==
  ASSUME NEW s \in Seq(Holdings)
  PROVE  /\ \A i \in 1 .. Len(s) : Without(s, i) \in Seq(Holdings)
         /\ \A i \in 1 .. Len(s) + 1 : \A h \in Holdings : Insert(s, i, h) \in Seq(Holdings)
         /\ \A i \in 1 .. Len(s) - 1 : Swapped(s, i) \in Seq(Holdings)
<1>a. Len(s) \in Nat
  OBVIOUS
<1>1. ASSUME NEW i \in 1 .. Len(s) PROVE Without(s, i) \in Seq(Holdings)
  <2>1. SubSeq(s, 1, i - 1) \in Seq(Holdings)
    BY <1>a, SliceSet
  <2>2. SubSeq(s, i + 1, Len(s)) \in Seq(Holdings)
    BY <1>a, SliceSet
  <2> QED
    BY <2>1, <2>2 DEF Without
<1>2. ASSUME NEW i \in 1 .. Len(s) + 1, NEW h \in Holdings PROVE Insert(s, i, h) \in Seq(Holdings)
  <2>1. SubSeq(s, 1, i - 1) \in Seq(Holdings)
    BY <1>a, SliceSet
  <2>2. SubSeq(s, i, Len(s)) \in Seq(Holdings)
    BY <1>a, SliceSet
  <2>3. <<h>> \in Seq(Holdings)
    OBVIOUS
  <2> QED
    BY <2>1, <2>2, <2>3 DEF Insert
<1>3. ASSUME NEW i \in 1 .. Len(s) - 1 PROVE Swapped(s, i) \in Seq(Holdings)
  <2>1. s[i] \in Holdings /\ s[i + 1] \in Holdings
    BY <1>a
  <2> QED
    BY <2>1, ExceptSeq DEF Swapped
<1> QED
  BY <1>1, <1>2, <1>3

LEMMA ConcatSet ==
  ASSUME NEW s \in Seq(Holdings), NEW t \in Seq(Holdings)
  PROVE  /\ s \o t \in Seq(Holdings) /\ Len(s \o t) = Len(s) + Len(t)
         /\ ToSet(s \o t) = ToSet(s) \cup ToSet(t)
<1>1. /\ Len(s \o t) = Len(s) + Len(t) /\ s \o t \in Seq(Holdings)
      /\ \A i \in 1 .. Len(s) + Len(t) :
           (s \o t)[i] = IF i <= Len(s) THEN s[i] ELSE t[i - Len(s)]
  BY ConcatProperties
<1>2. Len(s) \in Nat /\ Len(t) \in Nat
  OBVIOUS
<1>3. ToSet(s \o t) \subseteq ToSet(s) \cup ToSet(t)
  <2>1. ASSUME NEW i \in 1 .. Len(s) + Len(t)
        PROVE  \/ i \in 1 .. Len(s) /\ (s \o t)[i] = s[i]
               \/ i - Len(s) \in 1 .. Len(t) /\ (s \o t)[i] = t[i - Len(s)]
    BY <1>1, <1>2
  <2> QED
    BY <1>1, <2>1 DEF ToSet
<1>4. ToSet(s) \subseteq ToSet(s \o t)
  BY <1>1, <1>2 DEF ToSet
<1>5. ToSet(t) \subseteq ToSet(s \o t)
  <2> SUFFICES ASSUME NEW j \in 1 .. Len(t) PROVE t[j] \in ToSet(s \o t)
    BY DEF ToSet
  <2>1. j + Len(s) \in 1 .. Len(s) + Len(t) /\ ~(j + Len(s) <= Len(s)) /\ (j + Len(s)) - Len(s) = j
    BY <1>2
  <2>2. (s \o t)[j + Len(s)] = t[j]
    BY <1>1, <2>1
  <2> QED
    BY <1>1, <2>1, <2>2 DEF ToSet
<1> QED
  BY <1>1, <1>3, <1>4, <1>5

\* Distinct rows followed by distinct others are distinct.
LEMMA AppendDistinct ==
  ASSUME NEW s \in Seq(Holdings), NEW t \in Seq(Holdings), Distinct(s), Distinct(t),
         ToSet(s) \cap ToSet(t) = {}
  PROVE  Distinct(s \o t)
<1>1. /\ Len(s \o t) = Len(s) + Len(t)
      /\ \A i \in 1 .. Len(s) + Len(t) :
           (s \o t)[i] = IF i <= Len(s) THEN s[i] ELSE t[i - Len(s)]
  BY ConcatProperties
<1>2. Len(s) \in Nat /\ Len(t) \in Nat
  OBVIOUS
<1>3. ASSUME NEW i \in 1 .. Len(s) + Len(t)
      PROVE  \/ i \in 1 .. Len(s) /\ (s \o t)[i] = s[i] /\ s[i] \in ToSet(s)
             \/ i - Len(s) \in 1 .. Len(t) /\ (s \o t)[i] = t[i - Len(s)] /\ t[i - Len(s)] \in ToSet(t)
  BY <1>1, <1>2 DEF ToSet
<1> SUFFICES ASSUME NEW i \in 1 .. Len(s) + Len(t), NEW j \in 1 .. Len(s) + Len(t),
                    (s \o t)[i] = (s \o t)[j]
             PROVE  i = j
  BY <1>1 DEF Distinct
<1>4. CASE i \in 1 .. Len(s) /\ j \in 1 .. Len(s)
  BY <1>1, <1>2, <1>4 DEF Distinct
<1>5. CASE i \notin 1 .. Len(s) /\ j \notin 1 .. Len(s)
  <2>1. /\ i - Len(s) \in 1 .. Len(t) /\ j - Len(s) \in 1 .. Len(t)
        /\ t[i - Len(s)] = t[j - Len(s)]
    BY <1>3, <1>5
  <2>2. i - Len(s) = j - Len(s)
    BY <2>1 DEF Distinct
  <2> QED
    BY <1>2, <2>2
<1>6. CASE (i \in 1 .. Len(s)) # (j \in 1 .. Len(s))
  BY <1>2, <1>3, <1>6
<1> QED
  BY <1>4, <1>5, <1>6

\* What the server answers is a page of holdings.
Page(p) == p.data \in Seq(Holdings) /\ p.total \in Nat /\ p.more \in BOOLEAN

LEMMA HonestType ==
  ASSUME NEW a \in Accounts, source[a] \in Seq(Holdings), NEW offset \in Nat, NEW n \in Nat,
         offset + n <= Len(source[a]) \/ n = 0
  PROVE  Page(Honest(a, offset, n))
<1>1. Len(source[a]) \in Nat
  OBVIOUS
<1>2. SubSeq(source[a], offset + 1, offset + n) \in Seq(Holdings)
  <2>1. CASE n = 0
    BY <2>1, SubSeqEmpty, EmptySeq
  <2>2. CASE offset + n <= Len(source[a])
    <3>1. \A i \in offset + 1 .. offset + n : source[a][i] \in Holdings
      BY <1>1, <2>2, ElementOfSeq
    <3> QED
      BY <3>1, SubSeqProperties
  <2> QED
    BY <2>1, <2>2
<1> QED
  BY <1>1, <1>2 DEF Honest, Page

LEMMA HonestPagesType ==
  ASSUME NEW a \in Accounts, source[a] \in Seq(Holdings), NEW offset \in Nat,
         NEW p \in HonestPages(a, offset)
  PROVE  Page(p) /\ p \in [of : Accounts, offset : Nat, limit : {PageLimit}, total : Nat,
                           more : BOOLEAN, data : Seq(Holdings), conflict : BOOLEAN]
<1>1. PICK n \in Nat : p = Honest(a, offset, n) /\ (offset + n <= Len(source[a]) \/ n = 0)
  <2>1. CASE offset >= Len(source[a])
    BY <2>1 DEF HonestPages
  <2>2. CASE ~(offset >= Len(source[a]))
    BY <2>2, LimitsAssumption DEF HonestPages
  <2> QED
    BY <2>1, <2>2
<1>2. Page(p)
  BY <1>1, HonestType
<1> QED
  BY <1>1, <1>2 DEF Page, Honest

\* ... that tells how many there are now, and shows some of them.
Offers(a, p) == p.total = Len(source[a]) /\ ToSet(p.data) \subseteq ToSet(source[a])

LEMMA HonestOffer ==
  ASSUME NEW a \in Accounts, source[a] \in Seq(Holdings), NEW offset \in Nat,
         NEW p \in HonestPages(a, offset)
  PROVE  Offers(a, p)
<1>1. PICK n \in Nat : p = Honest(a, offset, n) /\ (offset + n <= Len(source[a]) \/ n = 0)
  <2>1. CASE offset >= Len(source[a])
    BY <2>1 DEF HonestPages
  <2>2. CASE ~(offset >= Len(source[a]))
    BY <2>2, LimitsAssumption DEF HonestPages
  <2> QED
    BY <2>1, <2>2
<1>2. p.total = Len(source[a]) /\ p.data = SubSeq(source[a], offset + 1, offset + n)
  BY <1>1 DEF Honest
<1>3. CASE n = 0
  <2>1. p.data = <<>>
    BY <1>2, <1>3, SubSeqEmpty
  <2> QED
    BY <1>2, <2>1 DEF Offers, ToSet
<1>4. CASE n > 0 /\ offset + n <= Len(source[a])
  <2>1. Len(source[a]) \in Nat
    OBVIOUS
  <2>2. offset + 1 \in 1 .. Len(source[a]) + 1 /\ offset + n \in (offset + 1) - 1 .. Len(source[a])
    BY <1>4, <2>1
  <2>3. ToSet(p.data) = { source[a][k] : k \in offset + 1 .. offset + n }
    BY <1>2, <2>2, SliceSet
  <2>4. \A k \in offset + 1 .. offset + n : k \in 1 .. Len(source[a])
    BY <1>4, <2>1
  <2>5. ToSet(p.data) \subseteq ToSet(source[a])
    BY <2>3, <2>4 DEF ToSet
  <2> QED
    BY <1>2, <2>5 DEF Offers
<1> QED
  BY <1>1, <1>3, <1>4

LEMMA PageOffer ==
  ASSUME NEW a \in Accounts, source[a] \in Seq(Holdings), NEW offset \in Nat,
         NEW p \in HonestPages(a, offset) \cup FaultyPages(a, offset)
  PROVE  Offers(a, p)
<1> DEFINE short == IF offset > 0 THEN offset - 1 ELSE 1
<1>1. short \in Nat
  OBVIOUS
<1>2. CASE p \in HonestPages(a, offset) \cup HonestPages(a, short)
  BY <1>1, <1>2, HonestOffer
<1>3. ASSUME NEW q \in HonestPages(a, offset),
             \/ p = [q EXCEPT !.more = ~q.more] \/ p = [q EXCEPT !.conflict = TRUE]
             \/ \E b \in Accounts : p = [q EXCEPT !.of = b]
      PROVE  Offers(a, p)
  <2>1. q \in [of : Accounts, offset : Nat, limit : {PageLimit}, total : Nat,
               more : BOOLEAN, data : Seq(Holdings), conflict : BOOLEAN]
    BY HonestPagesType
  <2>2. p.total = q.total /\ p.data = q.data
    BY <1>3, <2>1
  <2> QED
    BY <2>2, HonestOffer DEF Offers
<1> QED
  BY <1>2, <1>3 DEF FaultyPages

LEMMA PageType ==
  ASSUME NEW a \in Accounts, source[a] \in Seq(Holdings), NEW offset \in Nat,
         NEW p \in HonestPages(a, offset) \cup FaultyPages(a, offset)
  PROVE  Page(p)
<1> DEFINE short == IF offset > 0 THEN offset - 1 ELSE 1
<1>1. short \in Nat
  OBVIOUS
<1>2. CASE p \in HonestPages(a, offset) \cup HonestPages(a, short)
  BY <1>1, <1>2, HonestPagesType
<1>3. ASSUME NEW q \in HonestPages(a, offset),
             \/ p = [q EXCEPT !.more = ~q.more] \/ p = [q EXCEPT !.conflict = TRUE]
             \/ \E b \in Accounts : p = [q EXCEPT !.of = b]
      PROVE  Page(p)
  <2>1. q \in [of : Accounts, offset : Nat, limit : {PageLimit}, total : Nat,
               more : BOOLEAN, data : Seq(Holdings), conflict : BOOLEAN]
    BY HonestPagesType
  <2> QED
    BY <1>3, <2>1 DEF Page
<1> QED
  BY <1>2, <1>3 DEF FaultyPages

-----------------------------------------------------------------------------
(* Which step changes what.                                                *)

\* A page is kept, of which all checks have been made.
Keeps(a, p) ==
  /\ task[a] = "collect" /\ Page(p) /\ Offers(a, p) /\ Accepted(a, p)
  /\ p.more => pages[a] + 1 < MaxPages
  /\ rows' = [rows EXCEPT ![a] = @ \o p.data]
  /\ total' = [total EXCEPT ![a] = Total(a, p)]
  /\ pages' = [pages EXCEPT ![a] = @ + 1]
  /\ seen' = seen \cup ToSet(p.data)
  /\ wire' = [wire EXCEPT ![a] = IF p.more THEN "sent" ELSE "idle"]
  /\ task' = [task EXCEPT ![a] = IF p.more THEN @ ELSE "done"]
  /\ attempts' = [attempts EXCEPT ![a] = 0]
  /\ UNCHANGED <<pc, failure>>

LEMMA PageReadSteps ==
  ASSUME TypeOK, NEW a \in Accounts, PageRead(a)
  PROVE  (Failed(a) /\ UNCHANGED collector) \/ \E p : Keeps(a, p)
<1>1. source[a] \in Seq(Holdings) /\ Offset(a) \in Nat
  BY DEF TypeOK, Offset
<1>2. PICK p \in HonestPages(a, Offset(a)) \cup FaultyPages(a, Offset(a)) :
        IF ~Accepted(a, p) \/ (p.more /\ pages[a] + 1 >= MaxPages)
        THEN Failed(a) /\ UNCHANGED collector
        ELSE /\ rows' = [rows EXCEPT ![a] = @ \o p.data]
             /\ total' = [total EXCEPT ![a] = Total(a, p)]
             /\ pages' = [pages EXCEPT ![a] = @ + 1]
             /\ seen' = seen \cup ToSet(p.data)
             /\ wire' = [wire EXCEPT ![a] = IF p.more THEN "sent" ELSE "idle"]
             /\ task' = [task EXCEPT ![a] = IF p.more THEN @ ELSE "done"]
             /\ UNCHANGED <<pc, failure>>
  BY DEF PageRead
<1>3. Page(p) /\ Offers(a, p)
  BY <1>1, PageType, PageOffer
<1>4. task[a] = "collect" /\ attempts' = [attempts EXCEPT ![a] = 0]
  BY DEF PageRead, Answered
<1>5. pages[a] + 1 >= MaxPages \/ pages[a] + 1 < MaxPages
  <2>1. pages[a] \in Int /\ MaxPages \in Int
    BY LimitsAssumption DEF TypeOK
  <2> QED
    BY <2>1
<1>6. CASE ~Accepted(a, p) \/ (p.more /\ pages[a] + 1 >= MaxPages)
  BY <1>2, <1>6
<1>7. CASE ~(~Accepted(a, p) \/ (p.more /\ pages[a] + 1 >= MaxPages))
  <2>1. Accepted(a, p) /\ (p.more => pages[a] + 1 < MaxPages)
    BY <1>5, <1>7
  <2> QED
    BY <1>2, <1>3, <1>4, <1>7, <2>1 DEF Keeps
<1> QED
  BY <1>6, <1>7

\* The steps of the calls and of the request leave the rest alone.
LEMMA CallFrame ==
  ASSUME NEW c \in Callers, Call(c)
  PROVE  UNCHANGED <<upstream, discovery, collector, holdings>>
BY DEF Call, Resend, Unanswered, Busy, Refuse, CallTimeout

LEMMA RequestFrame ==
  ASSUME Authorized \/ Listed \/ Overview \/ AccountsRead \/ GatherFails \/ Raised \/ Gathered
         \/ Close \/ Deadline \/ \E a \in Accounts : Acquire(a) \/ Cancelled(a)
  PROVE  UNCHANGED <<upstream, collector>> /\ (~Listed => UNCHANGED discovery)
BY DEF Authorized, Listed, Overview, AccountsRead, GatherFails, Raised, Gathered, Close, Deadline,
       Acquire, Cancelled

-----------------------------------------------------------------------------
(* Types.                                                                  *)

LEMMA UpstreamStep ==
  ASSUME TypeOK, [Next]_vars
  PROVE  /\ source' \in [Accounts -> Seq(Holdings)] /\ changes' \in 0 .. MaxChanges
         /\ present' \in [Accounts -> SUBSET Holdings]
         /\ removed' \subseteq Accounts /\ inserted' \subseteq Accounts
<1>1. CASE UNCHANGED upstream
  BY <1>1 DEF TypeOK, upstream
<1>2. CASE Change
  <2>1. changes' \in 0 .. MaxChanges
    BY <1>2, LimitsAssumption DEF Change, TypeOK
  <2>2. PICK a \in Accounts :
          \/ \E i \in 1 .. Len(source[a]) :
               /\ source' = [source EXCEPT ![a] = Without(@, i)]
               /\ present' = [present EXCEPT ![a] = @ \ {source[a][i]}]
               /\ removed' = removed \cup {a}
               /\ UNCHANGED inserted
          \/ \E h \in Holdings \ Held, i \in 1 .. Len(source[a]) + 1 :
               /\ source' = [source EXCEPT ![a] = Insert(@, i, h)]
               /\ inserted' = inserted \cup {a}
               /\ UNCHANGED <<present, removed>>
          \/ \E i \in 1 .. Len(source[a]) - 1 :
               /\ source' = [source EXCEPT ![a] = Swapped(@, i)]
               /\ UNCHANGED <<present, removed, inserted>>
    BY <1>2 DEF Change
  <2>3. source[a] \in Seq(Holdings)
    BY DEF TypeOK
  <2>4. PICK s \in Seq(Holdings) : source' = [source EXCEPT ![a] = s]
    BY <2>2, <2>3, ChangeTypes
  <2>5. present' = present \/ \E h : present' = [present EXCEPT ![a] = @ \ {h}]
    BY <2>2
  <2>6. removed' \in {removed, removed \cup {a}} /\ inserted' \in {inserted, inserted \cup {a}}
    BY <2>2
  <2> QED
    BY <2>1, <2>4, <2>5, <2>6 DEF TypeOK
<1>3. ASSUME NEW a \in Accounts, PageRead(a) PROVE UNCHANGED upstream
  BY <1>3 DEF PageRead
<1> QED
  BY <1>1, <1>2, <1>3, CallFrame, RequestFrame DEF Next, Stopped, vars

LEMMA DiscoveryStep ==
  ASSUME TypeOK, [Next]_vars
  PROVE  catalog' \subseteq Tools /\ unfit' \subseteq catalog' /\ cursors' \subseteq 1 .. MaxListings
<1>1. CASE UNCHANGED discovery
  BY <1>1 DEF TypeOK, discovery
<1>2. CASE Listed
  <2>1. PICK tools \in SUBSET Tools, next \in NoCursor .. MaxListings :
          \/ UNCHANGED discovery
          \/ /\ catalog' = catalog \cup tools
             /\ \E bad \in SUBSET tools : unfit' = unfit \cup bad
             /\ \/ next # NoCursor /\ next # 0 /\ cursors' = cursors \cup {next}
                \/ cursors' = {}
    BY <1>2 DEF Listed
  <2>2. next # NoCursor /\ next # 0 => next \in 1 .. MaxListings
    BY LimitsAssumption DEF NoCursor
  <2> QED
    BY <2>1, <2>2 DEF TypeOK, discovery
<1>3. ASSUME NEW a \in Accounts, PageRead(a) \/ Change PROVE UNCHANGED discovery
  BY <1>3 DEF PageRead, Change
<1>4. Change => UNCHANGED discovery
  BY DEF Change
<1> QED
  BY <1>1, <1>2, <1>3, <1>4, CallFrame, RequestFrame DEF Next, Stopped, vars

LEMMA CollectorStep ==
  ASSUME TypeOK, Budget, [Next]_vars
  PROVE  /\ rows' \in [Accounts -> Seq(Holdings)] /\ total' \in [Accounts -> Nat \cup {-1}]
         /\ pages' \in [Accounts -> 0 .. MaxPages] /\ seen' \subseteq Holdings
<1>1. CASE UNCHANGED collector
  BY <1>1 DEF TypeOK, collector
<1>2. ASSUME NEW a \in Accounts, NEW p, Keeps(a, p)
      PROVE  /\ rows' \in [Accounts -> Seq(Holdings)] /\ total' \in [Accounts -> Nat \cup {-1}]
             /\ pages' \in [Accounts -> 0 .. MaxPages] /\ seen' \subseteq Holdings
  <2>1. rows[a] \o p.data \in Seq(Holdings)
    BY <1>2, ConcatProperties DEF Keeps, Page, TypeOK
  <2>2. Total(a, p) \in Nat \cup {-1}
    BY <1>2 DEF Keeps, Page, TypeOK, Total
  <2>3. pages[a] + 1 \in 0 .. MaxPages
    BY <1>2, LimitsAssumption DEF Keeps, TypeOK, Budget, Running
  <2>4. ToSet(p.data) \subseteq Holdings
    BY <1>2, ElementOfSeq DEF Keeps, Page, ToSet
  <2> QED
    BY <1>2, <2>1, <2>2, <2>3, <2>4 DEF Keeps, TypeOK
<1>3. ASSUME NEW a \in Accounts, PageRead(a) PROVE UNCHANGED collector \/ \E p : Keeps(a, p)
  BY <1>3, PageReadSteps
<1>4. Change => UNCHANGED collector
  BY DEF Change
<1> QED
  BY <1>1, <1>2, <1>3, <1>4, CallFrame, RequestFrame DEF Next, Stopped, vars

-----------------------------------------------------------------------------
(* The request, its tasks and their calls.                                 *)

Places == Sequential \cup {"gather", "cancelling", "close", "done", "failed"}

ControlType ==
  /\ pc \in Places /\ task \in [Accounts -> Running \cup {"none", "done", "failed", "cancelled"}]
  /\ wire \in [Callers -> {"idle", "sent", "backoff"}]
  /\ attempts \in [Callers -> 0 .. MaxAttempts - 1]
  /\ tokenRequests \in Nat /\ failure \in BOOLEAN
  /\ holdings \in {"UNAVAILABLE", "PARTIAL", "COMPLETE"}

Control == ControlType /\ Alone /\ Quiet /\ Budget /\ Token

\* There is an attempt; it is the number none has been made of.
LEMMA NoAttempt == 0 \in 0 .. MaxAttempts - 1
BY LimitsAssumption

LEMMA FailedControl ==
  ASSUME Control, NEW c \in Callers, Awaits(c), Failed(c), UNCHANGED <<tokenRequests, holdings, pages>>
  PROVE  Control'
<1>1. attempts' = [attempts EXCEPT ![c] = 0] /\ wire' = [wire EXCEPT ![c] = "idle"] /\ failure' = TRUE
  BY DEF Failed
<1>2. CASE c = Main
  <2>1. pc \in Sequential /\ pc' = "failed" /\ task' = task
    BY <1>2 DEF Failed, Awaits
  <2>2. ControlType'
    BY <1>1, <2>1, NoAttempt DEF Control, ControlType, Places
  <2>3. Alone' /\ Token'
    BY <1>1, <2>1 DEF Control, Alone, Token, Sequential, Running
  <2>4. \A a \in Accounts : a # Main /\ a \in Callers
    BY MainAssumption DEF Callers
  <2>5. Quiet' /\ Budget'
    BY <1>1, <1>2, <2>1, <2>4 DEF Control, ControlType, Quiet, Budget, Callers
  <2> QED
    BY <2>2, <2>3, <2>5 DEF Control
<1>3. CASE c # Main
  <2>1. c \in Accounts /\ pc = "gather" /\ pc' = pc /\ task' = [task EXCEPT ![c] = "failed"]
    BY <1>3 DEF Failed, Awaits, Callers
  <2>2. ControlType'
    BY <1>1, <2>1, NoAttempt DEF Control, ControlType
  <2>3. Alone' /\ Token'
    <3>1. pc \notin Sequential
      BY <2>1 DEF Sequential
    <3> QED
      BY <2>1, <3>1 DEF Control, Alone, Token
  <2>4. Quiet' /\ Budget'
    BY <1>1, <1>3, <2>1 DEF Control, ControlType, Quiet, Budget, Callers, Sequential, Running
  <2> QED
    BY <2>2, <2>3, <2>4 DEF Control
<1> QED
  BY <1>2, <1>3

LEMMA LimitBound ==
  ASSUME NEW c \in Callers
  PROVE  Limit(c) \in Nat /\ Limit(c) <= MaxAttempts
BY LimitsAssumption DEF Limit

LEMMA BackoffControl ==
  ASSUME Control, NEW c \in Callers, Sent(c), ~(attempts[c] + 1 >= Limit(c)),
         wire' = [wire EXCEPT ![c] = "backoff"],
         UNCHANGED <<attempts, pc, task, failure, tokenRequests, holdings, pages>>
  PROVE  Control'
<1>1. attempts[c] \in Nat /\ MaxAttempts \in Nat /\ attempts[c] + 1 < MaxAttempts
  BY LimitBound, LimitsAssumption DEF Control, ControlType
<1>2. ControlType'
  BY DEF Control, ControlType
<1>3. Alone'
  BY DEF Control, Alone
<1>4. Quiet'
  BY MainAssumption DEF Control, ControlType, Quiet, Sent, Awaits, Callers
<1>5. Budget'
  BY <1>1 DEF Control, ControlType, Budget
<1>6. pc = "authorize" => c # Main
  <2> SUFFICES ASSUME pc = "authorize", c = Main PROVE FALSE
    OBVIOUS
  <2>1. Limit(c) = 1
    BY MainAssumption DEF Limit, Retried
  <2>2. attempts[c] = 0
    BY DEF Control, Token
  <2> QED
    BY <2>1, <2>2
<1>7. Token'
  BY <1>6 DEF Control, ControlType, Token, Callers
<1> QED
  BY <1>2, <1>3, <1>4, <1>5, <1>7 DEF Control

LEMMA ResendControl ==
  ASSUME Control, NEW c \in Callers, Resend(c)
  PROVE  Control'
<1>1. /\ wire' = [wire EXCEPT ![c] = "sent"] /\ attempts' = [attempts EXCEPT ![c] = @ + 1]
      /\ UNCHANGED <<pc, task, failure, holdings, pages>>
      /\ wire[c] = "backoff" /\ Awaits(c)
  BY DEF Resend, collector
<1>2. attempts[c] + 1 \in 0 .. MaxAttempts - 1
  BY <1>1, LimitsAssumption DEF Control, ControlType, Budget
<1>3. pc # "authorize"
  BY <1>1 DEF Control, Token, Awaits, Callers
<1>4. tokenRequests' = tokenRequests
  BY <1>3 DEF Resend, Control, ControlType
<1>5. ControlType'
  BY <1>1, <1>2, <1>4 DEF Control, ControlType
<1>6. Alone' /\ Token'
  BY <1>1, <1>3, <1>4 DEF Control, Alone, Token
<1>7. Quiet'
  BY <1>1 DEF Control, ControlType, Quiet, Callers
<1>8. Budget'
  BY <1>1 DEF Control, ControlType, Budget
<1> QED
  BY <1>5, <1>6, <1>7, <1>8 DEF Control

LEMMA CallControl ==
  ASSUME Control, NEW c \in Callers, Call(c)
  PROVE  Control'
<1>1. CASE Resend(c)
  BY <1>1, ResendControl
<1>2. CASE Unanswered(c) \/ Busy(c)
  <2>1. Sent(c) /\ UNCHANGED <<tokenRequests, holdings, pages>>
    BY <1>2 DEF Unanswered, Busy, collector
  <2>2. CASE attempts[c] + 1 >= Limit(c)
    BY <1>2, <2>1, <2>2, FailedControl DEF Unanswered, Busy, Sent
  <2>3. CASE ~(attempts[c] + 1 >= Limit(c))
    BY <1>2, <2>1, <2>3, BackoffControl DEF Unanswered, Busy
  <2> QED
    BY <2>2, <2>3
<1>3. CASE Refuse(c) \/ CallTimeout(c)
  BY <1>3, FailedControl DEF Refuse, CallTimeout, Sent, collector
<1> QED
  BY <1>1, <1>2, <1>3 DEF Call

\* The request goes to its next call.
LEMMA EnterControl ==
  ASSUME Control, pc \in Sequential, NEW phase \in Sequential \ {"authorize"}, Answered(Main),
         Enter(phase), UNCHANGED <<task, failure, tokenRequests, holdings, pages>>
  PROVE  Control'
<1>1. /\ pc' = phase /\ wire' = [wire EXCEPT ![Main] = "sent"]
      /\ attempts' = [attempts EXCEPT ![Main] = 0] /\ Main \in Callers
  BY DEF Enter, Answered, Callers
<1>2. ControlType'
  BY <1>1, NoAttempt DEF Control, ControlType, Places
<1>3. Alone' /\ Token'
  BY <1>1 DEF Control, Alone, Token, Sequential
<1>4. Quiet'
  BY <1>1, MainAssumption DEF Control, ControlType, Quiet, Callers
<1>5. Budget'
  BY <1>1 DEF Control, ControlType, Budget
<1> QED
  BY <1>2, <1>3, <1>4, <1>5 DEF Control

\* The request goes on without a call.
LEMMA LeaveControl ==
  ASSUME Control, pc \in Sequential, NEW place \in {"close", "gather"}, Answered(Main),
         pc' = place, wire' = [wire EXCEPT ![Main] = "idle"],
         UNCHANGED <<failure, tokenRequests, holdings, pages>>,
         \/ task' = task
         \/ /\ place = "gather"
            /\ \E listed \in SUBSET Accounts :
                 task' = [a \in Accounts |-> IF a \in listed THEN "waiting" ELSE "none"]
  PROVE  Control'
<1>1. /\ attempts' = [attempts EXCEPT ![Main] = 0] /\ Main \in Callers
      /\ \A a \in Accounts : task[a] = "none" /\ a # Main /\ a \in Callers
      /\ \A a \in Accounts : task'[a] \in {"waiting", "none"}
  BY MainAssumption DEF Answered, Callers, Control, Alone
<1>2. ControlType'
  BY <1>1, NoAttempt DEF Control, ControlType, Places, Running
<1>3. Alone'
  BY <1>1 DEF Control, Alone, Sequential, Running
<1>4. Token'
  BY DEF Control, Token
<1>5. Quiet'
  BY <1>1 DEF Control, ControlType, Quiet, Callers
<1>6. Budget'
  BY <1>1 DEF Control, ControlType, Budget
<1> QED
  BY <1>2, <1>3, <1>4, <1>5, <1>6 DEF Control

\* A failure of the request's own task.
LEMMA MainFails ==
  ASSUME Control, pc \in Sequential, Failed(Main), UNCHANGED <<tokenRequests, holdings, pages>>
  PROVE  Control'
BY FailedControl DEF Awaits, Callers

LEMMA SessionControl ==
  ASSUME Control, Authorized \/ Listed \/ Overview \/ AccountsRead
  PROVE  Control'
<1>1. /\ pc \in Sequential /\ Answered(Main)
      /\ UNCHANGED <<tokenRequests, holdings, pages>>
  BY DEF Authorized, Listed, Overview, AccountsRead, Sequential, collector
<1>2. \/ Failed(Main)
      \/ \E phase \in Sequential \ {"authorize"} : Enter(phase) /\ UNCHANGED <<task, failure>>
      \/ /\ pc' = "close" /\ UNCHANGED <<task, failure>> /\ wire' = [wire EXCEPT ![Main] = "idle"]
      \/ /\ pc' = "gather" /\ UNCHANGED failure /\ wire' = [wire EXCEPT ![Main] = "idle"]
         /\ \E listed \in SUBSET Accounts :
              task' = [a \in Accounts |-> IF a \in listed THEN "waiting" ELSE "none"]
  <2>1. CASE Authorized
    BY <2>1 DEF Authorized, Sequential
  <2>2. CASE Listed
    BY <2>2 DEF Listed, Sequential
  <2>3. CASE Overview
    BY <2>3 DEF Overview, Sequential
  <2>4. CASE AccountsRead
    BY <2>4 DEF AccountsRead
  <2> QED
    BY <2>1, <2>2, <2>3, <2>4
<1>3. ASSUME NEW phase \in Sequential \ {"authorize"}, Enter(phase), UNCHANGED <<task, failure>>
      PROVE  Control'
  BY <1>1, <1>3, EnterControl
<1> QED
  BY <1>1, <1>2, <1>3, MainFails, LeaveControl

\* A task of which there are attempts and pages left, or that ends.
LEMMA TaskControl ==
  ASSUME Control, NEW a \in Accounts, task[a] \in Running, UNCHANGED <<pc, tokenRequests, holdings>>,
         failure' \in BOOLEAN,
         NEW state \in {"collect", "done", "cancelled"}, task' = [task EXCEPT ![a] = state],
         NEW call \in {"idle", "sent"}, wire' = [wire EXCEPT ![a] = call],
         call = "sent" => state = "collect",
         attempts' \in {attempts, [attempts EXCEPT ![a] = 0]},
         \A b \in Accounts \ {a} : pages'[b] = pages[b],
         state = "collect" => pages'[a] < MaxPages
  PROVE  Control'
<1>1. pc \in {"gather", "cancelling"} /\ a \in Callers /\ a # Main
  BY MainAssumption DEF Control, Alone, Callers
<1>2. ControlType'
  BY <1>1, NoAttempt DEF Control, ControlType, Running
<1>3. Alone' /\ Token'
  BY <1>1 DEF Control, Alone, Token, Sequential
<1>4. Quiet'
  BY <1>1 DEF Control, ControlType, Quiet, Callers
<1>5. Budget'
  BY <1>1 DEF Control, ControlType, Budget, Callers, Running
<1> QED
  BY <1>2, <1>3, <1>4, <1>5 DEF Control

LEMMA CollectorControl ==
  ASSUME TypeOK, Control, NEW a \in Accounts, Acquire(a) \/ PageRead(a) \/ Cancelled(a)
  PROVE  Control'
<1>a. a \in Callers /\ a # Main /\ failure \in BOOLEAN /\ pages \in [Accounts -> 0 .. MaxPages]
  BY MainAssumption DEF Callers, Control, ControlType, TypeOK
<1>1. CASE Acquire(a)
  <2>1. UNCHANGED <<pages, tokenRequests, holdings>> /\ pc = "gather" /\ task[a] = "waiting"
    BY <1>1 DEF Acquire, collector
  <2>2. CASE Failed(a)
    BY <1>a, <2>1, <2>2, FailedControl DEF Awaits
  <2>3. CASE ~("holdings" \in unfit)
    <3>1. pages[a] < MaxPages
      BY <2>1 DEF Control, Budget, Running
    <3> QED
      BY <1>1, <1>a, <2>1, <2>3, <3>1, TaskControl DEF Acquire, Running
  <2> QED
    BY <1>1, <2>2, <2>3 DEF Acquire
<1>2. CASE PageRead(a)
  <2>1. UNCHANGED <<tokenRequests, holdings>> /\ Awaits(a) /\ task[a] = "collect"
    BY <1>2 DEF PageRead, Answered, Sent
  <2>2. CASE Failed(a) /\ UNCHANGED collector
    BY <1>a, <2>1, <2>2, FailedControl DEF collector
  <2>3. ASSUME NEW p, Keeps(a, p) PROVE Control'
    <3>1. CASE p.more
      <4>1. task' = [task EXCEPT ![a] = "collect"] /\ wire' = [wire EXCEPT ![a] = "sent"]
        BY <2>1, <2>3, <3>1 DEF Keeps
      <4>2. pages'[a] < MaxPages /\ \A b \in Accounts \ {a} : pages'[b] = pages[b]
        BY <1>a, <2>3, <3>1 DEF Keeps
      <4> QED
        BY <1>a, <2>1, <2>3, <4>1, <4>2, TaskControl DEF Keeps, Running
    <3>2. CASE ~p.more
      <4>1. task' = [task EXCEPT ![a] = "done"] /\ wire' = [wire EXCEPT ![a] = "idle"]
        BY <2>1, <2>3, <3>2 DEF Keeps
      <4>2. \A b \in Accounts \ {a} : pages'[b] = pages[b]
        BY <1>a, <2>3 DEF Keeps
      <4> QED
        BY <1>a, <2>1, <2>3, <4>1, <4>2, TaskControl DEF Keeps, Running
    <3> QED
      BY <3>1, <3>2
  <2> QED
    BY <1>2, <2>2, <2>3, PageReadSteps
<1>3. CASE Cancelled(a)
  <2>1. UNCHANGED <<pages, pc, failure, tokenRequests, holdings>> /\ task[a] \in Running
        /\ task' = [task EXCEPT ![a] = "cancelled"] /\ wire' = [wire EXCEPT ![a] = "idle"]
        /\ attempts' = [attempts EXCEPT ![a] = 0]
    BY <1>3 DEF Cancelled, collector
  <2> QED
    BY <1>a, <2>1, TaskControl
<1> QED
  BY <1>1, <1>2, <1>3

LEMMA GatherControl ==
  ASSUME Control, GatherFails \/ Raised \/ Gathered \/ Close
  PROVE  Control'
<1>1. UNCHANGED <<wire, attempts, tokenRequests, task, failure, pages>>
  BY DEF GatherFails, Raised, Gathered, Close, network, collector
<1>2. /\ pc \in {"gather", "cancelling", "close"} /\ pc' \in {"cancelling", "failed", "close", "done"}
      /\ holdings' \in {holdings, "PARTIAL", "COMPLETE"}
      /\ pc' # "cancelling" => \A a \in Accounts : task[a] \notin Running
  BY DEF GatherFails, Raised, Gathered, Close, Control, Alone, Running
<1>3. ControlType'
  BY <1>1, <1>2 DEF Control, ControlType, Places
<1>4. Alone' /\ Token' /\ Quiet' /\ Budget'
  BY <1>1, <1>2 DEF Control, Alone, Token, Quiet, Budget, Sequential
<1> QED
  BY <1>3, <1>4 DEF Control

LEMMA DeadlineControl ==
  ASSUME Control, Deadline
  PROVE  Control'
<1>1. /\ UNCHANGED <<tokenRequests, task, holdings, pages>> /\ failure' = TRUE /\ Main \in Callers
      /\ wire' = [wire EXCEPT ![Main] = "idle"] /\ attempts' = [attempts EXCEPT ![Main] = 0]
      /\ \A a \in Accounts : a # Main /\ a \in Callers
  BY MainAssumption DEF Deadline, collector, Callers
<1>2. /\ pc' \in {"cancelling", "failed"}
      /\ pc' = "failed" => \A a \in Accounts : task[a] \notin Running
  BY DEF Deadline, Control, Alone
<1>3. ControlType'
  BY <1>1, <1>2, NoAttempt DEF Control, ControlType, Places
<1>4. Alone' /\ Token' /\ Quiet' /\ Budget'
  BY <1>1, <1>2 DEF Control, ControlType, Alone, Token, Quiet, Budget, Sequential, Callers
<1> QED
  BY <1>3, <1>4 DEF Control

LEMMA ControlStep ==
  ASSUME TypeOK, Control, [Next]_vars
  PROVE  Control'
<1>1. CASE Change \/ Stopped \/ UNCHANGED vars
  <2>1. UNCHANGED <<pc, task, wire, attempts, tokenRequests, failure, holdings, pages>>
    BY <1>1 DEF Change, Stopped, vars, network, collector
  <2> QED
    BY <2>1 DEF Control, ControlType, Alone, Token, Quiet, Budget
<1> QED
  BY <1>1, CallControl, SessionControl, CollectorControl, GatherControl, DeadlineControl DEF Next

-----------------------------------------------------------------------------
(* The rows.                                                               *)

LEMMA KeepsRows ==
  ASSUME TypeOK, Rows, NEW a \in Accounts, NEW p, Keeps(a, p)
  PROVE  Rows'
<1>1. /\ rows[a] \in Seq(Holdings) /\ p.data \in Seq(Holdings) /\ Distinct(p.data)
      /\ Distinct(rows[a]) /\ ToSet(p.data) \cap seen = {} /\ ToSet(rows[a]) \subseteq seen
  BY DEF TypeOK, Keeps, Page, Accepted, Fresh, Rows, RowsOnce, OncePerHolding
<1>2. /\ Distinct(rows'[a]) /\ ToSet(rows'[a]) = ToSet(rows[a]) \cup ToSet(p.data)
  <2>1. rows'[a] = rows[a] \o p.data
    BY DEF Keeps, TypeOK
  <2> QED
    BY <1>1, <2>1, AppendDistinct, ConcatSet
<1>3. \A b \in Accounts \ {a} : rows'[b] = rows[b]
  BY DEF Keeps, TypeOK
<1>4. seen' = seen \cup ToSet(p.data)
  BY DEF Keeps
<1>5. \A b \in Accounts : Distinct(rows[b]) /\ ToSet(rows[b]) \subseteq seen
  BY DEF Rows, RowsOnce, OncePerHolding
<1>6. \A b \in Accounts : Distinct(rows'[b]) /\ ToSet(rows'[b]) \subseteq seen'
  BY <1>1, <1>2, <1>3, <1>4, <1>5
<1>7. ASSUME NEW b \in Accounts, NEW c \in Accounts, b # c
      PROVE  ToSet(rows'[b]) \cap ToSet(rows'[c]) = {}
  <2>1. ToSet(rows[b]) \cap ToSet(rows[c]) = {}
    BY <1>7 DEF Rows, RowsOnce, OncePerHolding
  <2>2. CASE b # a /\ c # a
    BY <1>3, <2>1, <2>2
  <2>3. CASE b = a
    BY <1>1, <1>2, <1>3, <1>5, <1>7, <2>1, <2>3
  <2>4. CASE c = a
    BY <1>1, <1>2, <1>3, <1>5, <1>7, <2>1, <2>4
  <2> QED
    BY <2>2, <2>3, <2>4
<1> QED
  BY <1>6, <1>7 DEF Rows, RowsOnce, OncePerHolding

LEMMA RowsStep ==
  ASSUME TypeOK, Rows, [Next]_vars
  PROVE  Rows'
<1>1. CASE UNCHANGED collector
  BY <1>1 DEF Rows, RowsOnce, OncePerHolding, collector
<1>2. ASSUME NEW a \in Accounts, PageRead(a) PROVE UNCHANGED collector \/ Rows'
  BY <1>2, PageReadSteps, KeepsRows
<1>3. Change => UNCHANGED collector
  BY DEF Change
<1> QED
  BY <1>1, <1>2, <1>3, CallFrame, RequestFrame DEF Next, Stopped, vars

-----------------------------------------------------------------------------
(* The invariant.                                                          *)

LEMMA InitIInv == Init => IInv
<1> SUFFICES ASSUME Init PROVE IInv
  OBVIOUS
<1>1. source \in [Accounts -> Seq(Holdings)]
  BY InventoriesAssumption DEF Init
<1>2. \A a \in Accounts : ToSet(source[a]) \subseteq Holdings
  BY <1>1, ElementOfSeq DEF ToSet
<1>3. Main \in Callers /\ Accounts \subseteq Callers /\ Main \notin Accounts
  BY MainAssumption DEF Callers
<1>4. TypeOK
  <2>1. /\ source \in [Accounts -> Seq(Holdings)] /\ changes \in 0 .. MaxChanges
        /\ present \in [Accounts -> SUBSET Holdings]
        /\ removed \subseteq Accounts /\ inserted \subseteq Accounts
    BY <1>1, <1>2, LimitsAssumption DEF Init
  <2>2. catalog \subseteq Tools /\ unfit \subseteq catalog /\ cursors \subseteq 1 .. MaxListings
    BY DEF Init
  <2>3. /\ rows \in [Accounts -> Seq(Holdings)] /\ total \in [Accounts -> Nat \cup {-1}]
        /\ pages \in [Accounts -> 0 .. MaxPages] /\ seen \subseteq Holdings
    BY LimitsAssumption, EmptySeq DEF Init
  <2>4. ControlType
    BY NoAttempt DEF Init, ControlType, Places, Sequential
  <2> QED
    BY <2>1, <2>2, <2>3, <2>4 DEF TypeOK, ControlType, Places
<1>5. Alone /\ Quiet /\ Budget /\ Token
  BY <1>3, LimitsAssumption DEF Init, Alone, Quiet, Budget, Token, Sequential, Running
<1>6. \A a \in Accounts : ToSet(rows[a]) = {} /\ Distinct(rows[a])
  BY DEF Init, ToSet, Distinct
<1>7. Rows
  BY <1>6 DEF Rows, RowsOnce, OncePerHolding
<1> QED
  BY <1>4, <1>5, <1>7 DEF IInv

THEOREM Inductive == Spec => []IInv
<1>1. IInv /\ [Next]_vars => IInv'
  <2> SUFFICES ASSUME IInv, [Next]_vars PROVE IInv'
    OBVIOUS
  <2>1. Control /\ TypeOK /\ Rows
    BY DEF IInv, Control, ControlType, TypeOK, Places
  <2>2. Control' /\ Rows'
    BY <2>1, ControlStep, RowsStep
  <2>3. TypeOK'
    BY <2>1, <2>2, UpstreamStep, DiscoveryStep, CollectorStep
    DEF Control, ControlType, TypeOK, Places
  <2> QED
    BY <2>2, <2>3 DEF IInv, Control
<1> QED
  BY <1>1, InitIInv, PTL DEF Spec

-----------------------------------------------------------------------------
(* What follows.                                                           *)

\* A request, its collectors and its calls are of their types.
THEOREM TypeCorrect == Spec => []TypeOK
<1>1. IInv => TypeOK
  BY DEF IInv
<1> QED
  BY <1>1, Inductive, PTL

\* No collector and no call goes on when the request has ended.
THEOREM NothingOutlives == Spec => []NoTaskOutlives
<1>1. IInv => NoTaskOutlives
  BY DEF IInv, NoTaskOutlives, Alone, Quiet, Callers, Sequential, Running
<1> QED
  BY <1>1, Inductive, PTL

\* No holding is collected twice, whatever pages the server answers.
THEOREM RowsAreOnce == Spec => []RowsOnce
<1>1. IInv => RowsOnce
  BY DEF IInv, Rows
<1> QED
  BY <1>1, Inductive, PTL

\* The token request is sent once, whatever calls fail.
THEOREM TokenIsSentOnce == Spec => []TokenSentOnce
<1>1. IInv => TokenSentOnce
  BY DEF IInv, Token, TokenSentOnce
<1> QED
  BY <1>1, Inductive, PTL

-----------------------------------------------------------------------------
(* An answer is whole.                                                     *)

\* What has been in an account all along is in it now.
Present == \A a \in Accounts : present[a] \subseteq ToSet(source[a])

\* Of an account that has only gained, or only lost, as many holdings as the
\* first page told are the very holdings that were read.
Steady(a) ==
  /\ total[a] = -1 => ToSet(rows[a]) = {}
  /\ total[a] # -1 /\ a \notin removed \cap inserted =>
       /\ a \notin removed => total[a] <= Len(source[a])
       /\ a \notin inserted => Len(source[a]) <= total[a]
       /\ total[a] = Len(source[a]) => ToSet(rows[a]) \subseteq ToSet(source[a])

\* A collector that has returned has them all.
Finished(a) ==
  task[a] = "done" =>
    /\ Len(rows[a]) = total[a]
    /\ a \in removed \cap inserted \/ present[a] \subseteq ToSet(rows[a])

\* A request answers with holdings when all of its collectors have returned.
Returned ==
  holdings # "UNAVAILABLE" =>
    pc \in {"close", "done", "failed"} /\ \A a \in Accounts : task[a] \in {"none", "done"}

WholeInv == Present /\ (\A a \in Accounts : Steady(a) /\ Finished(a)) /\ Returned

\* How many holdings a change leaves, and which.
LEMMA ChangeSets ==
  ASSUME NEW s \in Seq(Holdings)
  PROVE  /\ \A i \in 1 .. Len(s) :
              Len(Without(s, i)) = Len(s) - 1 /\ ToSet(s) \ {s[i]} \subseteq ToSet(Without(s, i))
         /\ \A i \in 1 .. Len(s) + 1 : \A h \in Holdings :
              Len(Insert(s, i, h)) = Len(s) + 1 /\ ToSet(s) \subseteq ToSet(Insert(s, i, h))
         /\ \A i \in 1 .. Len(s) - 1 :
              Len(Swapped(s, i)) = Len(s) /\ ToSet(s) \subseteq ToSet(Swapped(s, i))
<1>a. Len(s) \in Nat
  OBVIOUS
<1>1. ASSUME NEW i \in 1 .. Len(s)
      PROVE  Len(Without(s, i)) = Len(s) - 1 /\ ToSet(s) \ {s[i]} \subseteq ToSet(Without(s, i))
  <2> DEFINE b == SubSeq(s, 1, i - 1)
             e == SubSeq(s, i + 1, Len(s))
  <2>1. b \in Seq(Holdings) /\ Len(b) = i - 1 /\ ToSet(b) = { s[k] : k \in 1 .. i - 1 }
    <3>1. 1 \in 1 .. Len(s) + 1 /\ i - 1 \in 1 - 1 .. Len(s)
      BY <1>a
    <3>2. b \in Seq(Holdings) /\ Len(b) = (i - 1) - 1 + 1 /\ ToSet(b) = { s[k] : k \in 1 .. i - 1 }
      BY <3>1, SliceSet
    <3> QED
      BY <1>a, <3>2
  <2>2. e \in Seq(Holdings) /\ Len(e) = Len(s) - i /\ ToSet(e) = { s[k] : k \in i + 1 .. Len(s) }
    <3>1. i + 1 \in 1 .. Len(s) + 1 /\ Len(s) \in (i + 1) - 1 .. Len(s)
      BY <1>a
    <3>2. /\ e \in Seq(Holdings) /\ Len(e) = Len(s) - (i + 1) + 1
          /\ ToSet(e) = { s[k] : k \in i + 1 .. Len(s) }
      BY <3>1, SliceSet
    <3> QED
      BY <1>a, <3>2
  <2> HIDE DEF b, e
  <2>3. Without(s, i) = b \o e
    BY DEF Without, b, e
  <2>4. Len(b \o e) = Len(b) + Len(e) /\ ToSet(b \o e) = ToSet(b) \cup ToSet(e)
    BY <2>1, <2>2, ConcatSet
  <2>5. Len(Without(s, i)) = Len(s) - 1
    BY <1>a, <2>1, <2>2, <2>3, <2>4
  <2>6. \A k \in 1 .. Len(s) : k \in 1 .. i - 1 \/ k = i \/ k \in i + 1 .. Len(s)
    BY <1>a
  <2>7. ToSet(s) \ {s[i]} \subseteq ToSet(b) \cup ToSet(e)
    BY <2>1, <2>2, <2>6 DEF ToSet
  <2> QED
    BY <2>3, <2>4, <2>5, <2>7
<1>2. ASSUME NEW i \in 1 .. Len(s) + 1, NEW h \in Holdings
      PROVE  Len(Insert(s, i, h)) = Len(s) + 1 /\ ToSet(s) \subseteq ToSet(Insert(s, i, h))
  <2> DEFINE b == SubSeq(s, 1, i - 1)
             e == SubSeq(s, i, Len(s))
  <2>1. b \in Seq(Holdings) /\ Len(b) = i - 1 /\ ToSet(b) = { s[k] : k \in 1 .. i - 1 }
    <3>1. 1 \in 1 .. Len(s) + 1 /\ i - 1 \in 1 - 1 .. Len(s)
      BY <1>a
    <3>2. b \in Seq(Holdings) /\ Len(b) = (i - 1) - 1 + 1 /\ ToSet(b) = { s[k] : k \in 1 .. i - 1 }
      BY <3>1, SliceSet
    <3> QED
      BY <1>a, <3>2
  <2>2. e \in Seq(Holdings) /\ Len(e) = Len(s) - i + 1 /\ ToSet(e) = { s[k] : k \in i .. Len(s) }
    <3>1. Len(s) \in i - 1 .. Len(s)
      BY <1>a
    <3> QED
      BY <3>1, SliceSet
  <2> HIDE DEF b, e
  <2>3. Insert(s, i, h) = b \o <<h>> \o e
    BY DEF Insert, b, e
  <2>4. <<h>> \in Seq(Holdings) /\ Len(<<h>>) = 1
    OBVIOUS
  <2>5. /\ b \o <<h>> \in Seq(Holdings) /\ Len(b \o <<h>>) = Len(b) + Len(<<h>>)
        /\ ToSet(b \o <<h>>) = ToSet(b) \cup ToSet(<<h>>)
    BY <2>1, <2>4, ConcatSet
  <2>6. /\ Len(b \o <<h>> \o e) = Len(b \o <<h>>) + Len(e)
        /\ ToSet(b \o <<h>> \o e) = ToSet(b \o <<h>>) \cup ToSet(e)
    BY <2>2, <2>5, ConcatSet
  <2>7. Len(Insert(s, i, h)) = Len(s) + 1
    BY <1>a, <2>1, <2>2, <2>3, <2>4, <2>5, <2>6
  <2>8. \A k \in 1 .. Len(s) : k \in 1 .. i - 1 \/ k \in i .. Len(s)
    BY <1>a
  <2>9. ToSet(s) \subseteq ToSet(b) \cup ToSet(e)
    BY <2>1, <2>2, <2>8 DEF ToSet
  <2> QED
    BY <2>3, <2>5, <2>6, <2>7, <2>9
<1>3. ASSUME NEW i \in 1 .. Len(s) - 1
      PROVE  Len(Swapped(s, i)) = Len(s) /\ ToSet(s) \subseteq ToSet(Swapped(s, i))
  <2>1. i \in 1 .. Len(s) /\ i + 1 \in 1 .. Len(s) /\ i # i + 1
    BY <1>a
  <2>2. s[i] \in Holdings /\ s[i + 1] \in Holdings
    BY <2>1, ElementOfSeq
  <2> DEFINE v == [s EXCEPT ![i] = s[i + 1]]
             w == Swapped(s, i)
  <2>3. v \in Seq(Holdings) /\ Len(v) = Len(s)
        /\ \A k \in 1 .. Len(s) : v[k] = IF k = i THEN s[i + 1] ELSE s[k]
    BY <2>1, <2>2, ExceptSeq
  <2>4. w = [v EXCEPT ![i + 1] = s[i]]
    BY DEF Swapped
  <2> HIDE DEF v, w
  <2>5. Len(w) = Len(v) /\ \A k \in 1 .. Len(v) : w[k] = IF k = i + 1 THEN s[i] ELSE v[k]
    BY <2>1, <2>2, <2>3, <2>4, ExceptSeq
  <2>6. Len(w) = Len(s) /\ \A k \in 1 .. Len(s) : w[k] \in ToSet(w)
    BY <2>3, <2>5 DEF ToSet
  <2>7. ASSUME NEW k \in 1 .. Len(s) PROVE s[k] \in ToSet(w)
    <3>1. CASE k = i
      BY <2>1, <2>3, <2>5, <2>6, <3>1
    <3>2. CASE k = i + 1
      BY <2>1, <2>3, <2>5, <2>6, <3>2
    <3>3. CASE k # i /\ k # i + 1
      BY <2>3, <2>5, <2>6, <3>3
    <3> QED
      BY <3>1, <3>2, <3>3
  <2>8. ToSet(s) \subseteq ToSet(w)
    BY <2>7 DEF ToSet
  <2> QED
    BY <2>6, <2>8 DEF w
<1> QED
  BY <1>1, <1>2, <1>3

\* As many distinct holdings of a sequence as it is long are all of them.
LEMMA AllOfThem ==
  ASSUME NEW s \in Seq(Holdings), NEW t \in Seq(Holdings), Distinct(s), Len(s) = Len(t),
         ToSet(s) \subseteq ToSet(t)
  PROVE  ToSet(t) \subseteq ToSet(s)
<1> DEFINE n == Len(s)
           f == [i \in 1 .. n |-> s[i]]
           g == [i \in 1 .. n |-> t[i]]
<1>1. n \in Nat
  OBVIOUS
<1>2. IsFiniteSet(1 .. n) /\ Cardinality(1 .. n) = n
  <2>1. 1 \in Int /\ n \in Int
    BY <1>1
  <2>2. IsFiniteSet(1 .. n) /\ Cardinality(1 .. n) = IF 1 > n THEN 0 ELSE n - 1 + 1
    BY <2>1, FS_Interval
  <2> QED
    BY <1>1, <2>2
<1>3. f \in Bijection(1 .. n, ToSet(s))
  BY DEF Distinct, ToSet, Bijection, Injection, Surjection, IsInjective
<1>4. IsFiniteSet(ToSet(s)) /\ Cardinality(ToSet(s)) = n
  BY <1>2, <1>3, FS_Bijection DEF ExistsBijection
<1>5. g \in Surjection(1 .. n, ToSet(t))
  BY DEF ToSet, Surjection
<1>6. IsFiniteSet(ToSet(t)) /\ Cardinality(ToSet(t)) <= n
  BY <1>2, <1>5, FS_Surjection DEF ExistsSurjection
<1>7. Cardinality(ToSet(s)) <= Cardinality(ToSet(t))
  BY <1>6, FS_Subset
<1>8. Cardinality(ToSet(t)) \in Nat
  BY <1>6, FS_CardinalityType
<1>9. Cardinality(ToSet(t)) = Cardinality(ToSet(s))
  BY <1>1, <1>4, <1>6, <1>7, <1>8
<1> QED
  BY <1>6, <1>9, FS_Subset

\* The data change: what is still present is still there, and an account that
\* only gains, or only loses, is never as long again as it was told to be.
LEMMA ChangeWhole ==
  ASSUME TypeOK, Present, \A a \in Accounts : Steady(a), Change
  PROVE  Present' /\ \A a \in Accounts : Steady(a)'
<1>1. PICK a \in Accounts :
        \/ \E i \in 1 .. Len(source[a]) :
             /\ source' = [source EXCEPT ![a] = Without(@, i)]
             /\ present' = [present EXCEPT ![a] = @ \ {source[a][i]}]
             /\ removed' = removed \cup {a}
             /\ UNCHANGED inserted
        \/ \E h \in Holdings \ Held, i \in 1 .. Len(source[a]) + 1 :
             /\ source' = [source EXCEPT ![a] = Insert(@, i, h)]
             /\ inserted' = inserted \cup {a}
             /\ UNCHANGED <<present, removed>>
        \/ \E i \in 1 .. Len(source[a]) - 1 :
             /\ source' = [source EXCEPT ![a] = Swapped(@, i)]
             /\ UNCHANGED <<present, removed, inserted>>
  BY DEF Change
<1>2. source[a] \in Seq(Holdings)
  BY DEF TypeOK
<1>3. UNCHANGED <<rows, total>>
  BY DEF Change, collector
<1>4. \A b \in Accounts \ {a} : source'[b] = source[b] /\ present'[b] = present[b]
  BY <1>1 DEF TypeOK
<1>5. /\ removed \subseteq removed' /\ inserted \subseteq inserted'
      /\ removed' \subseteq removed \cup {a} /\ inserted' \subseteq inserted \cup {a}
  BY <1>1
<1>6. \/ /\ Len(source'[a]) = Len(source[a]) - 1 /\ a \in removed'
         /\ \E h : present'[a] = present[a] \ {h} /\ ToSet(source[a]) \ {h} \subseteq ToSet(source'[a])
      \/ /\ Len(source'[a]) = Len(source[a]) + 1 /\ a \in inserted'
         /\ present'[a] = present[a] /\ ToSet(source[a]) \subseteq ToSet(source'[a])
      \/ /\ Len(source'[a]) = Len(source[a]) /\ removed' = removed /\ inserted' = inserted
         /\ present'[a] = present[a] /\ ToSet(source[a]) \subseteq ToSet(source'[a])
  <2>1. ASSUME NEW i \in 1 .. Len(source[a]), source' = [source EXCEPT ![a] = Without(@, i)],
               present' = [present EXCEPT ![a] = @ \ {source[a][i]}], removed' = removed \cup {a}
        PROVE  /\ Len(source'[a]) = Len(source[a]) - 1 /\ a \in removed'
               /\ present'[a] = present[a] \ {source[a][i]}
               /\ ToSet(source[a]) \ {source[a][i]} \subseteq ToSet(source'[a])
    <3>1. source'[a] = Without(source[a], i) /\ present'[a] = present[a] \ {source[a][i]}
      BY <2>1 DEF TypeOK
    <3> QED
      BY <1>2, <2>1, <3>1, ChangeSets
  <2>2. ASSUME NEW h \in Holdings \ Held, NEW i \in 1 .. Len(source[a]) + 1,
               source' = [source EXCEPT ![a] = Insert(@, i, h)],
               inserted' = inserted \cup {a}, UNCHANGED present
        PROVE  /\ Len(source'[a]) = Len(source[a]) + 1 /\ a \in inserted'
               /\ present'[a] = present[a] /\ ToSet(source[a]) \subseteq ToSet(source'[a])
    <3>1. source'[a] = Insert(source[a], i, h)
      BY <2>2 DEF TypeOK
    <3>2. /\ Len(Insert(source[a], i, h)) = Len(source[a]) + 1
          /\ ToSet(source[a]) \subseteq ToSet(Insert(source[a], i, h))
      BY <1>2, ChangeSets
    <3> QED
      BY <2>2, <3>1, <3>2
  <2>3. ASSUME NEW i \in 1 .. Len(source[a]) - 1,
               source' = [source EXCEPT ![a] = Swapped(@, i)], UNCHANGED present
        PROVE  /\ Len(source'[a]) = Len(source[a])
               /\ present'[a] = present[a] /\ ToSet(source[a]) \subseteq ToSet(source'[a])
    <3>1. source'[a] = Swapped(source[a], i)
      BY <2>3 DEF TypeOK
    <3> QED
      BY <1>2, <2>3, <3>1, ChangeSets
  <2> QED
    BY <1>1, <2>1, <2>2, <2>3
<1>7. Present'
  <2>1. present'[a] \subseteq ToSet(source'[a])
    BY <1>6 DEF Present
  <2> QED
    BY <1>4, <2>1 DEF Present
<1>8. Steady(a)'
  <2>1. Len(source[a]) \in Nat /\ total[a] \in Nat \cup {-1}
    BY <1>2 DEF TypeOK
  <2>2. total[a] = -1 => ToSet(rows[a]) = {}
    BY DEF Steady
  <2>3. ASSUME total[a] # -1, a \notin removed' \cap inserted'
        PROVE  /\ a \notin removed' => total[a] <= Len(source'[a])
               /\ a \notin inserted' => Len(source'[a]) <= total[a]
               /\ total[a] = Len(source'[a]) => ToSet(rows[a]) \subseteq ToSet(source'[a])
    <3>1. /\ a \notin removed => total[a] <= Len(source[a])
          /\ a \notin inserted => Len(source[a]) <= total[a]
          /\ total[a] = Len(source[a]) => ToSet(rows[a]) \subseteq ToSet(source[a])
      BY <1>5, <2>3 DEF Steady
    <3>2. CASE Len(source'[a]) = Len(source[a]) - 1 /\ a \in removed'
      BY <1>5, <2>1, <2>3, <3>1, <3>2
    <3>3. CASE Len(source'[a]) = Len(source[a]) + 1 /\ a \in inserted'
      BY <1>5, <2>1, <2>3, <3>1, <3>3
    <3>4. CASE /\ Len(source'[a]) = Len(source[a]) /\ removed' = removed /\ inserted' = inserted
               /\ ToSet(source[a]) \subseteq ToSet(source'[a])
      BY <3>1, <3>4
    <3> QED
      BY <1>6, <3>2, <3>3, <3>4
  <2> QED
    BY <1>3, <2>2, <2>3 DEF Steady
<1>9. ASSUME NEW b \in Accounts \ {a} PROVE Steady(b)'
  BY <1>3, <1>4, <1>5 DEF Steady
<1> QED
  BY <1>7, <1>8, <1>9

\* A change leaves what a collector has returned as whole as it was.
LEMMA ChangeFinished ==
  ASSUME TypeOK, Change, NEW a \in Accounts, Finished(a)
  PROVE  Finished(a)'
<1>1. UNCHANGED <<rows, total, task>>
  BY DEF Change, collector
<1>2. PICK b \in Accounts :
        /\ removed \subseteq removed' /\ inserted \subseteq inserted'
        /\ present' = present \/ \E h : present' = [present EXCEPT ![b] = @ \ {h}]
  BY DEF Change
<1>3. present'[a] \subseteq present[a]
  BY <1>2 DEF TypeOK
<1> QED
  BY <1>1, <1>2, <1>3 DEF Finished

\* A page that is kept is of the account as it is now, and the last one makes
\* the rows all that it holds.
LEMMA KeepsWhole ==
  ASSUME TypeOK, Rows', Present, NEW a \in Accounts, NEW p, Keeps(a, p), UNCHANGED upstream,
         \A b \in Accounts : Steady(b) /\ Finished(b)
  PROVE  \A b \in Accounts : Steady(b)' /\ Finished(b)'
<1>1. UNCHANGED <<source, present, removed, inserted>>
  BY DEF upstream
<1>2. /\ rows[a] \in Seq(Holdings) /\ p.data \in Seq(Holdings) /\ source[a] \in Seq(Holdings)
      /\ total[a] \in Nat \cup {-1} /\ p.total \in Nat
  BY DEF TypeOK, Keeps, Page
<1>3. p.total = Len(source[a]) /\ ToSet(p.data) \subseteq ToSet(source[a])
  BY DEF Keeps, Offers
<1>4. p.total = Total(a, p) /\ Len(rows[a]) + Len(p.data) <= p.total
      /\ p.more = (Len(rows[a]) + Len(p.data) < p.total)
  BY DEF Keeps, Accepted, Consistent, Offset
<1>5. /\ rows'[a] = rows[a] \o p.data /\ total'[a] = p.total
      /\ task'[a] = IF p.more THEN "collect" ELSE "done"
  BY <1>4 DEF Keeps, TypeOK
<1>6. \A b \in Accounts \ {a} : rows'[b] = rows[b] /\ total'[b] = total[b] /\ task'[b] = task[b]
  BY DEF Keeps, TypeOK
<1>7. /\ rows'[a] \in Seq(Holdings) /\ Len(rows'[a]) = Len(rows[a]) + Len(p.data)
      /\ ToSet(rows'[a]) = ToSet(rows[a]) \cup ToSet(p.data)
  BY <1>2, <1>5, ConcatSet
<1>8. a \notin removed \cap inserted => ToSet(rows'[a]) \subseteq ToSet(source[a])
  <2>1. CASE total[a] = -1
    BY <1>3, <1>7, <2>1 DEF Steady
  <2>2. CASE total[a] # -1
    <3>1. total[a] = Len(source[a])
      BY <1>3, <1>4, <2>2 DEF Total
    <3> QED
      BY <1>3, <1>7, <2>2, <3>1 DEF Steady
  <2> QED
    BY <2>1, <2>2
<1>9. Steady(a)'
  <2>1. total'[a] = Len(source'[a]) /\ Len(source'[a]) \in Nat
    BY <1>1, <1>2, <1>3, <1>5
  <2> QED
    BY <1>1, <1>8, <2>1 DEF Steady
<1>10. Finished(a)'
  <2> SUFFICES ASSUME ~p.more PROVE Finished(a)'
    BY <1>5 DEF Finished
  <2>1. Len(rows[a]) \in Nat /\ Len(p.data) \in Nat /\ p.total \in Nat
    BY <1>2
  <2>2. Len(rows'[a]) = Len(source[a]) /\ Len(rows'[a]) = total'[a]
    <3>1. ~(Len(rows[a]) + Len(p.data) < p.total) /\ Len(rows[a]) + Len(p.data) <= p.total
      BY <1>4
    <3> DEFINE old == Len(rows[a])
               new == Len(p.data)
               all == p.total
    <3>2. old \in Nat /\ new \in Nat /\ all \in Nat /\ ~(old + new < all) /\ old + new <= all
      BY <2>1, <3>1
    <3> HIDE DEF old, new, all
    <3>3. old + new = all
      BY <3>2
    <3>4. Len(rows[a]) + Len(p.data) = p.total
      BY <3>3 DEF old, new, all
    <3> QED
      BY <1>3, <1>5, <1>7, <3>4
  <2>3. Distinct(rows'[a])
    BY DEF Rows, RowsOnce, OncePerHolding
  <2>4. a \notin removed \cap inserted => ToSet(source[a]) \subseteq ToSet(rows'[a])
    BY <1>2, <1>7, <1>8, <2>2, <2>3, AllOfThem
  <2> QED
    BY <1>1, <2>2, <2>4 DEF Finished, Present
<1>11. ASSUME NEW b \in Accounts \ {a} PROVE Steady(b)' /\ Finished(b)'
  BY <1>1, <1>6 DEF Steady, Finished
<1> QED
  BY <1>9, <1>10, <1>11

\* No other step makes a collector return.
LEMMA DoneBefore ==
  ASSUME TypeOK, NEW a \in Accounts, task'[a] = "done",
         \/ Authorized \/ Listed \/ Overview \/ AccountsRead \/ GatherFails \/ Raised \/ Gathered
         \/ Close \/ Deadline
         \/ \E b \in Accounts : Acquire(b) \/ Cancelled(b)
         \/ \E c \in Callers : Call(c) \/ Failed(c)
  PROVE  task[a] = "done"
<1>1. ASSUME NEW c \in Callers, Failed(c) PROVE task[a] = "done"
  <2>1. task' = task \/ task' = [task EXCEPT ![c] = "failed"]
    BY <1>1 DEF Failed
  <2> QED
    BY <2>1 DEF TypeOK
<1>2. ASSUME NEW c \in Callers, Call(c) PROVE Failed(c) \/ task' = task
  BY <1>2 DEF Call, Resend, Unanswered, Busy, Refuse, CallTimeout
<1>3. Main \in Callers /\ Accounts \subseteq Callers
  BY DEF Callers
<1>4. Authorized \/ Listed \/ Overview => Failed(Main) \/ task' = task
  BY DEF Authorized, Listed, Overview
<1>5. CASE AccountsRead
  <2>1. Failed(Main) \/ task' = task
          \/ \E listed \in SUBSET Accounts :
               task' = [b \in Accounts |-> IF b \in listed THEN "waiting" ELSE "none"]
    BY <1>5 DEF AccountsRead
  <2> QED
    BY <1>1, <1>3, <2>1
<1>6. GatherFails \/ Raised \/ Gathered \/ Close \/ Deadline => task' = task
  BY DEF GatherFails, Raised, Gathered, Close, Deadline
<1>7. ASSUME NEW b \in Accounts, Acquire(b) \/ Cancelled(b) PROVE task[a] = "done"
  <2>1. Failed(b) \/ \E to \in {"collect", "cancelled"} : task' = [task EXCEPT ![b] = to]
    BY <1>7 DEF Acquire, Cancelled
  <2>2. ASSUME NEW to \in {"collect", "cancelled"}, task' = [task EXCEPT ![b] = to]
        PROVE  task[a] = "done"
    BY <2>2 DEF TypeOK
  <2> QED
    BY <1>1, <1>3, <2>1, <2>2
<1> QED
  BY <1>1, <1>2, <1>3, <1>4, <1>5, <1>6, <1>7

LEMMA AccountsStep ==
  ASSUME TypeOK, Rows', Present, \A a \in Accounts : Steady(a) /\ Finished(a), [Next]_vars
  PROVE  Present' /\ \A a \in Accounts : Steady(a)' /\ Finished(a)'
<1>1. ASSUME UNCHANGED <<upstream, collector>>,
             \A a \in Accounts : task'[a] = "done" => task[a] = "done"
      PROVE  Present' /\ \A a \in Accounts : Steady(a)' /\ Finished(a)'
  <2>1. UNCHANGED <<source, present, removed, inserted, rows, total>>
    BY <1>1 DEF upstream, collector
  <2> QED
    BY <1>1, <2>1 DEF Present, Steady, Finished
<1>2. CASE \/ Authorized \/ Listed \/ Overview \/ AccountsRead \/ GatherFails \/ Raised \/ Gathered
           \/ Close \/ Deadline
           \/ \E b \in Accounts : Acquire(b) \/ Cancelled(b)
  BY <1>1, <1>2, DoneBefore, RequestFrame
<1>3. ASSUME NEW c \in Callers, Call(c)
      PROVE  Present' /\ \A a \in Accounts : Steady(a)' /\ Finished(a)'
  BY <1>1, <1>3, DoneBefore, CallFrame
<1>4. ASSUME NEW b \in Accounts, PageRead(b)
      PROVE  Present' /\ \A a \in Accounts : Steady(a)' /\ Finished(a)'
  <2>1. UNCHANGED upstream /\ b \in Callers
    BY <1>4 DEF PageRead, Callers
  <2>2. CASE Failed(b) /\ UNCHANGED collector
    BY <1>1, <2>1, <2>2, DoneBefore
  <2>3. ASSUME NEW p, Keeps(b, p)
        PROVE  Present' /\ \A a \in Accounts : Steady(a)' /\ Finished(a)'
    <3>1. Present'
      BY <2>1 DEF upstream, Present
    <3> QED
      BY <2>1, <2>3, <3>1, KeepsWhole
  <2> QED
    BY <1>4, <2>2, <2>3, PageReadSteps
<1>5. CASE Change
  BY <1>5, ChangeWhole, ChangeFinished
<1>6. CASE UNCHANGED vars
  BY <1>1, <1>6 DEF vars
<1> QED
  BY <1>2, <1>3, <1>4, <1>5, <1>6 DEF Next, Stopped

\* Holdings are answered when the collectors have returned, and nothing but
\* the end follows.
LEMMA ReturnedStep ==
  ASSUME Returned, [Next]_vars
  PROVE  Returned'
<1>1. CASE holdings = "UNAVAILABLE"
  <2>1. CASE Gathered
    BY <2>1 DEF Gathered, Returned
  <2>2. CASE ~Gathered
    <3>1. UNCHANGED holdings
      <4>1. \A c \in Callers : Call(c) => UNCHANGED holdings
        BY CallFrame
      <4>2. Authorized \/ Listed \/ Overview \/ AccountsRead => UNCHANGED holdings
        BY DEF Authorized, Listed, Overview, AccountsRead
      <4>3. \A a \in Accounts : Acquire(a) \/ PageRead(a) \/ Cancelled(a) => UNCHANGED holdings
        BY DEF Acquire, PageRead, Cancelled
      <4>4. GatherFails \/ Raised \/ Close \/ Deadline \/ Change \/ Stopped => UNCHANGED holdings
        BY DEF GatherFails, Raised, Close, Deadline, Change, Stopped, vars
      <4> QED
        BY <2>2, <4>1, <4>2, <4>3, <4>4 DEF Next, vars
    <3> QED
      BY <1>1, <3>1 DEF Returned
  <2> QED
    BY <2>1, <2>2
<1>2. CASE holdings # "UNAVAILABLE"
  <2>1. /\ pc \in {"close", "done", "failed"}
        /\ pc \notin Sequential /\ pc # "gather" /\ pc # "cancelling"
        /\ \A a \in Accounts : task[a] \in {"none", "done"}
    BY <1>2 DEF Returned, Sequential
  <2>2. \A c \in Callers : ~Awaits(c)
    BY <2>1 DEF Awaits
  <2>3. \A c \in Callers : ~Call(c)
    BY <2>2 DEF Call, Resend, Unanswered, Busy, Refuse, CallTimeout, Sent
  <2>4. ~(Authorized \/ Listed \/ Overview \/ AccountsRead)
    BY <2>1 DEF Authorized, Listed, Overview, AccountsRead, Sequential
  <2>5. \A a \in Accounts : ~(Acquire(a) \/ PageRead(a) \/ Cancelled(a))
    BY <2>1, <2>2 DEF Acquire, PageRead, Cancelled, Answered, Sent, Callers
  <2>6. ~(GatherFails \/ Raised \/ Gathered \/ Change)
    BY <2>1 DEF GatherFails, Raised, Gathered, Change
  <2>7. Close \/ Deadline \/ UNCHANGED vars
    BY <2>3, <2>4, <2>5, <2>6 DEF Next, Stopped
  <2>8. UNCHANGED task /\ pc' \in {"close", "done", "failed"}
    BY <2>1, <2>7 DEF Close, Deadline, vars
  <2> QED
    BY <2>1, <2>8 DEF Returned
<1> QED
  BY <1>1, <1>2

\* A request that answers with holdings has every row of every account it
\* listed, but for accounts that both lost and gained one while it read.
THEOREM AnswersAreWhole == Spec => []AnswersWhole
<1>1. Init => WholeInv
  <2> SUFFICES ASSUME Init PROVE WholeInv
    OBVIOUS
  <2>1. Present
    BY DEF Init, Present
  <2>2. ASSUME NEW a \in Accounts PROVE Steady(a) /\ Finished(a)
    BY DEF Init, Steady, Finished, ToSet
  <2>3. Returned
    BY DEF Init, Returned
  <2> QED
    BY <2>1, <2>2, <2>3 DEF WholeInv
<1>2. IInv /\ IInv' /\ WholeInv /\ [Next]_vars => WholeInv'
  BY AccountsStep, ReturnedStep DEF IInv, WholeInv
<1>3. WholeInv => AnswersWhole
  BY DEF WholeInv, Returned, Finished, AnswersWhole
<1> QED
  BY <1>1, <1>2, <1>3, Inductive, PTL DEF Spec

=============================================================================
