----------------------------- MODULE Connection ------------------------------
(***************************************************************************)
(* What the store promises those who use the renewable connection: one at  *)
(* a time has it, nobody else changes it, and it is lost only together     *)
(* with its user, while that user was replacing or withdrawing it.         *)
(***************************************************************************)
CONSTANT Users

VARIABLES
  user,   \* who uses the connection: a set of at most one
  phase   \* what has become of it

\* "renewing": its token is used up, and the user has the next one;
\* "withdrawn": it is revoked, though still stored.
Phases == {"none", "good", "renewing", "withdrawn", "lost"}

Init == user = {} /\ phase \in {"none", "good"}

Open(u)  == user = {} /\ user' = {u} /\ UNCHANGED phase

Use(u)   == user = {u} /\ UNCHANGED user
Leave(u) == user = {u} /\ user' = {}

\* The provider answers a refresh, or the consent that replaces a lost one.
Renew(u) == Use(u) /\ phase \in {"good", "lost"} /\ phase' = "renewing"

\* The next token, or the first one, is stored.
Keep(u) == (Use(u) \/ Leave(u)) /\ phase \in {"none", "renewing"} /\ phase' = "good"

\* The provider accepts the revocation; then the connection is erased.
Withdraw(u) == Use(u) /\ phase \in {"good", "lost"} /\ phase' = "withdrawn"
Erase(u)    == Leave(u) /\ phase = "withdrawn" /\ phase' = "none"

\* The user is done, or gives up with what it had in hand.
Close(u)  == Leave(u) /\ phase \notin {"renewing", "withdrawn"} /\ UNCHANGED phase
GiveUp(u) == Leave(u) /\ phase # "none" /\ phase' = "lost"

Next == \E u \in Users : \/ Open(u) \/ Renew(u) \/ Keep(u) \/ Withdraw(u) \/ Erase(u)
                         \/ Close(u) \/ GiveUp(u)

Spec == Init /\ [][Next]_<<user, phase>>
=============================================================================
