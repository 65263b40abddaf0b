---------------------------- MODULE MCCollection -----------------------------
(* Small instances of a request for TLC.                                   *)
EXTENDS CollectionSafety

CONSTANTS a1, a2, h1, h2, h3

\* Up to three holdings, two in one account at most; the accounts being
\* alike, a1 and a2 stand for any two of them.
MCInventories ==
  { [a \in Accounts |-> IF a = a1 THEN s ELSE IF a = a2 THEN t ELSE <<>>] :
      s \in {<<>>, <<h1, h2>>}, t \in {<<>>, <<h3>>} }
=============================================================================
