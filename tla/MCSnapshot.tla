----------------------------- MODULE MCSnapshot ------------------------------
(* Small instances of the snapshot for TLC.                                *)
EXTENDS SnapshotSafety, TLC

CONSTANTS a1, a2, c1, c2

Link(id) == [type |-> "institution-connections", id |-> id]

MCAccount(id, link, owners) ==
  [id |-> id, link |-> link, amount |-> 1, currency |-> "EUR", conversion |-> Null, owners |-> owners]

MCHolding(id, account, type, product) ==
  [id |-> id, account |-> account, type |-> type, product |-> product,
   amount |-> 1, currency |-> "EUR", rates |-> {"annual_yield"}]

MCConnection(error, success) == [error |-> error, success |-> success, institution |-> Null]

Fresh == MCConnection(FALSE, StartTime)

\* Two accounts of two connections, a security and a fund.
Plain ==
  [ view |-> <<"household", "direct", "gross_assets">>, currency |-> "EUR",
    completeness |-> "complete", gross |-> 1, debt |-> 0, unvalued |-> 0,
    allocation |-> << [category |-> "cash", types |-> <<"fiat">>],
                      [category |-> "funds", types |-> <<"fund", "security">>] >>,
    members |-> <<0, Null>>, tools |-> {"accounts", "holdings"}, syncWarnings |-> FALSE,
    accounts |-> { MCAccount(a1, Link(c1), <<"p", "q">>), MCAccount(a2, Link(c2), Null) },
    connections |-> c1 :> Fresh @@ c2 :> Fresh,
    holdings |-> { MCHolding("s", a1, "security", [type |-> "securities", id |-> "x"]),
                   MCHolding("f", a2, "fund", Null) },
    products |-> "x" :> {"expense_ratio"} ]

\* Balance sheets, and what is wrong with some.
Overviews ==
  { [Plain EXCEPT !.completeness = c, !.gross = g, !.debt = d, !.unvalued = n, !.currency = e] :
      c \in {"complete"}, g \in {-1, 1}, d \in {-1, 0, 1}, n \in 0 .. 1, e \in {"EUR", "USD"} }
  \cup { [Plain EXCEPT !.completeness = "assets_only", !.debt = d, !.members = m, !.unvalued = n] :
           d \in {Null, 1}, m \in {<<>>, <<1>>, <<0, -1>>}, n \in 0 .. 1 }
  \cup { [Plain EXCEPT !.view = <<"person", "direct", "gross_assets">>] }
  \cup { [Plain EXCEPT !.allocation = @ \o << [category |-> c, types |-> t] >>] :
           c \in {"cash", "crypto"}, t \in {<<>>, <<"crypto">>, <<"crypto", "crypto">>} }

\* Every state of two connections, shared or not, included or not.
Connections ==
  { [Plain EXCEPT !.accounts = { MCAccount(a1, l1, o), MCAccount(a2, l2, Null) },
                  !.connections = i, !.syncWarnings = l1 = l2] :
      l1 \in {Null, Link(c1), [Link(c1) EXCEPT !.type = "assets"]}, l2 \in {Null, Link(c1), Link(c2)},
      o \in {<<>>, <<"p", "p">>},
      i \in { c1 :> x @@ c2 :> y :
                x \in { Fresh, MCConnection(TRUE, StartTime), MCConnection(FALSE, Null),
                        [Fresh EXCEPT !.institution = [type |-> "assets", id |-> "i"]],
                        MCConnection(FALSE, StartTime - StaleAfter) },
                y \in { Fresh, MCConnection(FALSE, StartTime + 1),
                        MCConnection(FALSE, StartTime - StaleAfter - 1) } }
            \cup {c1 :> Fresh, << >>} }

\* Amounts, currencies and conversions of an account, types and products of
\* a holding, tools that are not there.
Details ==
  { [Plain EXCEPT !.accounts = { [MCAccount(a1, Null, Null) EXCEPT !.amount = m, !.currency = e,
                                    !.conversion = v], MCAccount(a2, Null, Null) }] :
      m \in {Null, 1}, e \in {Null, "EUR", "USD"}, v \in {Null, 2} }
  \cup { [Plain EXCEPT !.holdings = { [MCHolding("h", a1, t, p) EXCEPT !.currency = e] } \cup f] :
           t \in {"security", "crypto", "fund", "loan"}, e \in {Null, "EUR", "USD"},
           p \in { Null } \cup { [type |-> k, id |-> x] : k \in {"securities", "currencies"},
                                                       x \in {"x", "y"} },
           f \in { {}, { [MCHolding("g", a2, "fund", Null) EXCEPT !.amount = Null] },
                   { MCHolding("g", a2, "loan", Null) } } }
  \cup { [Plain EXCEPT !.tools = t] : t \in { {}, {"accounts"}, {"holdings"} } }

MCAnswers == {Plain} \cup Overviews \cup Connections \cup Details

\* The executions are alike.
MCSymmetry == Permutations(Runs)

\* One thing is odd at a time, the answer or the clocks.
MCInit ==
  /\ Init
  /\ answer # Plain => adjustments = MaxAdjustments /\ \A c \in Clocks : offset[c] = 0

MCSpec == MCInit /\ [][Next]_vars
=============================================================================
