---------------------------- MODULE MCTwoLegBot ----------------------------
(* TwoLegBot on small instances.                                            *)
EXTENDS TwoLegBot

\* One price above the default minimum, so that no signal fires unquoted.
OnePrice == {600000}

\* No token has been quoted: signals are evaluated at 0.50, and Leg1 may be
\* filled at any price.  The Leg2 limit for 0.50 lies on the price grid; 0.4607 is
\* an average over two levels whose Leg2 limit lies just above the grid; for 0.93
\* the Leg2 limit is below one tick.
NoQuotes   == {}
ManyPrices == {460700, 500000, 930000}

NoImprovement == {0}

\* The two sides of a market are interchangeable: the first signal of each
\* asset is taken to be for Yes.
FirstSideYes == \A a \in Assets : placed[a] > 0 => orders[a][1].side = "Yes"

\* Bound: at most one order is taken by the exchange without the executor knowing.
OneMisled ==
    Cardinality({<<a, n>> \in Assets \X OrderIds :
                    /\ orders[a][n].reply \in Unknowing
                    /\ orders[a][n].book # "Refused"}) <= 1
=============================================================================
