------------------------ MODULE MCDomainTransactions ------------------------
(***************************************************************************)
(* Small instances of DomainTransactions: a unit and the units that its    *)
(* handlers or its with block open, and two handlers of one event type.    *)
(***************************************************************************)
EXTENDS DomainTransactions, TLC

CONSTANTS u1, u2, u3, h1, h2, a

OneType == [e \in Events |-> a]

OneShotFirst == [t \in Types |-> <<h2, h1>>]

\* Units are alike.
Alike == Permutations(Uows)
=============================================================================
