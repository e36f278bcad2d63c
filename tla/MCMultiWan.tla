---------------------------- MODULE MCMultiWan ----------------------------
(* Small instances of MultiWan. *)
EXTENDS MultiWan

CONSTANTS a, b, g1, g2, g3, d1

TwoNames == {a, b}
ThreeGateways == {g1, g2, g3}
TwoTables == {101, 102}
OneDevice == {d1}

A == [name |-> a, gateway |-> g1, table |-> 101]
AMoved == [A EXCEPT !.gateway = g3]
ANoGateway == [A EXCEPT !.gateway = NoGateway]
B == [name |-> b, gateway |-> g2, table |-> 102]

\* Both in either order, one with another gateway, one alone whose gateway is
\* not found.
SomeSettings == {<<A, B>>, <<B, A>>, <<AMoved, B>>, <<ANoGateway>>}
OneSetting == {<<A, B>>}
=============================================================================
