----------------------------- MODULE MCVariable -----------------------------
(* Instances of VariableStore for TLC. *)
EXTENDS VariableStore, TLC

CONSTANTS n1, n2, n3, d1, d2

MCName == {n1, n2, n3}
MCDatum == {d1, d2}
MCInputs == {<<>>, <<d1>>, <<d2>>}

(* Names are interchangeable, and so are data. *)
MCSymmetry == Permutations(MCName) \union Permutations(MCDatum)

Platform(space, reserve, os, bounds, attributes) ==
  [space |-> space, reserve |-> reserve, os |-> os, attributes |-> attributes,
   calls |-> bounds[1], crashes |-> bounds[2], errors |-> bounds[3]]

Nv == {"BS", "RT", "NV"}

(* One interruption at any point, where the live variables always fit; no
   interruption, with all kinds of variables, where they do not; a flash error
   while the driver cleans up after a loss of power. *)
SingleFault ==
  {Platform(9, 0, FALSE, <<4, 1, 0>>, {Nv}),
   Platform(9, 0, FALSE, <<4, 0, 1>>, {Nv}),
   Platform(12, 0, TRUE, <<4, 1, 0>>, {Nv}),
   Platform(5, 2, TRUE, <<4, 0, 0>>, {Nv, {"BS", "NV"}}),
   Platform(5, 2, TRUE, <<3, 0, 0>>, {Nv, {"BS", "RT"}, {"BS"}, {}}),
   Platform(6, 0, FALSE, <<2, 1, 1>>, {Nv})}

(* Two restarts. *)
TwoRestarts == {Platform(6, 0, FALSE, <<3, 2, 0>>, {Nv})}

=============================================================================
