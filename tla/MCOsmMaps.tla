----------------------------- MODULE MCOsmMaps -----------------------------
(* A small instance of OsmMaps for TLC: the box of the US lies inside that  *)
(* of KZ (as Kyrgyzstan's lies inside Kazakhstan's), and has one US state.  *)
EXTENDS OsmMaps, TLC

TwoCountries == {<<>>, <<"KZ">>, <<"US">>, <<"KZ", "US">>}
Nested == [KZ |-> {1, 2}, US |-> {2}]
OneState == [CA |-> {2}]

\* Threads are interchangeable.
HandlerSymmetry == Permutations(Handler)
=============================================================================
