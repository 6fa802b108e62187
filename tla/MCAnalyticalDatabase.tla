-------------------------- MODULE MCAnalyticalDatabase --------------------------
(* The small instances of the parts of AnalyticalDatabase.                    *)
EXTENDS AnalyticalDatabase, TLC

CONSTANTS d1, d2, x, z

(* Sessions and presets of the ownership are interchangeable: no action       *)
(* compares them.                                                            *)
Symmetry == Permutations(Apps) \union Permutations(Presets)

OneMarket == <<"m">>
Asked == {<<1, 2, d1>>, <<1, 3, d2>>}

(* One of the keys has two artifacts, of two archives; one has none.          *)
MadeOf(k) ==
  CASE k = <<1, "m", d1>> -> {x, z}
    [] k = <<2, "m", d1>> -> {}
    [] OTHER -> {x}
ArchiveOf(a) == IF a = z THEN 2 ELSE 1

DiscoveredAt(s) == 0
=============================================================================
