-------------------------- MODULE MCSourceDetector --------------------------
(* Two lists of two pages, that mix into an ascending one and another that  *)
(* is not, of which one page is beyond a limit, and an empty one; with      *)
(* limits and without.                                                      *)
EXTENDS SourceDetector, TLC

MCLists == {<<<<1, 2>>, <<3>>>>, <<<<3>>, <<4>>>>, <<<<>>>>}
MCLimits == {<<0, 0>>, <<1, 1>>}
MCSymmetry == Permutations(Cids) \cup Permutations(HandleNumbers)
=============================================================================
