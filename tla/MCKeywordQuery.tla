--------------------------- MODULE MCKeywordQuery ---------------------------
(***************************************************************************)
(* Instances of KeywordQuery for TLC: registers of no page, of one and of  *)
(* two, with items that have details, that have none and that are no       *)
(* objects, and one that grows by an item on the way.                      *)
(***************************************************************************)
EXTENDS KeywordQuery

FiveItems == {"a", "b", "c", "d", "e"}
ThreeWithId == {"a", "c", "d"}
OneNonObject == {"b"}
SomeRegisters == {<<>>, <<"a", "c", "d">>, <<"b", "c", "d">>}
One == 1
Two == 2
Four == 4
Five == 5

============================================================================
