--------------------------- MODULE MCUserInterface ----------------------------
(* A handful of plug-ins and message types for UserInterface.                 *)
EXTENDS UserInterface, Sequences

MCPluginsOf == [socket |-> {"s1", "s2"}, filter |-> {"f1", "f2", "f3"}, protocol |-> {"p1", "p2"}]
MCGivenLists == {<<"s1", "f1", "p1">>, <<"s1">>, <<"s1", "f3", "p1">>}
MCMessageTypes == <<"t1", "t2">>
MCTypesOf == <<{1, 2, 4}, {2, 3}>>
MCRefreshed == <<1, 2, 2>>
===============================================================================
