--------------------------- MODULE MCAdminConsole ---------------------------
(* Two orders; a search finds none, one or both of them. *)
EXTENDS AdminConsoleInvariants, CardNumber

CONSTANTS o1, o2

MCOrders        == {o1, o2}
MCSearchResults == {<<>>, <<o1>>, <<o1, o2>>}
=============================================================================
