--------------------------- MODULE MCUnitHistory ---------------------------
(* Two units, two statuses; a unit joins, changes, leaves and returns.     *)
EXTENDS UnitHistory

CONSTANTS e1, m2, enRoute, onScene

U(name, status) == [unit |-> name, status |-> status]

Listings ==
  {<<>>, <<U(e1, enRoute)>>, <<U(e1, onScene)>>, <<U(m2, onScene)>>,
   <<U(e1, enRoute), U(m2, onScene)>>, <<U(m2, enRoute), U(e1, onScene)>>}
=============================================================================
