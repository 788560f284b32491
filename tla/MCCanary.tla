------------------------------ MODULE MCCanary ------------------------------
(* A feed that is empty, small or ten times too large, and one that breaks *)
(* the contract, against a week without features, with few, or none known. *)
EXTENDS Canary

MCResponse ==
  [count : {0, 2, 11}, broken : {{}}] \union [count : {0}, broken : {{"contract"}}]
=============================================================================
