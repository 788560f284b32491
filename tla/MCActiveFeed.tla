---------------------------- MODULE MCActiveFeed ----------------------------
(* One incident of each source: what an answer says of a row depends on no *)
(* other row.                                                              *)
EXTENDS ActiveFeed
=============================================================================
