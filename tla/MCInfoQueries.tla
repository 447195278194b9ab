--------------------------- MODULE MCInfoQueries ---------------------------
(* Instance of InfoQueries for TLC: two orders are enough for one to change  *)
(* between the two requests of hl_fetch_orders while another stays, and for  *)
(* an entry to be skipped before another one is parsed.                      *)
EXTENDS InfoQueries, TLC

IdSymmetry == Permutations(Ids)
=============================================================================
