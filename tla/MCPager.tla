------------------------------ MODULE MCPager ------------------------------
(* Pager, for TLC.                                                          *)
EXTENDS Pager
=============================================================================
