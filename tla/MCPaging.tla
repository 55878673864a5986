------------------------------ MODULE MCPaging -------------------------------
(* Two users and two books; pages of one and three are asked for, of which a *)
(* response holds at most two.                                               *)
EXTENDS Paging
=============================================================================
