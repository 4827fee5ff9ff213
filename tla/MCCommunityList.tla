--------------------------- MODULE MCCommunityList ---------------------------
(* Small instances of CommunityList for TLC; the configurations give the    *)
(* devices as model values.                                                 *)
EXTENDS CommunityList
=============================================================================
