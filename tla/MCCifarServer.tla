----------------------------- MODULE MCCifarServer -----------------------------
(* Small instances of CifarServer for TLC.                                 *)
EXTENDS CifarServer

MCCommandLines == {<<>>, <<6, 3>>, <<2, Invalid>>}

MCAddressLists == {<<"v4">>, <<"v4", "v6">>}

MCStartBuilds == [USING_MMAP_INSTEAD_READ : BOOLEAN, SHOULD_USE_TCP_CORK : BOOLEAN]
================================================================================
