---------------------------- MODULE MCConnection ----------------------------
(***************************************************************************)
(* The messages a client of one connection sends, written out on the wire  *)
(* in the symbols of module Request.                                       *)
(***************************************************************************)
EXTENDS Connection

GetA       == <<"get", " ", "a", "\r", "\n">>
DeleteA    == <<"delete", " ", "a", "\r", "\n">>
DeleteANR  == <<"delete", " ", "a", " ", "noreply", "\r", "\n">>
Quit       == <<"quit", "\r", "\n">>

(* Commands that the parser finishes on their last byte.                   *)
WholeScript == {GetA, DeleteANR, Quit}

GetOnly  == {GetA}
==============================================================================
