--------------------------- MODULE MCMobileTransfer ---------------------------
(* Photos and names for checking MobileTransfer with TLC. *)
EXTENDS MobileTransfer

\* More numbers than files can have one name.
MCNumbers == 1..5

\* Copies of one photo, of which a1 may be edited; both have one name.
MCBytes == [a \in Assets |-> IF a = "a1" THEN <<"c1", "c2">> ELSE <<"c1">>]
MCNameOf == [a \in Assets |-> "img"]
=============================================================================
