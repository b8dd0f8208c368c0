---------------------------- MODULE MCGuestPages ----------------------------
(***************************************************************************)
(* Two pages of a virtual heap, named alone and together, and one page of  *)
(* the XEX image, which has an address in each of the two XEX views.       *)
(***************************************************************************)
EXTENDS GuestPages, TLC

Twins == (3 :> 4) @@ (4 :> 3)
=============================================================================
