---------------------------- MODULE MCVendorSync ----------------------------
(***************************************************************************)
(* Two vendors, one to a page, for TLC.                                    *)
(***************************************************************************)
EXTENDS VendorSync, TLC

CONSTANTS v1, v2

TwoVendors == {v1, v2}
OnePerPage == (v1 :> 1) @@ (v2 :> 2)
OneVendor  == {v1}
OnePage    == (v1 :> 1)
=============================================================================
