----------------------------- MODULE MCListing -----------------------------
(* A directory of up to four entries in blocks of two, read one to three     *)
(* entries at a time.                                                        *)
EXTENDS Listing
=============================================================================
