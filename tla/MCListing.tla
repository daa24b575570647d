------------------------------ MODULE MCListing ------------------------------
(* Listing with directories of up to four entries, pages of up to three and   *)
(* requests of two.                                                           *)
EXTENDS Listing

AllServices == {Local, Dropbox, GoogleDrive}
OneRequest  == {GoogleDrive}
AllLimits   == -1 .. 4
=============================================================================
