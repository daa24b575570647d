---------------------------- MODULE MCTokenRefresh ----------------------------
(* Instances of TokenRefresh: the three kinds of session. *)
EXTENDS TokenRefresh

AllKinds == {Box, Dropbox, GoogleDrive}
Rotating == {Box}
=============================================================================
