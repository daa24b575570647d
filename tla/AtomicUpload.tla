----------------------------- MODULE AtomicUpload -----------------------------
(***************************************************************************)
(* What an upload writer promises whoever copies a file through it: the    *)
(* destination file appears at once and whole, and an upload that reports  *)
(* success has made it appear. An upload that reports failure promises     *)
(* nothing: the file may be there or not.                                  *)
(***************************************************************************)
VARIABLES
  stored,   \* whether the whole file is at the destination
  report    \* what the caller was told: "none", "ok" or "failed"

uploadVars == <<stored, report>>

Init == stored = FALSE /\ report = "none"

Store == stored' = TRUE /\ UNCHANGED report

ReportOk == report # "ok" /\ stored /\ report' = "ok" /\ UNCHANGED stored

ReportFailure == report = "none" /\ report' = "failed" /\ UNCHANGED stored

\* An abandoned upload is taken up again.
Retake == report = "failed" /\ report' = "none" /\ UNCHANGED stored

Next == Store \/ ReportOk \/ ReportFailure \/ Retake

UploadSpec == Init /\ [][Next]_uploadVars
=============================================================================
