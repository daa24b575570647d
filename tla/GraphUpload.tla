------------------------------ MODULE GraphUpload ------------------------------
(***************************************************************************)
(* The Microsoft Graph upload writer of OneDrive and SharePoint            *)
(* (msgraph/transfer.go), the fragment requests under it (client.go), and  *)
(* the upload session at the provider, seen through those requests.        *)
(*                                                                         *)
(* Bytes are counted, not stored. A buffer is the range lo .. hi-1 of the  *)
(* source, and content is intact when every byte lies at its own source    *)
(* position. Writer methods run under the writer's mutex, one at a time;   *)
(* what interleaves with them is the network: a request that timed out may *)
(* still arrive, an answer may be lost, and the process may stop anywhere. *)
(***************************************************************************)
EXTENDS Integers

CONSTANTS
  MaxSize,           \* bound: sources have 0 .. MaxSize units
  ChunkSize,         \* UploadChunkSize
  SimpleMax,         \* SimpleUploadMaxBytes
  Declared,          \* whether the size is declared when the writer is opened
  CloseAfterError,   \* whether the caller closes after an error (defer Close)
  Attempts,          \* bound: PUT attempts for one fragment
  MaxResumes         \* bound: how often an abandoned upload is resumed

ASSUME UploadAssumption ==
  /\ MaxSize \in Nat
  /\ SimpleMax \in Nat
  /\ ChunkSize \in Nat \ {0}
  /\ SimpleMax < ChunkSize
  /\ Declared \in BOOLEAN
  /\ CloseAfterError \in BOOLEAN
  /\ Attempts \in Nat \ {0}
  /\ MaxResumes \in Nat

VARIABLES
  size,      \* length of the source
  w,         \* the Writer
  call,      \* the writer method in progress: "none", "write", "close"
  broken,    \* the caller has seen an error from a Write or from its source
  result,    \* how the upload ended for the caller
  request,   \* the request the writer waits for, or NoRequest
  reply,     \* the answer on its way back, or "none"
  tries,     \* attempts made for it
  wire,      \* requests the provider may still receive
  upload,    \* the provider's upload session
  file,      \* the destination file, or NoFile
  resumes

writer == <<w, call, request, reply, tries>>
caller == <<size, broken, result, resumes>>
vars   == <<writer, caller, wire, upload, file>>

Unknown   == -1
Content(l, i) == [len |-> l, intact |-> i]
NoFile    == Content(Unknown, TRUE)
Request(k, o, l, n, t) == [kind |-> k, off |-> o, lo |-> l, len |-> n, total |-> t]
NoRequest == Request("none", 0, 0, 0, 0)
Session(s, r, i) == [st |-> s, received |-> r, intact |-> i]

Writer(sess, from) ==
  [closed |-> FALSE, sess |-> sess, offset |-> from, lo |-> from, hi |-> from]

Init ==
  /\ size \in 0 .. MaxSize
  /\ w = Writer(FALSE, 0)
  /\ call = "none" /\ broken = FALSE /\ result = "none"
  /\ request = NoRequest /\ reply = "none" /\ tries = 0
  /\ wire = {}
  /\ upload = Session("none", 0, TRUE)
  /\ file = NoFile
  /\ resumes = 0
-----------------------------------------------------------------------------
Buffered == w.hi - w.lo
SimpleOnly == Declared /\ size <= SimpleMax
Running(c) == call = c /\ request = NoRequest

\* Close takes the simple path, or finds nothing at all was written.
Simple == ~w.sess /\ \/ SimpleOnly
                     \/ ~Declared /\ Buffered <= SimpleMax
                     \/ Buffered = 0

\* A method returns an error: from Write the caller learns it can stop, from
\* Close the upload has failed.
Fail ==
  /\ call' = "none"
  /\ request' = NoRequest /\ reply' = "none" /\ tries' = 0
  /\ broken' = (broken \/ call = "write")
  /\ result' = IF call = "close" THEN "failed" ELSE result
  /\ UNCHANGED <<size, resumes>>

Return ==
  /\ call' = "none"
  /\ result' = IF call = "close" THEN "ok" ELSE result
  /\ UNCHANGED <<size, broken, resumes>>
-----------------------------------------------------------------------------
(* The caller: Write, Close, Suspend, and taking an upload up again.       *)

\* Write appends; it goes on to flush unless the bytes may stay buffered.
Write(n) ==
  /\ Running("none") /\ ~w.closed /\ ~broken
  /\ w.hi + n <= size
  /\ w' = [w EXCEPT !.hi = @ + n]
  /\ call' = IF SimpleOnly \/ (~w.sess /\ ~Declared /\ Buffered + n <= SimpleMax)
             THEN "none" ELSE "write"
  /\ UNCHANGED <<caller, request, reply, tries, wire, upload, file>>

\* Reading the source fails: the copy loop stops.
SourceFails ==
  /\ Running("none") /\ ~w.closed /\ w.hi < size
  /\ broken' = TRUE
  /\ UNCHANGED <<writer, size, result, resumes, wire, upload, file>>

Close ==
  /\ Running("none") /\ ~w.closed
  /\ IF broken THEN CloseAfterError ELSE w.hi = size
  /\ w' = [w EXCEPT !.closed = TRUE]
  /\ call' = "close"
  /\ UNCHANGED <<caller, request, reply, tries, wire, upload, file>>

\* Mutant: Suspend finishes the upload the way Close does.
SuspendCloses ==
  /\ Running("none") /\ ~w.closed
  /\ w' = [w EXCEPT !.closed = TRUE]
  /\ call' = "close"
  /\ UNCHANGED <<caller, request, reply, tries, wire, upload, file>>

\* The buffer is dropped; what the session has received stays there.
Suspend ==
  /\ Running("none") /\ ~w.closed
  /\ w' = [w EXCEPT !.closed = TRUE, !.lo = w.hi]
  /\ result' = "suspended"
  /\ UNCHANGED <<call, request, reply, tries, size, broken, resumes, wire, upload, file>>

\* The process stops, in the middle of a method or between two.
Crash ==
  /\ result = "none"
  /\ w' = [w EXCEPT !.closed = TRUE, !.lo = w.hi]
  /\ call' = "none" /\ request' = NoRequest /\ reply' = "none" /\ tries' = 0
  /\ result' = "suspended"
  /\ UNCHANGED <<size, broken, resumes, wire, upload, file>>

\* Mutant: the new writer starts at the offset the old one had counted.
ResumeAtHint ==
  /\ result = "suspended" /\ w.sess /\ Declared
  /\ resumes < MaxResumes
  /\ resumes' = resumes + 1
  /\ IF upload.st = "open"
     THEN /\ w' = [Writer(TRUE, upload.received) EXCEPT !.lo = w.offset, !.hi = w.offset]
          /\ broken' = FALSE /\ result' = "none"
     ELSE result' = "failed" /\ UNCHANGED <<w, broken>>
  /\ UNCHANGED <<call, request, reply, tries, size, wire, upload, file>>

\* OpenWriteFromResumeToken: the provider says where to go on, and the caller
\* reads its source from there. An unknown size is refused.
Resume ==
  /\ result = "suspended" /\ w.sess /\ Declared
  /\ resumes < MaxResumes
  /\ resumes' = resumes + 1
  /\ IF upload.st = "open"
     THEN w' = Writer(TRUE, upload.received) /\ broken' = FALSE /\ result' = "none"
     ELSE result' = "failed" /\ UNCHANGED <<w, broken>>
  /\ UNCHANGED <<call, request, reply, tries, size, wire, upload, file>>
-----------------------------------------------------------------------------
(* flushSessionChunksLocked and simplePutLocked, up to the request.        *)

Send(r) == request' = r /\ wire' = wire \cup {r} /\ tries' = 1

\* Write has less than a fragment left.
WriteReturns ==
  /\ Running("write") /\ Buffered < ChunkSize
  /\ Return
  /\ UNCHANGED <<w, request, reply, tries, wire, upload, file>>

\* ensureSessionLocked; its POST may fail after its retries.
StartSession ==
  /\ ~w.sess
  /\ \/ Running("write") /\ Buffered >= ChunkSize
     \/ Running("close") /\ ~Simple
  /\ \/ /\ w' = [w EXCEPT !.sess = TRUE]
        /\ upload' = Session("open", 0, TRUE)
        /\ UNCHANGED <<caller, call, request, reply, tries>>
     \/ Fail /\ UNCHANGED <<w, upload>>
  /\ UNCHANGED <<wire, file>>

\* Mutant: the loop does not wait for a whole fragment.
SendChunkShort ==
  /\ Running("write") /\ w.sess
  /\ Send(Request("fragment", w.offset, w.lo, ChunkSize,
                  IF Declared THEN size ELSE Unknown))
  /\ w' = [w EXCEPT !.lo = @ + ChunkSize]
  /\ UNCHANGED <<caller, call, reply, upload, file>>

\* The fragment leaves the buffer before the PUT. Its total is the declared
\* size, or unknown.
SendChunk ==
  /\ Running("write") /\ w.sess /\ Buffered >= ChunkSize
  /\ Send(Request("fragment", w.offset, w.lo, ChunkSize,
                  IF Declared THEN size ELSE Unknown))
  /\ w' = [w EXCEPT !.lo = @ + ChunkSize]
  /\ UNCHANGED <<caller, call, reply, upload, file>>

\* Close sends all that is left as the last fragment: it ends the file.
SendRest ==
  /\ Running("close") /\ w.sess /\ Buffered > 0
  /\ Send(Request("fragment", w.offset, w.lo, Buffered, w.offset + Buffered))
  /\ w' = [w EXCEPT !.lo = w.hi]
  /\ UNCHANGED <<caller, call, reply, upload, file>>

SendContent ==
  /\ Running("close") /\ Simple
  /\ Send(Request("content", 0, w.lo, Buffered, Buffered))
  /\ w' = [w EXCEPT !.lo = w.hi]
  /\ UNCHANGED <<caller, call, reply, upload, file>>

\* A session was started and the buffer is empty: Close has nothing to send.
CloseReturns ==
  /\ Running("close") /\ w.sess /\ Buffered = 0
  /\ Return
  /\ UNCHANGED <<w, request, reply, tries, wire, upload, file>>
-----------------------------------------------------------------------------
(* The provider, and the network between.                                  *)

\* The answer reaches the writer only if it still waits for that request.
Answer(r, a) ==
  /\ \/ UNCHANGED reply
     \/ r = request /\ reply' = a
  /\ wire' = wire \ {r}
  /\ UNCHANGED <<caller, w, call, request, tries>>

Fits(r) == upload.st = "open" /\ r.off = upload.received

\* The next expected range: the session grows, and ends the file when the
\* fragment reaches the total it names.
Accept(r) ==
  LET n  == r.off + r.len
      ok == upload.intact /\ r.lo = r.off
  IN  /\ r \in wire /\ r.kind = "fragment" /\ Fits(r)
      /\ r.total # Unknown => n <= r.total
      /\ IF n = r.total
         THEN /\ upload' = Session("done", n, ok)
              /\ file' = Content(n, ok)
              /\ Answer(r, "created")
         ELSE /\ upload' = Session("open", n, ok)
              /\ UNCHANGED file
              /\ Answer(r, "accepted")

\* PUT of a whole small file.
AcceptContent(r) ==
  /\ r \in wire /\ r.kind = "content"
  /\ file' = Content(r.len, TRUE)
  /\ Answer(r, "created")
  /\ UNCHANGED upload

\* A range that is not expected, an expired session, a server error.
Refuse(r) ==
  /\ r \in wire
  /\ \E a \in {"rejected", "busy"} : Answer(r, a)
  /\ UNCHANGED <<upload, file>>

Lose(r) ==
  /\ r \in wire
  /\ wire' = wire \ {r}
  /\ UNCHANGED <<caller, writer, upload, file>>
-----------------------------------------------------------------------------
(* PutUploadFragment under DoIf and the classified retry: the same request *)
(* again on a timeout, a lost answer or a busy server.                     *)

\* Mutant: attempts are not counted.
RetryUncounted ==
  /\ request # NoRequest
  /\ reply \in {"none", "busy"}
  /\ reply' = "none"
  /\ wire' = wire \cup {request}
  /\ UNCHANGED <<caller, w, call, request, tries, upload, file>>

Retry ==
  /\ request # NoRequest
  /\ reply \in {"none", "busy"}
  /\ tries < Attempts
  /\ tries' = tries + 1 /\ reply' = "none"
  /\ wire' = wire \cup {request}
  /\ UNCHANGED <<caller, w, call, request, upload, file>>

GiveUp ==
  /\ request # NoRequest
  /\ \/ reply \in {"none", "busy"} /\ tries = Attempts
     \/ reply = "rejected"
  /\ Fail
  /\ UNCHANGED <<w, wire, upload, file>>

Settled == request' = NoRequest /\ reply' = "none" /\ tries' = 0

\* Mutant: any answer below 300 ends the upload.
AcknowledgeCompletes ==
  /\ reply = "accepted"
  /\ w' = [w EXCEPT !.offset = @ + request.len, !.lo = w.hi]
  /\ Settled
  /\ Return
  /\ UNCHANGED <<wire, upload, file>>

\* 202: count it and go round the loop again.
Acknowledge ==
  /\ reply = "accepted"
  /\ w' = [w EXCEPT !.offset = @ + request.len]
  /\ Settled
  /\ IF call = "close" THEN Return ELSE UNCHANGED <<caller, call>>
  /\ UNCHANGED <<wire, upload, file>>

\* 200 or 201: the file is there, whatever is still buffered is dropped.
Complete ==
  /\ reply = "created"
  /\ w' = [w EXCEPT !.offset = IF request.kind = "fragment" THEN @ + request.len ELSE @,
                    !.lo = w.hi]
  /\ Settled
  /\ Return
  /\ UNCHANGED <<wire, upload, file>>
-----------------------------------------------------------------------------
InMethod == WriteReturns \/ StartSession \/ SendChunk \/ SendRest \/ SendContent
            \/ CloseReturns \/ Retry \/ GiveUp \/ Acknowledge \/ Complete

Caller == (\E n \in 1 .. MaxSize : Write(n))
          \/ SourceFails \/ Close \/ Suspend \/ Crash \/ Resume

Network == \E r \in wire : Accept(r) \/ AcceptContent(r) \/ Refuse(r) \/ Lose(r)

Next == InMethod \/ Caller \/ Network

Spec == Init /\ [][Next]_vars

\* A method that has its answer, or whose deadline has passed, goes on.
FairSpec == Spec /\ WF_vars(InMethod)
-----------------------------------------------------------------------------
Requests == [kind: {"none", "fragment", "content"}, off: Nat, lo: Nat,
             len: Nat, total: Nat \cup {Unknown}]

\* Every variable keeps its type, and the buffer is a range.
TypeOK ==
  /\ size \in Nat
  /\ w \in [closed: BOOLEAN, sess: BOOLEAN, offset: Nat, lo: Nat, hi: Nat]
  /\ w.lo <= w.hi
  /\ call \in {"none", "write", "close"}
  /\ broken \in BOOLEAN
  /\ result \in {"none", "ok", "failed", "suspended"}
  /\ request \in Requests
  /\ reply \in {"none", "accepted", "created", "rejected", "busy"}
  /\ tries \in Nat
  /\ \A r \in wire : r \in Requests /\ r.kind # "none"
  /\ upload \in [st: {"none", "open", "done"}, received: Nat, intact: BOOLEAN]
  /\ file \in [len: Nat \cup {Unknown}, intact: BOOLEAN]
  /\ resumes \in Nat

Whole == Content(size, TRUE)

\* The destination file appears whole or not at all, whatever fails, however
\* often the upload is abandoned and resumed, and whichever timed-out request
\* arrives late: no byte is missing, doubled or out of place.
CommittedIsWhole == file \in {NoFile, Whole}

\* What the session holds is a prefix of the source, and the writer never
\* counts a byte the session does not have.
SessionIsPrefix ==
  w.sess => upload.intact /\ upload.received <= size /\ w.offset <= upload.received

\* A Close that reports success has committed the file, whole.
\* "Close commits the write" (README.md).
CloseCommits == result = "ok" => file = Whole

\* A call on the writer returns: a fragment is tried a bounded number of times.
CallReturns == (call # "none") ~> (call = "none")

\* The refinement: abandoned and failed uploads promise nothing.
Atomic == INSTANCE AtomicUpload WITH
            stored <- file = Whole,
            report <- CASE result = "ok" -> "ok"
                        [] result \in {"failed", "suspended"} -> "failed"
                        [] OTHER -> "none"
ImplementsAtomicUpload == Atomic!UploadSpec

\* "Use Close to finish/commit the session (and flush a trailing partial
\* fragment)" (README.md): what Close commits is what was written so far.
CommittedIsIntact == file.intact
=============================================================================
