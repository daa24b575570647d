------------------------------ MODULE PipeUpload ------------------------------
(***************************************************************************)
(* The upload writers of Dropbox, Box and Google Drive (transfer.go of     *)
(* each): Write feeds an unbuffered io.Pipe, and a goroutine started by    *)
(* the first Write reads the other end and uploads what it reads. Both     *)
(* ends are wrapped by ctxstream, which gives every Read and Write a       *)
(* deadline and leaves the goroutine that was doing it behind.             *)
(*                                                                         *)
(* Bytes are counted, not stored: content is intact when every unit lies   *)
(* at its own source position. One Write carries one unit.                 *)
(***************************************************************************)
EXTENDS Integers

CONSTANTS
  MaxSize,    \* bound: sources have 0 .. MaxSize units
  Chunk,      \* units per append or part
  Writers     \* how the adapters' goroutines upload (below)

\* "session": Dropbox and Google Drive append until the body ends.
\* "declared": Box in parts, up to the declared size.
\* "multipart": Box, small files: the body of one request.
Kinds == {"session", "declared", "multipart"}

\* attempts: of the classified retry around the upload; 1 is no retry.
Writer(kind, attempts) == [kind |-> kind, attempts |-> attempts]

ASSUME PipeAssumption ==
  /\ MaxSize \in Nat
  /\ Chunk \in Nat \ {0}
  /\ Writers \subseteq [kind: Kinds, attempts: Nat \ {0}]

VARIABLES
  writer,      \* which of Writers this is
  size,        \* length of the source
  put,         \* units passed to Write
  call,        \* the writer method in progress: "none", "write", "close"
  closed,
  broken,      \* the caller has seen an error from a Write or from its source
  cancelled,   \* the context
  result,      \* what Close returned
  pipe,        \* the pipe: a blocked Write, its end, units taken, and the
               \* reads left behind by somebody who no longer waits for them
  up,          \* the upload goroutine
  session,     \* what the provider holds for the current attempt
  file         \* the destination file, or NoFile

caller == <<writer, size, put, call, closed, broken, cancelled, result>>
vars   == <<caller, pipe, up, session, file>>

Content(l, i) == [len |-> l, intact |-> i]
Nothing == Content(0, TRUE)
NoFile  == Content(-1, TRUE)
Up(a, t) == [at |-> a, tries |-> t, n |-> 0, ok |-> TRUE]

Init ==
  /\ writer \in Writers
  /\ size \in 0 .. MaxSize
  /\ put = 0 /\ call = "none" /\ closed = FALSE /\ broken = FALSE
  /\ cancelled = FALSE /\ result = "none"
  /\ pipe = [blocked |-> FALSE, eof |-> FALSE, taken |-> 0, strays |-> 0]
  /\ up = Up("idle", 0)
  /\ session = Nothing /\ file = NoFile
-----------------------------------------------------------------------------
(* The caller.                                                             *)

\* startUploadLocked, by the first Write.
Started == IF up.at = "idle" THEN Up("start", 1) ELSE up

Write ==
  /\ call = "none" /\ ~closed /\ ~broken /\ put < size
  /\ up' = Started
  /\ IF cancelled
     THEN broken' = TRUE /\ UNCHANGED <<put, call, pipe>>
     ELSE /\ put' = put + 1 /\ call' = "write"
          /\ pipe' = [pipe EXCEPT !.blocked = TRUE]
          /\ UNCHANGED broken
  /\ UNCHANGED <<writer, size, closed, cancelled, result, session, file>>

\* Mutant: the wrapper only watches the context.
WriteFailsOnCancel ==
  /\ call = "write" /\ pipe.blocked /\ cancelled
  /\ call' = "none" /\ broken' = TRUE
  /\ UNCHANGED <<writer, size, put, closed, cancelled, result, pipe, up, session, file>>

\* The deadline or the context ends the wait; the write itself stays blocked.
WriteFails ==
  /\ call = "write" /\ pipe.blocked
  /\ call' = "none" /\ broken' = TRUE
  /\ UNCHANGED <<writer, size, put, closed, cancelled, result, pipe, up, session, file>>

SourceFails ==
  /\ call = "none" /\ ~closed /\ ~broken /\ put < size
  /\ broken' = TRUE
  /\ UNCHANGED <<writer, size, put, call, closed, cancelled, result, pipe, up, session, file>>

Cancel ==
  /\ ~cancelled /\ result = "none"
  /\ cancelled' = TRUE
  /\ UNCHANGED <<writer, size, put, call, closed, broken, result, pipe, up, session, file>>

\* The caller closes when everything is written, or after an error: that is
\* what defer Close does. A careful caller cancels the context first.
MayClose == call = "none" /\ ~closed /\ (broken \/ put = size)

\* Closing the pipe ends the body and unblocks a write left behind. With the
\* context cancelled, timedCloser returns before it closes anything. Without
\* a Write before it, Close uploads an empty file.
Close ==
  /\ MayClose
  /\ closed' = TRUE
  /\ IF cancelled
     THEN result' = "failed" /\ UNCHANGED <<call, pipe, up>>
     ELSE /\ call' = "close"
          /\ pipe' = [pipe EXCEPT !.eof = TRUE, !.blocked = FALSE]
          /\ up' = IF up.at = "idle" THEN Up("commit", 1) ELSE up
          /\ UNCHANGED result
  /\ UNCHANGED <<writer, size, put, broken, cancelled, session, file>>

\* Mutant: Close does not wait for the upload.
CloseReturnsEarly ==
  /\ call = "close"
  /\ call' = "none"
  /\ result' = IF up.at = "failed" THEN "failed" ELSE "ok"
  /\ UNCHANGED <<writer, size, put, closed, broken, cancelled, pipe, up, session, file>>

\* <-uploadDone
CloseReturns ==
  /\ call = "close" /\ up.at \in {"ok", "failed"}
  /\ call' = "none"
  /\ result' = up.at
  /\ UNCHANGED <<writer, size, put, closed, broken, cancelled, pipe, up, session, file>>
-----------------------------------------------------------------------------
(* The upload goroutine.                                                   *)

At(a) == up.at = a
Ends(a) == up' = [up EXCEPT !.at = a]

\* A Read of the pipe takes the unit of the blocked Write, which returns if
\* anybody still waits for it.
Unblocked(p) == [p EXCEPT !.blocked = FALSE, !.taken = @ + 1]
Took == /\ call' = IF call = "write" THEN "none" ELSE call
        /\ UNCHANGED <<writer, size, put, closed, broken, cancelled, result>>

\* upload_session/start, or CreateUploadSession; every attempt has its own.
StartAttempt ==
  /\ At("start") /\ ~cancelled
  /\ session' = Nothing
  /\ up' = Up("read", up.tries)
  /\ UNCHANGED <<caller, pipe, file>>

Remaining == size - session.len
Needed == IF writer.kind = "declared" /\ Remaining < Chunk THEN Remaining ELSE Chunk

\* io.ReadFull on the body.
Read ==
  /\ At("read") /\ pipe.blocked
  /\ pipe' = Unblocked(pipe)
  /\ up' = [up EXCEPT !.n = @ + 1, !.ok = @ /\ pipe.taken = session.len + up.n,
                      !.at = IF up.n + 1 = Needed THEN "append" ELSE "read"]
  /\ Took
  /\ UNCHANGED <<session, file>>

\* A read left behind takes a unit for nobody.
ReadStray ==
  /\ pipe.strays > 0 /\ pipe.blocked
  /\ pipe' = [Unblocked(pipe) EXCEPT !.strays = @ - 1]
  /\ Took
  /\ UNCHANGED <<up, session, file>>

\* The deadline or the context ends a Read; nothing retries that.
ReadFails ==
  /\ At("read") /\ ~pipe.blocked /\ ~pipe.eof
  /\ Ends("failed")
  /\ pipe' = [pipe EXCEPT !.strays = @ + 1]
  /\ UNCHANGED <<caller, session, file>>

\* Mutant: parts are committed whatever they add up to.
EndOfBodyUnchecked ==
  /\ At("read") /\ pipe.eof
  /\ IF up.n > 0 THEN Ends("append") ELSE Ends("commit")
  /\ UNCHANGED <<caller, pipe, session, file>>

\* EOF: what is buffered is the last chunk. Box aborts when the parts do not
\* add up to the declared size.
EndOfBody ==
  /\ At("read") /\ pipe.eof
  /\ IF up.n > 0 THEN Ends("append")
     ELSE IF writer.kind = "declared" /\ session.len # size THEN Ends("failed")
     ELSE Ends("commit")
  /\ UNCHANGED <<caller, pipe, session, file>>

\* Mutant: the buffer is not emptied after an append.
AppendKeepsBuffer ==
  /\ At("append") /\ ~cancelled
  /\ session' = Content(session.len + up.n, session.intact /\ up.ok)
  /\ Ends("read")
  /\ UNCHANGED <<caller, pipe, file>>

\* Box goes on to commit when it has the declared size, without waiting for EOF.
Append ==
  /\ At("append") /\ ~cancelled
  /\ session' = Content(session.len + up.n, session.intact /\ up.ok)
  /\ up' = Up(IF writer.kind = "declared" /\ session'.len = size THEN "commit" ELSE "read", up.tries)
  /\ UNCHANGED <<caller, pipe, file>>

Commit ==
  /\ At("commit") /\ ~cancelled
  /\ file' = session
  /\ Ends("ok")
  /\ UNCHANGED <<caller, pipe, session>>

\* The file is committed and the answer is lost; the request is made again.
CommitLost ==
  /\ At("commit") /\ ~cancelled
  /\ file' = session
  /\ UNCHANGED <<caller, pipe, up, session>>

\* After a 401, or another retryable error, the classified retry begins anew
\* with the same body, from wherever it is; any other error ends the upload.
FailsOrRetries ==
  \/ Ends("failed")
  \/ up.tries < writer.attempts /\ ~cancelled /\ up' = Up("start", up.tries + 1)

\* A request fails, the context having ended or not.
Fail ==
  /\ up.at \in {"start", "append", "commit"}
  /\ FailsOrRetries
  /\ UNCHANGED <<caller, pipe, session, file>>

\* A multipart request is answered with an error while its body is still
\* being read; the goroutine that copies the body is left behind.
FailInBody ==
  /\ writer.kind = "multipart" /\ At("read") /\ ~cancelled
  /\ FailsOrRetries
  /\ \/ UNCHANGED pipe
     \/ ~pipe.blocked /\ ~pipe.eof /\ pipe' = [pipe EXCEPT !.strays = @ + 1]
  /\ UNCHANGED <<caller, session, file>>
-----------------------------------------------------------------------------
Upload == StartAttempt \/ Read \/ ReadFails \/ EndOfBody \/ Append \/ Commit
          \/ CommitLost \/ Fail

Next == Write \/ WriteFails \/ SourceFails \/ Cancel \/ Close \/ CloseReturns
        \/ ReadStray \/ Upload \/ FailInBody

Spec == Init /\ [][Next]_vars

\* Deadlines pass, the goroutine runs, and the caller closes what it opened;
\* the provider need not answer a request before its body ends.
FairSpec == Spec /\ WF_vars(Upload) /\ WF_vars(WriteFails) /\ WF_vars(ReadStray)
                 /\ WF_vars(CloseReturns) /\ WF_vars(Close)
-----------------------------------------------------------------------------
Stages == {"idle", "start", "read", "append", "commit", "ok", "failed"}

\* Every variable keeps its type.
TypeOK ==
  /\ writer \in Writers
  /\ size \in Nat /\ put \in 0 .. size
  /\ call \in {"none", "write", "close"}
  /\ closed \in BOOLEAN /\ broken \in BOOLEAN /\ cancelled \in BOOLEAN
  /\ result \in {"none", "ok", "failed"}
  /\ pipe \in [blocked: BOOLEAN, eof: BOOLEAN, taken: 0 .. put, strays: Nat]
  /\ up \in [at: Stages, tries: 0 .. writer.attempts, n: 0 .. Chunk, ok: BOOLEAN]
  /\ session \in [len: Nat, intact: BOOLEAN]
  /\ file \in [len: Nat \cup {-1}, intact: BOOLEAN]

Whole == Content(size, TRUE)

\* Two things the upload cannot see in its body: that the caller gave up half
\* way and closed, and that an earlier attempt has taken the beginning of it.
\* A declared size shows both, once a byte was written.
ClosedEarly == broken /\ pipe.eof
Rebegun     == up.tries > 1
Trusted     == (writer.kind = "declared" /\ put > 0) \/ ~(ClosedEarly \/ Rebegun)

\* The destination file appears whole or not at all: not when a Write timed
\* out, not when the source stopped, not when the context was cancelled
\* between any two steps of the two goroutines; for Box in parts not even
\* when the upload is retried or the caller closes too early.
CommittedIsWhole == Trusted => file \in {NoFile, Whole}

\* A Close that reports success has committed the whole file by then.
CloseReportsCommit == Trusted /\ result = "ok" => file = Whole

\* A call on the writer returns, also when the upload it feeds has died.
CallReturns == (call # "none") ~> (call = "none")

\* The upload goroutine ends, also when the caller just stops writing.
UploadEnds == At("start") ~> (up.at \in {"ok", "failed"})

\* A write left behind by a deadline does not stay blocked for ever, unless
\* the context is cancelled: Close does not close the pipe then.
BlockedWriteEnds == pipe.blocked ~> (~pipe.blocked \/ cancelled)

\* So neither the caller nor the upload nor a goroutine left behind waits for
\* ever for one of the others.
NothingHangs == CallReturns /\ UploadEnds /\ BlockedWriteEnds

\* "Close commits the write" (README.md), when all of it was written.
CloseCommits == result = "ok" /\ ~broken => file = Whole
=============================================================================
