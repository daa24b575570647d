---------------------------- MODULE PipeUploadProofs ----------------------------
(***************************************************************************)
(* What the upload goroutine commits is the whole source, whenever it can  *)
(* know what that is: for every size of source and chunk, every adapter    *)
(* and any number of attempts.                                             *)
(***************************************************************************)
EXTENDS PipeUpload, TLAPS

\* A unit a Write has passed is taken from the pipe, still in it, or, after an
\* error, lost. Nothing is taken before there is an upload, and nothing passed
\* after Close.
CallerInv ==
  /\ pipe.taken + (IF pipe.blocked THEN 1 ELSE 0) <= put
  /\ ~broken => put = pipe.taken + (IF pipe.blocked THEN 1 ELSE 0)
  /\ call = "write" => pipe.blocked /\ ~broken
  /\ pipe.blocked => call = "write" \/ broken
  /\ pipe.eof \/ call = "close" => closed
  /\ closed => call # "write" /\ (broken \/ put = size)

\* Before the first Write there is nothing; after it there is a reason for the
\* upload to run, and success is reported of a finished one only.
StartInv ==
  /\ up.at = "idle" => /\ put = 0 /\ up = Up("idle", 0) /\ pipe.strays = 0
                       /\ session = Nothing /\ file = NoFile
  /\ up.at = "start" /\ up.tries <= 1 => session = Nothing
  /\ up.at # "idle" => up.tries >= 1 /\ (put > 0 \/ broken \/ closed)
  /\ result = "ok" => up.at = "ok"

\* The units this attempt has read, which are in their places unless somebody
\* else took one: at the first attempt nobody does.
Own == session.len + up.n

\* An attempt that has read as many units as were taken has read all of them, each
\* in its place.
ReadInv ==
  /\ Own <= pipe.taken
  /\ Own = pipe.taken => up.ok /\ session.intact
  /\ up.tries <= 1 /\ up.at # "failed" => Own = pipe.taken /\ pipe.strays = 0
  /\ up.at \in {"start", "commit"} => up.n = 0
  /\ up.at = "read" => up.n < Needed \/ size = 0

\* So what is about to be committed, and what was, is the source.
FileInv ==
  /\ up.at = "commit" /\ Trusted => session = Whole
  /\ up.at = "ok" /\ Trusted => file = Whole
  /\ CommittedIsWhole

\* The inductive invariant.
PipeInv == TypeOK /\ CallerInv /\ StartInv /\ ReadInv /\ FileInv
-----------------------------------------------------------------------------
\* Values of pipe and up, field by field.
Pipe(b, e, t, s) == [blocked |-> b, eof |-> e, taken |-> t, strays |-> s]
UpTo(a, t, n, o) == [at |-> a, tries |-> t, n |-> n, ok |-> o]

\* The type invariant, field by field.
LEMMA Fields ==
  ASSUME TypeOK
  PROVE  /\ writer.kind \in Kinds /\ writer.attempts \in Nat \ {0}
         /\ size \in Nat /\ put \in 0 .. size
         /\ pipe.blocked \in BOOLEAN /\ pipe.eof \in BOOLEAN
         /\ pipe.taken \in 0 .. put /\ pipe.strays \in Nat
         /\ up.at \in Stages /\ up.tries \in 0 .. writer.attempts
         /\ up.n \in 0 .. Chunk /\ up.ok \in BOOLEAN
         /\ session.len \in Nat /\ session.intact \in BOOLEAN
         /\ Chunk \in Nat \ {0}
  BY PipeAssumption DEF TypeOK

\* The values the steps give to the pipe and to the upload.
LEMMA Records ==
  ASSUME TypeOK
  PROVE  /\ [pipe EXCEPT !.blocked = TRUE] = Pipe(TRUE, pipe.eof, pipe.taken, pipe.strays)
         /\ [pipe EXCEPT !.eof = TRUE, !.blocked = FALSE]
              = Pipe(FALSE, TRUE, pipe.taken, pipe.strays)
         /\ [pipe EXCEPT !.strays = @ + 1]
              = Pipe(pipe.blocked, pipe.eof, pipe.taken, pipe.strays + 1)
         /\ Unblocked(pipe) = Pipe(FALSE, pipe.eof, pipe.taken + 1, pipe.strays)
         /\ [Unblocked(pipe) EXCEPT !.strays = @ - 1]
              = Pipe(FALSE, pipe.eof, pipe.taken + 1, pipe.strays - 1)
         /\ \A a : [up EXCEPT !.at = a] = UpTo(a, up.tries, up.n, up.ok)
         /\ \A a, t : Up(a, t) = UpTo(a, t, 0, TRUE)
<1> DEFINE P == [blocked: BOOLEAN, eof: BOOLEAN, taken: Int, strays: Int]
<1>1. pipe \in P /\ up \in [at: Stages, tries: Int, n: Int, ok: BOOLEAN]
  BY DEF TypeOK
<1>2. TRUE \in BOOLEAN /\ FALSE \in BOOLEAN
      /\ pipe.taken + 1 \in Int /\ pipe.strays + 1 \in Int /\ pipe.strays - 1 \in Int
  BY <1>1
<1>3. \A r \in P : r = Pipe(r.blocked, r.eof, r.taken, r.strays)
  BY DEF Pipe
<1>4. [pipe EXCEPT !.blocked = TRUE] = Pipe(TRUE, pipe.eof, pipe.taken, pipe.strays)
  <2> DEFINE r == [pipe EXCEPT !.blocked = TRUE]
  <2>1. /\ r \in P /\ r.blocked = TRUE /\ r.eof = pipe.eof
        /\ r.taken = pipe.taken /\ r.strays = pipe.strays
    BY <1>1, <1>2, Zenon DEF Unblocked
  <2> HIDE DEF r
  <2>2. r = Pipe(TRUE, pipe.eof, pipe.taken, pipe.strays)
    BY <1>3, <2>1
  <2> QED
    BY <2>2 DEF r
<1>5. [pipe EXCEPT !.eof = TRUE, !.blocked = FALSE] = Pipe(FALSE, TRUE, pipe.taken, pipe.strays)
  <2> DEFINE r == [pipe EXCEPT !.eof = TRUE, !.blocked = FALSE]
  <2>1. /\ r \in P /\ r.blocked = FALSE /\ r.eof = TRUE
        /\ r.taken = pipe.taken /\ r.strays = pipe.strays
    BY <1>1, <1>2, Zenon DEF Unblocked
  <2> HIDE DEF r
  <2>2. r = Pipe(FALSE, TRUE, pipe.taken, pipe.strays)
    BY <1>3, <2>1
  <2> QED
    BY <2>2 DEF r
<1>6. [pipe EXCEPT !.strays = @ + 1] = Pipe(pipe.blocked, pipe.eof, pipe.taken, pipe.strays + 1)
  <2> DEFINE r == [pipe EXCEPT !.strays = @ + 1]
  <2>1. /\ r \in P /\ r.blocked = pipe.blocked /\ r.eof = pipe.eof
        /\ r.taken = pipe.taken /\ r.strays = pipe.strays + 1
    BY <1>1, <1>2, Zenon DEF Unblocked
  <2> HIDE DEF r
  <2>2. r = Pipe(pipe.blocked, pipe.eof, pipe.taken, pipe.strays + 1)
    BY <1>3, <2>1
  <2> QED
    BY <2>2 DEF r
<1>7. Unblocked(pipe) = Pipe(FALSE, pipe.eof, pipe.taken + 1, pipe.strays)
  <2> DEFINE r == Unblocked(pipe)
  <2>1. /\ r \in P /\ r.blocked = FALSE /\ r.eof = pipe.eof
        /\ r.taken = pipe.taken + 1 /\ r.strays = pipe.strays
    BY <1>1, <1>2, Zenon DEF Unblocked
  <2> HIDE DEF r
  <2>2. r = Pipe(FALSE, pipe.eof, pipe.taken + 1, pipe.strays)
    BY <1>3, <2>1
  <2> QED
    BY <2>2 DEF r
<1>8. [Unblocked(pipe) EXCEPT !.strays = @ - 1]
        = Pipe(FALSE, pipe.eof, pipe.taken + 1, pipe.strays - 1)
  <2> DEFINE r == [Unblocked(pipe) EXCEPT !.strays = @ - 1]
  <2>1. /\ r \in P /\ r.blocked = FALSE /\ r.eof = pipe.eof
        /\ r.taken = pipe.taken + 1 /\ r.strays = pipe.strays - 1
    BY <1>1, <1>2, Zenon DEF Unblocked
  <2> HIDE DEF r
  <2>2. r = Pipe(FALSE, pipe.eof, pipe.taken + 1, pipe.strays - 1)
    BY <1>3, <2>1
  <2> QED
    BY <2>2 DEF r
<1>9. ASSUME NEW a
     PROVE  [up EXCEPT !.at = a] = UpTo(a, up.tries, up.n, up.ok)
  <2> DEFINE r == [up EXCEPT !.at = a]
  <2>1. /\ r \in [at: {a}, tries: Int, n: Int, ok: BOOLEAN]
        /\ r.tries = up.tries /\ r.n = up.n /\ r.ok = up.ok
    BY <1>1, Zenon
  <2> HIDE DEF r
  <2>2. r = UpTo(a, up.tries, up.n, up.ok)
    BY <2>1 DEF UpTo
  <2> QED
    BY <2>2 DEF r
<1>10. \A a, t : Up(a, t) = UpTo(a, t, 0, TRUE)
  BY DEF Up, UpTo
<1> QED
  BY <1>4, <1>5, <1>6, <1>7, <1>8, <1>9, <1>10

\* The steps of the caller.
LEMMA CallerStep ==
  ASSUME PipeInv, Write \/ WriteFails \/ SourceFails \/ Cancel \/ Close \/ CloseReturns
  PROVE  PipeInv'
<1> USE PipeAssumption
    DEF Pipe, UpTo, Own, Needed, Remaining, Trusted, ClosedEarly, Rebegun, Whole, Content,
        Nothing, NoFile, CommittedIsWhole
<1>1. TypeOK /\ CallerInv /\ StartInv /\ ReadInv /\ FileInv
  BY DEF PipeInv
<1>2. CASE Write
  <2>1. /\ call = "none" /\ ~closed /\ ~broken /\ put < size
        /\ up' = IF up.at = "idle" THEN UpTo("start", 1, 0, TRUE) ELSE up
        /\ UNCHANGED <<writer, size, closed, cancelled, result, session, file>>
        /\ \/ broken' = TRUE /\ UNCHANGED <<put, call, pipe>>
           \/ /\ put' = put + 1 /\ call' = "write" /\ broken' = broken
              /\ pipe' = Pipe(TRUE, pipe.eof, pipe.taken, pipe.strays)
    BY <1>1, <1>2, Records DEF Write, Started
  <2>2. TypeOK'
    <3>1. up' \in [at: Stages, tries: 0 .. writer'.attempts, n: 0 .. Chunk, ok: BOOLEAN]
      BY <1>1, <2>1, Fields DEF TypeOK, Stages
    <3>2. put' \in 0 .. size'
      BY <1>1, <2>1, Fields
    <3>4. call' \in {"none", "write", "close"} /\ broken' \in BOOLEAN
      <4>1. call \in {"none", "write", "close"} /\ broken \in BOOLEAN
        BY <1>1 DEF TypeOK
      <4> QED
        BY <2>1, <4>1
    <3>3. pipe' \in [blocked: BOOLEAN, eof: BOOLEAN, taken: 0 .. put', strays: Nat]
      <4>1. CASE pipe' = pipe /\ put' = put
        BY <1>1, <4>1 DEF TypeOK
      <4>2. CASE pipe' = Pipe(TRUE, pipe.eof, pipe.taken, pipe.strays) /\ put' = put + 1
        <5>1. pipe.taken \in 0 .. put'
          BY <1>1, <4>2, Fields
        <5> QED
          BY <1>1, <4>2, <5>1, Fields
      <4> QED
        BY <2>1, <4>1, <4>2
    <3> QED
      BY <1>1, <2>1, <3>1, <3>2, <3>3, <3>4 DEF TypeOK
  <2>3. CallerInv'
    BY <1>1, <2>1, Fields DEF CallerInv
  <2>4. StartInv'
    BY <1>1, <2>1, Fields DEF StartInv
  <2>5. ReadInv'
    BY <1>1, <2>1, Fields DEF ReadInv, StartInv
  <2>6. FileInv'
    BY <1>1, <2>1, Fields DEF FileInv, StartInv
  <2> QED
    BY <2>2, <2>3, <2>4, <2>5, <2>6 DEF PipeInv
<1>3. CASE WriteFails \/ SourceFails \/ Cancel
  <2>1. /\ UNCHANGED <<writer, size, put, closed, result, pipe, up, session, file>>
        /\ cancelled' \in BOOLEAN
        /\ \/ ~closed /\ broken' = TRUE /\ call' = "none"
           \/ UNCHANGED <<call, broken>>
    BY <1>1, <1>3 DEF WriteFails, SourceFails, Cancel, CallerInv, TypeOK
  <2>2. TypeOK'
    <3>1. call' \in {"none", "write", "close"} /\ broken' \in BOOLEAN
      BY <1>1, <2>1 DEF TypeOK
    <3> QED
      BY <1>1, <2>1, <3>1 DEF TypeOK
  <2>3. CallerInv'
    BY <1>1, <2>1, Fields DEF CallerInv
  <2>4. StartInv'
    BY <1>1, <2>1, Fields DEF StartInv
  <2>5. ReadInv'
    BY <1>1, <2>1, Fields DEF ReadInv, StartInv
  <2>6. FileInv'
    BY <1>1, <2>1, Fields DEF FileInv, StartInv, CallerInv
  <2> QED
    BY <2>2, <2>3, <2>4, <2>5, <2>6 DEF PipeInv
<1>4. CASE Close
  <2>1. /\ call = "none" /\ ~closed /\ (broken \/ put = size) /\ closed' = TRUE
        /\ UNCHANGED <<writer, size, put, broken, cancelled, session, file>>
        /\ \/ result' = "failed" /\ UNCHANGED <<call, pipe, up>>
           \/ /\ call' = "close" /\ result' = result
              /\ pipe' = Pipe(FALSE, TRUE, pipe.taken, pipe.strays)
              /\ up' = IF up.at = "idle" THEN UpTo("commit", 1, 0, TRUE) ELSE up
    BY <1>1, <1>4, Records DEF Close, MayClose
  <2>2. TypeOK'
    <3>1. up' \in [at: Stages, tries: 0 .. writer'.attempts, n: 0 .. Chunk, ok: BOOLEAN]
      <4>1. CASE up' = up
        BY <1>1, <2>1, <4>1 DEF TypeOK
      <4>2. CASE up' = UpTo("commit", 1, 0, TRUE)
        BY <1>1, <2>1, <4>2, Fields DEF Stages
      <4> QED
        BY <2>1, <4>1, <4>2
    <3>2. call' \in {"none", "write", "close"} /\ result' \in {"none", "ok", "failed"}
      BY <1>1, <2>1 DEF TypeOK
    <3>3. pipe' \in [blocked: BOOLEAN, eof: BOOLEAN, taken: 0 .. put', strays: Nat]
      <4>1. CASE pipe' = pipe
        BY <1>1, <2>1, <4>1 DEF TypeOK
      <4>2. CASE pipe' = Pipe(FALSE, TRUE, pipe.taken, pipe.strays)
        BY <1>1, <2>1, <4>2, Fields
      <4> QED
        BY <2>1, <4>1, <4>2
    <3> QED
      BY <1>1, <2>1, <3>1, <3>2, <3>3 DEF TypeOK
  <2>3. CallerInv'
    BY <1>1, <2>1, Fields DEF CallerInv
  <2>4. StartInv'
    BY <1>1, <2>1, Fields DEF StartInv
  <2>5. ReadInv'
    BY <1>1, <2>1, Fields DEF ReadInv, StartInv, CallerInv
  <2>6. FileInv'
    BY <1>1, <2>1, Fields DEF FileInv, StartInv, CallerInv
  <2> QED
    BY <2>2, <2>3, <2>4, <2>5, <2>6 DEF PipeInv
<1>5. CASE CloseReturns
  <2>1. /\ up.at \in {"ok", "failed"} /\ call = "close" /\ call' = "none" /\ result' = up.at
        /\ UNCHANGED <<writer, size, put, closed, broken, cancelled, pipe, up, session, file>>
    BY <1>5 DEF CloseReturns
  <2> QED
    BY <1>1, <2>1, Fields DEF PipeInv, TypeOK, CallerInv, StartInv, ReadInv, FileInv
<1> QED
  BY <1>2, <1>3, <1>4, <1>5

\* The steps that take a unit from the pipe.
LEMMA TakeStep ==
  ASSUME PipeInv, Read \/ ReadStray
  PROVE  PipeInv'
<1> USE PipeAssumption
    DEF Pipe, UpTo, Own, Needed, Remaining, Trusted, ClosedEarly, Rebegun, Whole, Content,
        Nothing, NoFile, CommittedIsWhole
<1>1. TypeOK /\ CallerInv /\ StartInv /\ ReadInv /\ FileInv
  BY DEF PipeInv
<1>2. CASE Read
  <2>1. /\ up.at = "read" /\ pipe.blocked
        /\ pipe' = Pipe(FALSE, pipe.eof, pipe.taken + 1, pipe.strays)
        /\ call' = (IF call = "write" THEN "none" ELSE call)
        /\ UNCHANGED <<writer, size, put, closed, broken, cancelled, result, session, file>>
    BY <1>1, <1>2, Records DEF Read, At, Took
  <2>2. up' = UpTo(IF up.n + 1 = Needed THEN "append" ELSE "read", up.tries, up.n + 1,
                      up.ok /\ pipe.taken = session.len + up.n)
    <3> DEFINE a == IF up.n + 1 = Needed THEN "append" ELSE "read"
               o == up.ok /\ pipe.taken = session.len + up.n
    <3>1. up' = [up EXCEPT !.n = up.n + 1, !.ok = o, !.at = a]
      BY <1>2 DEF Read
    <3>2. /\ up.n + 1 \in Int /\ o \in BOOLEAN /\ a \in Stages
          /\ up \in [at: Stages, tries: Int, n: Int, ok: BOOLEAN]
      BY <1>1, Fields DEF TypeOK, Stages
    <3> HIDE DEF a, o
    <3>3. up' \in [at: Stages, tries: Int, n: Int, ok: BOOLEAN]
          /\ up'.at = a /\ up'.tries = up.tries /\ up'.n = up.n + 1 /\ up'.ok = o
      BY <3>1, <3>2, Zenon
    <3> QED
      BY <3>3 DEF a, o
  <2>3. /\ up.n + 1 <= Chunk /\ pipe.taken + 1 <= put
    BY <1>1, <2>1, Fields DEF ReadInv, CallerInv
  <2>4. TypeOK'
    BY <1>1, <2>1, <2>2, <2>3, Fields DEF TypeOK, Stages
  <2>5. CallerInv'
    BY <1>1, <2>1, <2>2, Fields DEF CallerInv
  <2>6. StartInv'
    BY <1>1, <2>1, <2>2, Fields DEF StartInv
  <2>7. ReadInv'
    BY <1>1, <2>1, <2>2, <2>3, Fields DEF ReadInv
  <2>8. FileInv'
    BY <1>1, <2>1, <2>2, Fields DEF FileInv
  <2> QED
    BY <2>4, <2>5, <2>6, <2>7, <2>8 DEF PipeInv
<1>3. CASE ReadStray
  <2>1. /\ pipe.blocked /\ pipe.strays > 0
        /\ pipe' = Pipe(FALSE, pipe.eof, pipe.taken + 1, pipe.strays - 1)
        /\ call' = (IF call = "write" THEN "none" ELSE call)
        /\ UNCHANGED <<writer, size, put, closed, broken, cancelled, result, up, session, file>>
    BY <1>1, <1>3, Records DEF ReadStray, Took
  <2>2. pipe.taken + 1 <= put
    BY <1>1, <2>1, Fields DEF CallerInv
  <2>4. TypeOK'
    BY <1>1, <2>1, <2>2, Fields DEF TypeOK, Stages
  <2>5. CallerInv'
    BY <1>1, <2>1, <2>2, Fields DEF CallerInv
  <2>6. StartInv'
    BY <1>1, <2>1, <2>2, Fields DEF StartInv
  <2>7. ReadInv'
    BY <1>1, <2>1, <2>2, Fields DEF ReadInv
  <2>8. FileInv'
    BY <1>1, <2>1, <2>2, Fields DEF FileInv
  <2> QED
    BY <2>4, <2>5, <2>6, <2>7, <2>8 DEF PipeInv
<1> QED
  BY <1>2, <1>3

\* What a step of the upload alone must see to.
LEMMA UploadTypes ==
  ASSUME TypeOK, UNCHANGED caller,
         NEW a \in Stages, NEW t \in 0 .. writer.attempts, NEW n \in 0 .. Chunk,
         NEW o \in BOOLEAN,
         up' = UpTo(a, t, n, o),
         pipe' = pipe \/ pipe' = Pipe(pipe.blocked, pipe.eof, pipe.taken, pipe.strays + 1),
         session' \in [len: Nat, intact: BOOLEAN],
         file' \in [len: Nat \cup {-1}, intact: BOOLEAN]
  PROVE  TypeOK'
<1>1. pipe' \in [blocked: BOOLEAN, eof: BOOLEAN, taken: 0 .. put', strays: Nat]
  <2>1. CASE pipe' = pipe
    BY <2>1 DEF TypeOK, caller
  <2>2. CASE pipe' = Pipe(pipe.blocked, pipe.eof, pipe.taken, pipe.strays + 1)
    BY <2>2, Fields DEF Pipe, caller
  <2> QED
    BY <2>1, <2>2
<1>2. up' \in [at: Stages, tries: 0 .. writer'.attempts, n: 0 .. Chunk, ok: BOOLEAN]
  BY DEF UpTo, caller
<1> QED
  BY <1>1, <1>2 DEF TypeOK, caller

\* The steps of the upload goroutine that read nothing.
LEMMA UploadStep ==
  ASSUME PipeInv,
         \/ StartAttempt \/ ReadFails \/ EndOfBody \/ Append \/ Commit \/ CommitLost
         \/ Fail \/ FailInBody
  PROVE  PipeInv'
<1> USE PipeAssumption
    DEF Pipe, UpTo, Own, Needed, Remaining, Trusted, ClosedEarly, Rebegun, Whole, Content,
        Nothing, NoFile, CommittedIsWhole
<1>1. TypeOK /\ CallerInv /\ StartInv /\ ReadInv /\ FileInv
  BY DEF PipeInv
<1>2. CASE StartAttempt
  <2>1. /\ up.at = "start" /\ up' = UpTo("read", up.tries, 0, TRUE) /\ session' = Nothing
        /\ UNCHANGED <<caller, pipe, file>>
    BY <1>1, <1>2, Records DEF StartAttempt, At
  <2>2. TypeOK'
    <3>1. /\ "read" \in Stages /\ 0 \in 0 .. Chunk /\ TRUE \in BOOLEAN
          /\ session' \in [len: Nat, intact: BOOLEAN]
      BY <2>1 DEF Stages
    <3>2. file' \in [len: Nat \cup {-1}, intact: BOOLEAN]
      BY <1>1, <2>1 DEF TypeOK
    <3> HIDE DEF UpTo, Pipe
    <3> QED
      BY <1>1, <2>1, <3>1, <3>2, UploadTypes, Fields
  <2>3. CallerInv' /\ StartInv'
    BY <1>1, <2>1, Fields DEF CallerInv, StartInv, caller
  <2>4. ReadInv'
    BY <1>1, <2>1, Fields DEF ReadInv, CallerInv, StartInv, caller
  <2>5. FileInv'
    BY <1>1, <2>1, Fields DEF FileInv, caller
  <2> QED
    BY <2>2, <2>3, <2>4, <2>5 DEF PipeInv
<1>3. CASE ReadFails
  <2>1. /\ up.at = "read" /\ up' = UpTo("failed", up.tries, up.n, up.ok)
        /\ pipe' = Pipe(pipe.blocked, pipe.eof, pipe.taken, pipe.strays + 1)
        /\ UNCHANGED <<caller, session, file>>
    BY <1>1, <1>3, Records DEF ReadFails, At, Ends
  <2>2. TypeOK'
    <3>1. "failed" \in Stages
      BY DEF Stages
    <3>2. /\ file' \in [len: Nat \cup {-1}, intact: BOOLEAN]
          /\ session' \in [len: Nat, intact: BOOLEAN]
      BY <1>1, <2>1 DEF TypeOK
    <3> HIDE DEF UpTo, Pipe
    <3> QED
      BY <1>1, <2>1, <3>1, <3>2, UploadTypes, Fields
  <2>3. CallerInv' /\ StartInv'
    BY <1>1, <2>1, Fields DEF CallerInv, StartInv, caller
  <2>4. ReadInv'
    BY <1>1, <2>1, Fields DEF ReadInv, caller
  <2>5. FileInv'
    BY <1>1, <2>1, Fields DEF FileInv, caller
  <2> QED
    BY <2>2, <2>3, <2>4, <2>5 DEF PipeInv
<1>4. CASE EndOfBody
  <2> DEFINE a == IF up.n > 0 THEN "append"
                  ELSE IF writer.kind = "declared" /\ session.len # size THEN "failed"
                  ELSE "commit"
  <2>1. /\ up.at = "read" /\ pipe.eof /\ up' = UpTo(a, up.tries, up.n, up.ok)
        /\ UNCHANGED <<caller, pipe, session, file>>
    BY <1>1, <1>4, Records DEF EndOfBody, At, Ends
  <2>2. TypeOK'
    <3>1. a \in Stages
      BY DEF Stages
    <3>2. /\ file' \in [len: Nat \cup {-1}, intact: BOOLEAN]
          /\ session' \in [len: Nat, intact: BOOLEAN]
      BY <1>1, <2>1 DEF TypeOK
    <3> HIDE DEF UpTo, Pipe, a
    <3> QED
      BY <1>1, <2>1, <3>1, <3>2, UploadTypes, Fields
  <2>3. CallerInv' /\ StartInv'
    BY <1>1, <2>1, Fields DEF CallerInv, StartInv, caller
  <2>4. ReadInv'
    BY <1>1, <2>1, Fields DEF ReadInv, caller
  <2>5. ASSUME a = "commit", Trusted
        PROVE  session = Whole
    <3>1. up.n = 0 /\ put <= size /\ session.len <= pipe.taken
      BY <1>1, <2>5, Fields DEF ReadInv
    <3>2. CASE writer.kind = "declared" /\ put > 0
      <4>1. session.len = size /\ pipe.taken = size
        BY <1>1, <2>5, <3>1, <3>2, Fields
      <4>2. session.intact = TRUE
        BY <1>1, <3>1, <4>1, Fields DEF ReadInv
      <4> QED
        BY <1>1, <4>1, <4>2 DEF TypeOK
    <3>3. CASE ~(broken /\ pipe.eof) /\ ~(up.tries > 1)
      <4>1. pipe.taken = size
        BY <1>1, <2>1, <3>3, Fields DEF CallerInv
      <4>2. session.len = size /\ session.intact = TRUE
        BY <1>1, <2>1, <3>1, <3>3, <4>1, Fields DEF ReadInv
      <4> QED
        BY <1>1, <4>1, <4>2 DEF TypeOK
    <3> QED
      BY <2>5, <3>2, <3>3
  <2>6. FileInv'
    BY <1>1, <2>1, <2>5, Fields DEF FileInv, caller
  <2> QED
    BY <2>2, <2>3, <2>4, <2>6 DEF PipeInv
<1>5. CASE Append
  <2> DEFINE l == session.len + up.n
             i == session.intact /\ up.ok
             a == IF writer.kind = "declared" /\ l = size THEN "commit" ELSE "read"
  <2>1. /\ up.at = "append" /\ up' = UpTo(a, up.tries, 0, TRUE) /\ session' = Content(l, i)
        /\ UNCHANGED <<caller, pipe, file>>
    BY <1>1, <1>5, Records DEF Append, At
  <2>2. TypeOK'
    <3>1. /\ a \in Stages /\ 0 \in 0 .. Chunk /\ TRUE \in BOOLEAN
          /\ session' \in [len: Nat, intact: BOOLEAN]
      BY <1>1, <2>1, Fields DEF Stages
    <3>2. file' \in [len: Nat \cup {-1}, intact: BOOLEAN]
      BY <1>1, <2>1 DEF TypeOK
    <3> HIDE DEF UpTo, Pipe, a
    <3> QED
      BY <1>1, <2>1, <3>1, <3>2, UploadTypes, Fields
  <2>3. CallerInv' /\ StartInv'
    BY <1>1, <2>1, Fields DEF CallerInv, StartInv, caller
  <2>4. ReadInv'
    <3>1. l <= pipe.taken /\ pipe.taken <= put /\ put <= size /\ (l = pipe.taken => i = TRUE)
      BY <1>1, Fields DEF ReadInv
    <3> QED
      BY <1>1, <2>1, <3>1, Fields DEF ReadInv, caller
  <2>5. ASSUME a = "commit"
        PROVE  session' = Whole
    <3>1. l = size /\ pipe.taken = l
      BY <1>1, <2>5, Fields DEF ReadInv
    <3>2. i = TRUE
      BY <1>1, <3>1, Fields DEF ReadInv
    <3> QED
      BY <2>1, <3>1, <3>2
  <2>6. FileInv'
    <3>1. size' = size
      BY <2>1 DEF caller
    <3> QED
      BY <1>1, <2>1, <2>5, <3>1, Fields DEF FileInv, caller
  <2> QED
    BY <2>2, <2>3, <2>4, <2>6 DEF PipeInv
<1>6. CASE Commit \/ CommitLost
  <2>1. /\ up.at = "commit" /\ file' = session /\ UNCHANGED <<caller, pipe, session>>
        /\ up' = UpTo("ok", up.tries, up.n, up.ok) \/ up' = up
    BY <1>1, <1>6, Records DEF Commit, CommitLost, At, Ends
  <2>2. TypeOK'
    <3>1. /\ "ok" \in Stages /\ session' \in [len: Nat, intact: BOOLEAN]
          /\ file' \in [len: Nat \cup {-1}, intact: BOOLEAN]
      BY <1>1, <2>1 DEF TypeOK, Stages
    <3>2. up = UpTo(up.at, up.tries, up.n, up.ok)
      BY <1>1 DEF TypeOK
    <3> HIDE DEF UpTo, Pipe
    <3> QED
      BY <1>1, <2>1, <3>1, <3>2, UploadTypes, Fields
  <2>3. CallerInv' /\ StartInv'
    BY <1>1, <2>1, Fields DEF CallerInv, StartInv, caller
  <2>4. ReadInv'
    BY <1>1, <2>1, Fields DEF ReadInv, caller
  <2>5. FileInv'
    BY <1>1, <2>1, Fields DEF FileInv, caller
  <2> QED
    BY <2>2, <2>3, <2>4, <2>5 DEF PipeInv
<1>7. CASE Fail \/ FailInBody
  <2>1. /\ up.at \in {"start", "read", "append", "commit"} /\ UNCHANGED <<caller, session, file>>
        /\ \/ up' = UpTo("failed", up.tries, up.n, up.ok)
           \/ up.tries < writer.attempts /\ up' = UpTo("start", up.tries + 1, 0, TRUE)
        /\ pipe' = pipe \/ pipe' = Pipe(pipe.blocked, pipe.eof, pipe.taken, pipe.strays + 1)
        /\ pipe' = pipe \/ up.at = "read"
    BY <1>1, <1>7, Records DEF Fail, FailInBody, FailsOrRetries, At, Ends
  <2>2. TypeOK'
    <3>1. {"failed", "start"} \subseteq Stages /\ 0 \in 0 .. Chunk /\ TRUE \in BOOLEAN
      BY DEF Stages
    <3>2. /\ file' \in [len: Nat \cup {-1}, intact: BOOLEAN]
          /\ session' \in [len: Nat, intact: BOOLEAN]
      BY <1>1, <2>1 DEF TypeOK
    <3>3. up.tries < writer.attempts => up.tries + 1 \in 0 .. writer.attempts
      BY <1>1, Fields
    <3> HIDE DEF UpTo, Pipe
    <3> QED
      BY <1>1, <2>1, <3>1, <3>2, <3>3, UploadTypes, Fields
  <2>3. CallerInv' /\ StartInv'
    BY <1>1, <2>1, Fields DEF CallerInv, StartInv, caller
  <2>4. ReadInv'
    BY <1>1, <2>1, Fields DEF ReadInv, StartInv, caller
  <2>5. FileInv'
    BY <1>1, <2>1, Fields DEF FileInv, caller
  <2> QED
    BY <2>2, <2>3, <2>4, <2>5 DEF PipeInv
<1> QED
  BY <1>2, <1>3, <1>4, <1>5, <1>6, <1>7

\* The invariant holds of a writer that was just opened,
LEMMA InvInit == Init => PipeInv
<1> SUFFICES ASSUME Init
             PROVE  PipeInv
  OBVIOUS
<1>1. TypeOK
  <2>1. size \in Nat /\ put \in 0 .. size /\ writer.attempts \in Nat
    BY PipeAssumption DEF Init
  <2>2. /\ pipe \in [blocked: BOOLEAN, eof: BOOLEAN, taken: 0 .. put, strays: Nat]
        /\ up \in [at: Stages, tries: 0 .. writer.attempts, n: 0 .. Chunk, ok: BOOLEAN]
    BY <2>1, PipeAssumption DEF Init, Up, Stages
  <2>3. session \in [len: Nat, intact: BOOLEAN] /\ file \in [len: Nat \cup {-1}, intact: BOOLEAN]
    BY DEF Init, Nothing, NoFile, Content
  <2> QED
    BY <2>1, <2>2, <2>3 DEF Init, TypeOK
<1> QED
  BY <1>1, PipeAssumption
  DEF Init, PipeInv, CallerInv, StartInv, ReadInv, FileInv, Own, Up, Nothing, NoFile, Content,
      CommittedIsWhole

\* and in every reachable state.
LEMMA InvHolds == Spec => []PipeInv
<1>1. PipeInv /\ [Next]_vars => PipeInv'
  <2> SUFFICES ASSUME PipeInv, [Next]_vars
               PROVE  PipeInv'
    OBVIOUS
  <2>1. CASE UNCHANGED vars
    <3>1. /\ UNCHANGED <<writer, size, put, call, closed, broken, cancelled, result>>
          /\ UNCHANGED <<pipe, up, session, file>>
      BY <2>1 DEF vars, caller
    <3>2. TypeOK'
      BY <3>1 DEF PipeInv, TypeOK
    <3>3. CallerInv' /\ StartInv'
      BY <3>1 DEF PipeInv, CallerInv, StartInv
    <3>4. ReadInv'
      BY <3>1 DEF PipeInv, ReadInv, Own, Needed, Remaining
    <3>5. FileInv'
      BY <3>1
      DEF PipeInv, FileInv, CommittedIsWhole, Trusted, ClosedEarly, Rebegun, Whole
    <3> QED
      BY <3>2, <3>3, <3>4, <3>5 DEF PipeInv
  <2> QED
    BY <2>1, CallerStep, TakeStep, UploadStep DEF Next, Upload
<1> QED
  BY <1>1, InvInit, PTL DEF Spec

\* Every variable keeps its type; in particular no unit is taken that was not put,
\* and no buffer grows past a chunk.
THEOREM PipeIsTyped == Spec => []TypeOK
<1>1. PipeInv => TypeOK
  BY DEF PipeInv
<1> QED
  BY <1>1, InvHolds, PTL

\* What Dropbox, Box and Google Drive commit is the whole source (transfer.go of
\* each), for every size of source and chunk and every number of attempts, unless
\* the upload cannot know better: see Trusted.
THEOREM TrustedFilesAreWhole == Spec => []CommittedIsWhole
<1>1. PipeInv => CommittedIsWhole
  BY DEF PipeInv, FileInv
<1> QED
  BY <1>1, InvHolds, PTL

\* And a Close that reports success has committed it by then.
THEOREM ReportedFilesAreWhole == Spec => []CloseReportsCommit
<1>1. PipeInv => CloseReportsCommit
  BY DEF PipeInv, FileInv, StartInv, CloseReportsCommit
<1> QED
  BY <1>1, InvHolds, PTL
=============================================================================
