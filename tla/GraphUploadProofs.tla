--------------------------- MODULE GraphUploadProofs ---------------------------
(***************************************************************************)
(* What GraphUpload keeps for sources, fragments and limits of any size,   *)
(* any number of attempts and resumes, and every delivery of the requests: *)
(* the destination is whole or absent, the session holds a prefix of the   *)
(* source, and, when the size was declared, the writer implements          *)
(* AtomicUpload. The caller is one that does not close a writer that has   *)
(* failed (~CloseAfterError); with one that does, none of this holds.      *)
(***************************************************************************)
EXTENDS GraphUpload, TLAPS

\* TypeOK, and the request that stands for none is NoRequest.
TypeInv == TypeOK /\ (request.kind = "none" => request = NoRequest)

\* A request carries bytes of the source to their own place, and names no end
\* but that of the source.
Sound(r) ==
  /\ r.kind = "fragment" => /\ r.lo = r.off /\ r.off + r.len <= size
                            /\ r.total \in {Unknown, size}
                            /\ Declared => r.total = size
  /\ r.kind = "content"  => r.len = size

\* Whatever the provider may still receive is sound; fragments need a session.
WireInv ==
  \A r \in wire : Sound(r) /\ (r.kind = "fragment" => w.sess)

\* There is one session, which grows towards the whole source.
SessionInv ==
  /\ w.sess <=> upload.st # "none"
  /\ upload.intact /\ upload.received <= size /\ w.offset <= upload.received
  /\ ~w.sess => w.offset = 0 /\ upload.received = 0
  /\ upload.st = "open" /\ Declared => upload.received < size
  /\ upload.st = "done" => file = Whole

\* While nothing failed, the buffer goes on where the session's bytes and the
\* request in flight end.
BufferInv ==
  /\ w.hi <= size
  /\ ~broken /\ result = "none" =>
       w.lo = w.offset + IF request.kind = "none" THEN 0 ELSE request.len

\* The method that runs belongs to a writer that is alive.
CallInv ==
  /\ call # "none" => result = "none" /\ ~broken
  /\ ~w.closed => result = "none"
  /\ call = "close" => w.closed /\ w.hi = size
  /\ call = "write" => ~w.closed
  /\ call = "none" => request.kind = "none"

\* The request a method waits for is sound, starts at the writer's offset and is
\* the last one exactly if the method is Close.
RequestInv ==
  /\ request.kind = "none" => request = NoRequest
  /\ Sound(request)
  /\ request.kind = "fragment" => w.sess /\ request.off = w.offset
  /\ request.kind = "content" => ~w.sess /\ call = "close"
  /\ request.kind # "none" /\ call = "close" => request.total = request.off + request.len

\* What an answer on its way back says has happened.
ReplyInv ==
  /\ reply # "none" => request.kind # "none"
  /\ reply = "accepted" => /\ request.kind = "fragment"
                           /\ request.off + request.len # request.total
                           /\ request.off + request.len <= upload.received
  /\ reply = "created" => /\ file = Whole
                          /\ request.kind = "fragment" => request.off + request.len = size
                                                          /\ upload.received = size

\* Success is reported of a whole file.
ResultInv == result = "ok" /\ Declared => file = Whole

UploadInv ==
  /\ TypeOK /\ WireInv /\ SessionInv /\ BufferInv /\ CallInv /\ RequestInv /\ ReplyInv
  /\ ResultInv /\ CommittedIsWhole

Writers == [closed: BOOLEAN, sess: BOOLEAN, offset: Nat, lo: Nat, hi: Nat]

\* Updating two fields of a writer, which the SMT solver takes in one step each.
LEMMA WriterUpdates ==
  ASSUME NEW v \in Writers
  PROVE  /\ [v EXCEPT !.closed = TRUE, !.lo = v.hi] \in Writers
         /\ [v EXCEPT !.closed = TRUE, !.lo = v.hi].lo = v.hi
         /\ [v EXCEPT !.closed = TRUE, !.lo = v.hi].hi = v.hi
         /\ \A o \in Nat : /\ [v EXCEPT !.offset = o, !.lo = v.hi] \in Writers
                         /\ [v EXCEPT !.offset = o, !.lo = v.hi].lo = v.hi
                         /\ [v EXCEPT !.offset = o, !.lo = v.hi].hi = v.hi
<1>1. v.hi \in Nat
  BY DEF Writers
<1> QED
  BY Zenon DEF Writers
\* Every step keeps the types.
LEMMA TypeStep ==
  ASSUME TypeInv, [Next]_vars
  PROVE  TypeInv'
<1> USE UploadAssumption
<1>w. w \in Writers /\ w.hi \in Nat
  BY DEF TypeInv, TypeOK, Writers
<1>1. CASE \E n \in 1 .. MaxSize : Write(n)
  <2>1. w' \in [closed: BOOLEAN, sess: BOOLEAN, offset: Nat, lo: Nat, hi: Nat] /\ w'.lo <= w'.hi
    BY <1>1 DEF TypeInv, TypeOK, Write
  <2> QED
    BY <1>1 DEF TypeInv, TypeOK, Write, caller
<1>2. CASE SourceFails
  BY <1>2 DEF TypeInv, TypeOK, SourceFails, writer
<1>3. CASE Close
  BY <1>3 DEF TypeInv, TypeOK, Close, Running, caller, writer
<1>4. CASE Suspend
  <2>1. w' = [w EXCEPT !.closed = TRUE, !.lo = w.hi]
    BY <1>4 DEF Suspend
  <2>2. w' \in Writers /\ w'.lo <= w'.hi
    <3>1. w' \in Writers /\ w'.lo = w.hi /\ w'.hi = w.hi
      BY <1>w, <2>1, WriterUpdates, Zenon
    <3> QED
      BY <1>w, <3>1
  <2> QED
    BY <1>4, <2>2 DEF TypeInv, TypeOK, Writers, Suspend
<1>5. CASE Crash
  <2>1. w' = [w EXCEPT !.closed = TRUE, !.lo = w.hi]
    BY <1>5 DEF Crash
  <2>2. w' \in Writers /\ w'.lo <= w'.hi
    <3>1. w' \in Writers /\ w'.lo = w.hi /\ w'.hi = w.hi
      BY <1>w, <2>1, WriterUpdates, Zenon
    <3> QED
      BY <1>w, <3>1
  <2> QED
    BY <1>5, <2>2 DEF TypeInv, TypeOK, Crash, Request, NoRequest, Requests
<1>6. CASE Resume
  <2>1. CASE upload.st = "open"
    <3>1. upload.received \in Nat
      BY DEF TypeInv, TypeOK
    <3>2. w' = Writer(TRUE, upload.received) /\ broken' = FALSE /\ result' = "none"
          /\ resumes' = resumes + 1
          /\ UNCHANGED <<call, request, reply, tries, size, wire, upload, file>>
      BY <1>6, <2>1 DEF Resume
    <3>3. w' \in Writers /\ w'.lo <= w'.hi
      BY <3>1, <3>2 DEF Writer, Writers
    <3>4. resumes' \in Nat
      BY <3>2 DEF TypeInv, TypeOK
    <3> QED
      BY <3>2, <3>3, <3>4, Zenon DEF TypeInv, TypeOK, Writers
  <2>2. CASE upload.st # "open"
    BY <1>6, <2>2 DEF TypeInv, TypeOK, Resume
  <2> QED
    BY <2>1, <2>2
<1>7. CASE WriteReturns
  BY <1>7 DEF TypeInv, TypeOK, WriteReturns, Return
<1>8. CASE StartSession
  <2>1. CASE Fail /\ UNCHANGED <<w, upload, wire, file>>
    BY <2>1 DEF TypeInv, TypeOK, Fail, Request, NoRequest, Requests
  <2>2. CASE /\ w' = [w EXCEPT !.sess = TRUE] /\ upload' = Session("open", 0, TRUE)
             /\ UNCHANGED <<caller, call, request, reply, tries, wire, file>>
    BY <2>2 DEF TypeInv, TypeOK, Session, caller
  <2> QED
    BY <1>8, <2>1, <2>2 DEF StartSession
<1>9. CASE SendChunk
  <2>1. w' \in [closed: BOOLEAN, sess: BOOLEAN, offset: Nat, lo: Nat, hi: Nat] /\ w'.lo <= w'.hi
    BY <1>9 DEF TypeInv, TypeOK, SendChunk, Buffered
  <2> QED
    BY <1>9, <2>1 DEF TypeInv, TypeOK, SendChunk, Send, caller, Request, Requests
<1>10. CASE SendRest
  <2>1. w' \in [closed: BOOLEAN, sess: BOOLEAN, offset: Nat, lo: Nat, hi: Nat] /\ w'.lo <= w'.hi
    BY <1>10 DEF TypeInv, TypeOK, SendRest
  <2> QED
    BY <1>10 DEF TypeInv, TypeOK, SendRest, Buffered, Send, caller, Request, Requests
<1>11. CASE SendContent
  <2>1. w' \in [closed: BOOLEAN, sess: BOOLEAN, offset: Nat, lo: Nat, hi: Nat] /\ w'.lo <= w'.hi
    BY <1>11 DEF TypeInv, TypeOK, SendContent
  <2> QED
    BY <1>11 DEF TypeInv, TypeOK, SendContent, Buffered, Send, caller, Request,
       Requests
<1>12. CASE CloseReturns
  BY <1>12 DEF TypeInv, TypeOK, CloseReturns, Return
<1>13. CASE Retry
  <2>1. request \in Requests /\ request.kind # "none"
    BY <1>13 DEF TypeInv, TypeOK, Retry
  <2> QED
    BY <1>13 DEF TypeInv, TypeOK, Retry, caller
<1>14. CASE GiveUp
  BY <1>14 DEF TypeInv, TypeOK, GiveUp, Fail, Request, NoRequest, Requests
<1>15. CASE Acknowledge
  <2>1. w' \in [closed: BOOLEAN, sess: BOOLEAN, offset: Nat, lo: Nat, hi: Nat] /\ w'.lo <= w'.hi
    BY <1>15 DEF TypeInv, TypeOK, Acknowledge, Requests
  <2> QED
    BY <1>15 DEF TypeInv, TypeOK, Acknowledge, Settled, Return, caller, Request,
       NoRequest, Requests
<1>16. CASE Complete
  <2> DEFINE o == IF request.kind = "fragment" THEN w.offset + request.len ELSE w.offset
  <2>1. w' = [w EXCEPT !.offset = o, !.lo = w.hi]
    BY <1>16 DEF Complete
  <2>2. o \in Nat
    BY DEF TypeInv, TypeOK, Requests
  <2> HIDE DEF o
  <2>3. w' \in Writers /\ w'.lo <= w'.hi
    <3>1. w' \in Writers /\ w'.lo = w.hi /\ w'.hi = w.hi
      BY <1>w, <2>1, <2>2, WriterUpdates, Zenon
    <3> QED
      BY <1>w, <3>1
  <2> QED
    BY <1>16, <2>3 DEF TypeInv, TypeOK, Writers, Complete, Settled, Return, Request,
       NoRequest, Requests
<1>17. ASSUME NEW r \in wire, Accept(r) PROVE TypeInv'
  <2>1. r.off + r.len \in Nat
    BY DEF TypeInv, TypeOK, Requests
  <2>2. PICK ok \in BOOLEAN :
          \/ upload' = Session("done", r.off + r.len, ok) /\ file' = Content(r.off + r.len, ok)
          \/ upload' = Session("open", r.off + r.len, ok) /\ file' = file
    BY <1>17 DEF Accept
  <2>3. /\ upload' \in [st: {"none", "open", "done"}, received: Nat, intact: BOOLEAN]
        /\ file' \in [len: Nat \cup {Unknown}, intact: BOOLEAN]
    BY <2>1, <2>2 DEF TypeInv, TypeOK, Session, Content
  <2> QED
    BY <1>17, <2>3 DEF TypeInv, TypeOK, Accept, Answer, caller
<1>18. ASSUME NEW r \in wire, AcceptContent(r) PROVE TypeInv'
  BY <1>18 DEF TypeInv, TypeOK, AcceptContent, Answer, caller, Content, Requests
<1>19. ASSUME NEW r \in wire, Refuse(r) PROVE TypeInv'
  BY <1>19 DEF TypeInv, TypeOK, Refuse, Answer, caller
<1>20. ASSUME NEW r \in wire, Lose(r) PROVE TypeInv'
  BY <1>20 DEF TypeInv, TypeOK, Lose, caller, writer
<1>21. CASE UNCHANGED vars
  BY <1>21 DEF TypeInv, TypeOK, vars, writer, caller
<1>22. CASE Network
  BY <1>17, <1>18, <1>19, <1>20, <1>22 DEF Network
<1>23. CASE InMethod
  BY <1>7, <1>8, <1>9, <1>10, <1>11, <1>12, <1>13, <1>14, <1>15, <1>16, <1>23 DEF
     InMethod
<1>24. CASE Caller
  BY <1>1, <1>2, <1>3, <1>4, <1>5, <1>6, <1>24 DEF Caller
<1> QED
  BY <1>21, <1>22, <1>23, <1>24 DEF Next

\* Every step keeps the inductive invariant.
LEMMA InvStep ==
  ASSUME UploadInv, [Next]_vars, ~CloseAfterError
  PROVE  UploadInv'
<1>1. TypeOK'
  BY TypeStep DEF UploadInv, RequestInv, TypeInv
<1> USE UploadAssumption, <1>1 DEF Unknown, Content, NoFile, Whole, Request, NoRequest
<1>2. CASE \E n \in 1 .. MaxSize : Write(n)
  <2>1. BufferInv'
    BY <1>2 DEF UploadInv, BufferInv, Write, caller
  <2>2. CallInv'
    BY <1>2 DEF UploadInv, CallInv, Write, Running, caller
  <2>3. RequestInv'
    BY <1>2 DEF RequestInv, Write, Running, Sound
  <2> QED
    BY <1>2, <2>1, <2>2, <2>3 DEF UploadInv, WireInv, SessionInv, ReplyInv, ResultInv,
       CommittedIsWhole, Write, caller, Sound
<1>3. CASE SourceFails
  <2>1. BufferInv'
    BY <1>3 DEF TypeOK, BufferInv, SourceFails, writer
  <2>2. CallInv'
    BY <1>3 DEF UploadInv, CallInv, SourceFails, Running, writer
  <2> QED
    BY <1>3, <2>1, <2>2 DEF UploadInv, WireInv, SessionInv, RequestInv, ReplyInv,
       ResultInv, CommittedIsWhole, SourceFails, writer, Sound
<1>4. CASE Close
  <2>1. CallInv'
    BY <1>4 DEF UploadInv, CallInv, Close, caller
  <2>2. RequestInv'
    BY <1>4 DEF RequestInv, Close, Running, Sound
  <2> QED
    BY <1>4, <2>1, <2>2 DEF UploadInv, WireInv, SessionInv, BufferInv, ReplyInv,
       ResultInv, CommittedIsWhole, Close, caller, Sound
<1>5. CASE Suspend
  <2>1. BufferInv'
    BY <1>5 DEF UploadInv, BufferInv, Suspend
  <2>2. CallInv'
    BY <1>5 DEF CallInv, Suspend, Running
  <2> QED
    BY <1>5, <2>1, <2>2 DEF UploadInv, WireInv, SessionInv, RequestInv, ReplyInv,
       ResultInv, CommittedIsWhole, Suspend, Sound
<1>6. CASE Crash
  <2>1. BufferInv'
    BY <1>6 DEF UploadInv, BufferInv, Crash
  <2>2. CallInv'
    BY <1>6 DEF CallInv, Crash
  <2>3. RequestInv'
    BY <1>6 DEF RequestInv, Crash, Sound
  <2>4. ReplyInv'
    BY <1>6 DEF ReplyInv, Crash
  <2> QED
    BY <1>6, <2>1, <2>2, <2>3, <2>4 DEF UploadInv, WireInv, SessionInv, ResultInv,
       CommittedIsWhole, Crash, Sound
<1>7. CASE Resume
  <2>1. \/ w' = Writer(TRUE, upload.received) /\ upload.st = "open" /\ broken' = FALSE /\ result' = "none"
        \/ result' = "failed" /\ UNCHANGED <<w, broken>>
    BY <1>7 DEF Resume
  <2>2. /\ w'.sess /\ w.sess
        /\ result' = "none" => /\ upload.st = "open" /\ w'.offset = upload.received
                               /\ w'.lo = upload.received /\ w'.hi = upload.received
    BY <1>7 DEF Resume, Writer
  <2>3. SessionInv'
    BY <1>7, <2>2 DEF UploadInv, TypeOK, SessionInv, Resume
  <2>4. BufferInv'
    BY <1>7 DEF UploadInv, TypeOK, BufferInv, CallInv, SessionInv, Resume, Writer
  <2>5. CallInv'
    BY <1>7 DEF UploadInv, CallInv, Resume
  <2> QED
    <3>1. request.kind = "none"
      BY <1>7 DEF UploadInv, CallInv, Resume
    <3> QED
      BY <1>7, <2>2, <2>3, <2>4, <2>5, <3>1 DEF UploadInv, WireInv, RequestInv,
         ReplyInv, ResultInv, CommittedIsWhole, Resume, Sound
<1>8. CASE WriteReturns
  <2>1. CallInv'
    BY <1>8 DEF UploadInv, CallInv, WriteReturns, Running, Return
  <2>2. RequestInv'
    BY <1>8 DEF RequestInv, WriteReturns, Running, Sound
  <2> QED
    BY <1>8, <2>1, <2>2 DEF UploadInv, WireInv, SessionInv, BufferInv, ReplyInv,
       ResultInv, CommittedIsWhole, WriteReturns, Running, Return, Sound
<1>9. CASE StartSession
  <2>1. WireInv'
    BY <1>9 DEF UploadInv, WireInv, StartSession, Fail, caller, Sound
  <2>2. SessionInv'
    BY <1>9 DEF UploadInv, TypeOK, SessionInv, BufferInv, StartSession, Buffered,
       Simple, caller, Session
  <2>3. BufferInv'
    BY <1>9 DEF UploadInv, TypeOK, BufferInv, StartSession, Running, Fail, caller,
       Session
  <2>4. CallInv'
    BY <1>9 DEF UploadInv, TypeOK, CallInv, StartSession, Fail, caller, Session
  <2>5. RequestInv'
    BY <1>9 DEF RequestInv, StartSession, Running, Fail, Session, Sound
  <2>6. ReplyInv'
    BY <1>9 DEF UploadInv, ReplyInv, SessionInv, StartSession, Fail, caller, Session
  <2> QED
    BY <1>9, <2>1, <2>2, <2>3, <2>4, <2>5, <2>6 DEF UploadInv, ResultInv,
       CommittedIsWhole, StartSession, Fail, caller
<1>10. CASE SendChunk
  <2>1. WireInv'
    BY <1>10 DEF UploadInv, TypeOK, WireInv, BufferInv, CallInv, SendChunk, Running,
       Send, caller, Sound
  <2>2. BufferInv'
    BY <1>10 DEF UploadInv, TypeOK, BufferInv, SendChunk, Running, Send, caller
  <2>3. CallInv'
    BY <1>10 DEF UploadInv, CallInv, SendChunk, Running, caller
  <2>4. RequestInv'
    BY <1>10 DEF UploadInv, TypeOK, RequestInv, BufferInv, CallInv, SendChunk, Running,
       Send, caller, Sound
  <2>5. ReplyInv'
    BY <1>10 DEF UploadInv, ReplyInv, SendChunk, Running
  <2> QED
    BY <1>10, <2>1, <2>2, <2>3, <2>4, <2>5 DEF UploadInv, SessionInv, ResultInv,
       CommittedIsWhole, SendChunk, caller
<1>11. CASE SendRest
  <2>1. WireInv'
    BY <1>11 DEF UploadInv, TypeOK, WireInv, BufferInv, CallInv, SendRest, Running,
       Buffered, Send, caller, Sound
  <2>2. BufferInv'
    BY <1>11 DEF UploadInv, TypeOK, BufferInv, SendRest, Running, Buffered, Send,
       caller
  <2>3. CallInv'
    BY <1>11 DEF UploadInv, CallInv, SendRest, Running, caller
  <2>4. RequestInv'
    BY <1>11 DEF UploadInv, TypeOK, RequestInv, BufferInv, CallInv, SendRest, Running,
       Buffered, Send, caller, Sound
  <2>5. ReplyInv'
    BY <1>11 DEF UploadInv, ReplyInv, SendRest, Running
  <2> QED
    BY <1>11, <2>1, <2>2, <2>3, <2>4, <2>5 DEF UploadInv, SessionInv, ResultInv,
       CommittedIsWhole, SendRest, caller
<1>12. CASE SendContent
  <2>1. WireInv'
    BY <1>12 DEF UploadInv, TypeOK, WireInv, SessionInv, BufferInv, CallInv,
       SendContent, Running, Buffered, Simple, Send, caller, Sound
  <2>2. BufferInv'
    BY <1>12 DEF UploadInv, TypeOK, BufferInv, SendContent, Running, Buffered, Send,
       caller
  <2>3. CallInv'
    BY <1>12 DEF UploadInv, CallInv, SendContent, Running, caller
  <2>4. RequestInv'
    BY <1>12 DEF UploadInv, TypeOK, RequestInv, SessionInv, BufferInv, CallInv,
       SendContent, Running, Buffered, Simple, Send, caller, Sound
  <2>5. ReplyInv'
    BY <1>12 DEF UploadInv, ReplyInv, SendContent, Running
  <2> QED
    BY <1>12, <2>1, <2>2, <2>3, <2>4, <2>5 DEF UploadInv, SessionInv, ResultInv,
       CommittedIsWhole, SendContent, caller
<1>13. CASE CloseReturns
  <2>1. CallInv'
    BY <1>13 DEF UploadInv, CallInv, CloseReturns, Running, Return
  <2>2. RequestInv'
    BY <1>13 DEF RequestInv, CloseReturns, Running, Sound
  <2>3. ResultInv'
    BY <1>13 DEF UploadInv, TypeOK, ResultInv, SessionInv, BufferInv, CallInv,
       CloseReturns, Running, Buffered, Return
  <2> QED
    BY <1>13, <2>1, <2>2, <2>3 DEF UploadInv, WireInv, SessionInv, BufferInv, ReplyInv,
       CommittedIsWhole, CloseReturns, Return, Sound
<1>14. CASE Retry
  <2>1. WireInv'
    BY <1>14 DEF UploadInv, WireInv, RequestInv, Retry, caller, Sound
  <2>2. ReplyInv'
    BY <1>14 DEF ReplyInv, Retry
  <2> QED
    BY <1>14, <2>1, <2>2 DEF UploadInv, SessionInv, BufferInv, CallInv, RequestInv,
       ResultInv, CommittedIsWhole, Retry, caller, Sound
<1>15. CASE GiveUp
  <2>1. BufferInv'
    BY <1>15 DEF UploadInv, TypeOK, BufferInv, CallInv, GiveUp, Fail
  <2>2. CallInv'
    BY <1>15 DEF UploadInv, CallInv, GiveUp, Fail
  <2>3. RequestInv'
    BY <1>15 DEF RequestInv, GiveUp, Fail, Sound
  <2>4. ReplyInv'
    BY <1>15 DEF ReplyInv, GiveUp, Fail
  <2>5. ResultInv'
    BY <1>15 DEF UploadInv, ResultInv, GiveUp, Fail
  <2> QED
    BY <1>15, <2>1, <2>2, <2>3, <2>4, <2>5 DEF UploadInv, WireInv, SessionInv,
       CommittedIsWhole, GiveUp, Fail, Sound
<1>16. CASE Acknowledge
  <2>1. call = "write" /\ request.kind = "fragment"
    BY <1>16 DEF UploadInv, TypeOK, RequestInv, ReplyInv, CallInv, Acknowledge
  <2>2. /\ w' = [w EXCEPT !.offset = @ + request.len] /\ Settled
        /\ UNCHANGED <<caller, call, wire, upload, file>>
    BY <1>16, <2>1 DEF Acknowledge
  <2>3. SessionInv'
    BY <1>16 DEF UploadInv, SessionInv, RequestInv, ReplyInv, Acknowledge, caller
  <2>4. BufferInv'
    BY <2>1, <2>2 DEF UploadInv, TypeOK, BufferInv, Settled, caller
  <2>5. CallInv'
    BY <2>1, <2>2 DEF UploadInv, CallInv, caller
  <2>6. RequestInv'
    BY <2>2 DEF RequestInv, Settled, Sound
  <2>7. ReplyInv'
    BY <2>2 DEF ReplyInv, Settled
  <2> QED
    BY <2>2, <2>3, <2>4, <2>5, <2>6, <2>7 DEF UploadInv, WireInv, ResultInv,
       CommittedIsWhole, caller, Sound
<1>17. CASE Complete
  <2>1. /\ w'.lo = w.hi /\ w'.hi = w.hi /\ w'.sess = w.sess /\ w'.closed = w.closed
        /\ w'.offset = IF request.kind = "fragment" THEN w.offset + request.len ELSE w.offset
    BY <1>17 DEF Complete
  <2>2. SessionInv'
    BY <1>17 DEF UploadInv, SessionInv, RequestInv, ReplyInv, Complete, Return
  <2>3. BufferInv'
    <3>1. call = "close" => result' = "ok"
      BY <1>17 DEF Complete, Return
    <3>2. size' = size /\ broken' = broken /\ request' = NoRequest
      BY <1>17 DEF Complete, Return, Settled
    <3>3. call = "write" => request.kind = "fragment" /\ w.offset + request.len = size
      BY <1>17 DEF UploadInv, TypeOK, RequestInv, ReplyInv, Complete, Requests
    <3>4. call \in {"write", "close"}
      BY <1>17 DEF UploadInv, TypeOK, CallInv, ReplyInv, Complete
    <3> QED
      BY <2>1, <3>1, <3>2, <3>3, <3>4 DEF UploadInv, TypeOK, BufferInv, CallInv
  <2>4. CallInv'
    BY <1>17 DEF UploadInv, CallInv, Complete, Settled, Return
  <2>5. RequestInv'
    BY <1>17 DEF RequestInv, Complete, Settled, Sound
  <2>6. ReplyInv'
    BY <1>17 DEF ReplyInv, Complete, Settled
  <2>7. ResultInv'
    BY <1>17 DEF UploadInv, ResultInv, ReplyInv, Complete, Return
  <2> QED
    BY <1>17, <2>2, <2>3, <2>4, <2>5, <2>6, <2>7 DEF UploadInv, WireInv,
       CommittedIsWhole, Complete, Return, Sound
<1>18. ASSUME NEW r \in wire, Accept(r) PROVE UploadInv'
  <2>1. size' = size /\ w' = w /\ result' = result /\ call' = call /\ request' = request
    BY <1>18 DEF Accept, Answer, caller
  <2>2. r.lo = r.off /\ r.off = upload.received /\ upload.st = "open" /\ r.off + r.len <= size
        /\ r.total \in {Unknown, size} /\ (Declared => r.total = size)
    BY <1>18 DEF UploadInv, WireInv, Sound, Accept, Fits
  <2>3. (upload.intact /\ r.lo = r.off) = TRUE
    BY <2>2 DEF UploadInv, SessionInv
  <2>4. r.off + r.len = r.total => r.total = size
    BY <2>2 DEF UploadInv, TypeOK, Requests
  <2>5. \/ /\ upload' = Session("done", size, TRUE) /\ file' = Whole' /\ r.off + r.len = size
        \/ /\ upload' = Session("open", r.off + r.len, TRUE) /\ file' = file /\ r.off + r.len # r.total
    BY <1>18, <2>1, <2>3, <2>4 DEF Accept
  <2>6. WireInv'
    BY <1>18, <2>1 DEF UploadInv, WireInv, Accept, Answer, Sound
  <2>7. SessionInv'
    BY <2>1, <2>2, <2>5 DEF UploadInv, TypeOK, SessionInv, Session, Requests
  <2>8. ReplyInv'
    BY <1>18, <2>1, <2>2, <2>5 DEF UploadInv, TypeOK, ReplyInv, Accept, Answer,
       Session, Requests
  <2>9. ResultInv'
    BY <2>1, <2>5 DEF UploadInv, ResultInv
  <2>10. CommittedIsWhole'
    BY <2>1, <2>5 DEF UploadInv, CommittedIsWhole
  <2> QED
    BY <1>18, <2>6, <2>7, <2>8, <2>9, <2>10 DEF UploadInv, BufferInv, CallInv,
       RequestInv, Accept, Answer, caller, Sound
<1>19. ASSUME NEW r \in wire, AcceptContent(r) PROVE UploadInv'
  <2>1. size' = size /\ r.len = size
    BY <1>19 DEF UploadInv, WireInv, Sound, AcceptContent, Answer, caller
  <2>2. file' = Whole'
    BY <1>19, <2>1 DEF AcceptContent
  <2>3. WireInv'
    BY <1>19, <2>2 DEF UploadInv, WireInv, AcceptContent, Answer, Sound
  <2>4. SessionInv'
    BY <1>19, <2>1 DEF UploadInv, SessionInv, AcceptContent, Answer
  <2>5. ReplyInv'
    BY <1>19, <2>1 DEF UploadInv, ReplyInv, AcceptContent, Answer
  <2>6. ResultInv'
    BY <2>2 DEF ResultInv
  <2>7. CommittedIsWhole'
    BY <2>2 DEF CommittedIsWhole
  <2> QED
    BY <1>19, <2>3, <2>4, <2>5, <2>6, <2>7 DEF UploadInv, BufferInv, CallInv,
       RequestInv, AcceptContent, Answer, caller, Sound
<1>20. ASSUME NEW r \in wire, Refuse(r) PROVE UploadInv'
  <2>1. WireInv'
    BY <1>20 DEF UploadInv, WireInv, Refuse, Answer, caller, Sound
  <2>2. ReplyInv'
    BY <1>20 DEF UploadInv, TypeOK, ReplyInv, Refuse, Answer, caller
  <2> QED
    BY <1>20, <2>1, <2>2 DEF UploadInv, SessionInv, BufferInv, CallInv, RequestInv,
       ResultInv, CommittedIsWhole, Refuse, Answer, caller, Sound
<1>21. ASSUME NEW r \in wire, Lose(r) PROVE UploadInv'
  <2>1. WireInv'
    BY <1>21 DEF UploadInv, WireInv, Lose, caller, writer, Sound
  <2> QED
    BY <1>21, <2>1 DEF UploadInv, SessionInv, BufferInv, CallInv, RequestInv, ReplyInv,
       ResultInv, CommittedIsWhole, Lose, caller, writer, Sound
<1>22. CASE UNCHANGED vars
  BY <1>22 DEF UploadInv, WireInv, SessionInv, BufferInv, CallInv, RequestInv,
     ReplyInv, ResultInv, CommittedIsWhole, Sound, vars, writer, caller
<1> QED BY <1>2, <1>3, <1>4, <1>5, <1>6, <1>7, <1>8, <1>9, <1>10, <1>11, <1>12, <1>13,
   <1>14, <1>15, <1>16, <1>17, <1>18, <1>19, <1>20, <1>21, <1>22 DEF Next, InMethod,
   Caller, Network

\* The invariant holds at the start: there is no session, and nothing on the wire.
LEMMA TypeInit == Init => TypeInv
<1> SUFFICES ASSUME Init PROVE TypeInv
  OBVIOUS
<1>1. size \in Nat
  BY UploadAssumption DEF Init
<1>2. request \in Requests
  BY DEF Init, NoRequest, Request, Requests
<1>3. w \in Writers /\ w.lo <= w.hi
  BY DEF Init, Writer, Writers
<1>4. upload \in [st: {"none", "open", "done"}, received: Nat, intact: BOOLEAN]
  BY DEF Init, Session
<1>5. file \in [len: Nat \cup {Unknown}, intact: BOOLEAN]
  BY DEF Init, NoFile, Content
<1> QED
  BY <1>1, <1>2, <1>3, <1>4, <1>5 DEF Init, TypeInv, TypeOK, Writers

\* A writer that has not been opened satisfies it,
LEMMA InvInit == Init => UploadInv
<1> SUFFICES ASSUME Init PROVE UploadInv
  OBVIOUS
<1> USE UploadAssumption DEF Init, Unknown, Content, NoFile, Whole, Request, NoRequest, Session, Writer
<1>1. TypeOK
  BY TypeInit DEF TypeInv
<1>2. WireInv /\ SessionInv /\ BufferInv /\ CallInv
  BY DEF WireInv, SessionInv, BufferInv, CallInv
<1>3. RequestInv /\ ReplyInv /\ ResultInv /\ CommittedIsWhole
  BY DEF RequestInv, ReplyInv, ResultInv, CommittedIsWhole, Sound
<1> QED
  BY <1>1, <1>2, <1>3 DEF UploadInv

\* so every reachable state does.
LEMMA InvHolds ==
  ASSUME ~CloseAfterError
  PROVE  Spec => []UploadInv
<1>1. UploadInv /\ [Next]_vars => UploadInv'
  BY InvStep
<1> QED
  BY <1>1, InvInit, PTL DEF Spec

\* Every variable keeps its type, also when the caller closes after an error.
THEOREM WriterIsTyped == Spec => []TypeOK
<1>1. TypeInv => TypeOK
  BY DEF TypeInv
<1>2. TypeInv /\ [Next]_vars => TypeInv'
  BY TypeStep
<1> QED
  BY <1>1, <1>2, TypeInit, PTL DEF Spec

\* The destination is whole or absent, whatever fails and whichever timed-out
\* request arrives late.
THEOREM CommittedFilesAreWhole ==
  ASSUME ~CloseAfterError
  PROVE  Spec => []CommittedIsWhole
<1>1. UploadInv => CommittedIsWhole
  BY DEF UploadInv
<1> QED
  BY <1>1, InvHolds, PTL

\* The session holds a prefix of the source and the writer counts no byte that
\* the session does not have.
THEOREM SessionsArePrefixes ==
  ASSUME ~CloseAfterError
  PROVE  Spec => []SessionIsPrefix
<1>1. UploadInv => SessionIsPrefix
  BY DEF UploadInv, SessionInv, SessionIsPrefix
<1> QED
  BY <1>1, InvHolds, PTL

\* What a step can do to the file and to the result, whichever action it is.
FileKept == size' = size /\ file' = file
FileMade == size' = size /\ file' = Whole' /\ result' = result

ResultMoves ==
  \/ result' = result
  \/ result = "none" /\ result' \in {"ok", "failed", "suspended"}
  \/ result = "suspended" /\ result' \in {"none", "failed"}

\* A step either makes the file, or keeps the file while the call's result moves
\* on; these are the steps of AtomicUpload.
LEMMA StepKinds ==
  ASSUME UploadInv, UploadInv', [Next]_vars
  PROVE  FileMade \/ (FileKept /\ ResultMoves)
<1> USE DEF FileKept, ResultMoves
<1>1. CASE \E n \in 1 .. MaxSize : Write(n)
  BY <1>1 DEF Write, caller
<1>2. CASE SourceFails
  BY <1>2 DEF SourceFails
<1>3. CASE Close
  BY <1>3 DEF Close, caller
<1>4. CASE Suspend
  BY <1>4 DEF Suspend, UploadInv, CallInv
<1>5. CASE Crash
  BY <1>5 DEF Crash
<1>6. CASE Resume
  BY <1>6 DEF Resume
<1>7. CASE WriteReturns
  BY <1>7 DEF WriteReturns, Return, Running
<1>8. CASE StartSession
  BY <1>8 DEF StartSession, Fail, caller, UploadInv, CallInv
<1>9. CASE SendChunk
  BY <1>9 DEF SendChunk, caller
<1>10. CASE SendRest
  BY <1>10 DEF SendRest, caller
<1>11. CASE SendContent
  BY <1>11 DEF SendContent, caller
<1>12. CASE CloseReturns
  BY <1>12 DEF CloseReturns, Return, UploadInv, CallInv
<1>13. CASE Retry
  BY <1>13 DEF Retry, caller
<1>14. CASE GiveUp
  BY <1>14 DEF GiveUp, Fail, UploadInv, CallInv
<1>15. CASE Acknowledge
  BY <1>15 DEF Acknowledge, Return, caller, UploadInv, CallInv
<1>16. CASE Complete
  BY <1>16 DEF Complete, Return, UploadInv, CallInv
<1>17. ASSUME NEW r \in wire, Accept(r) PROVE FileMade \/ (FileKept /\ ResultMoves)
  <2>1. size' = size /\ result' = result
    BY <1>17 DEF Accept, Answer, caller
  <2>2. r.off + r.len \in Nat
    BY DEF UploadInv, TypeOK, Requests
  <2>3. file' = file \/ \E ok : file' = Content(r.off + r.len, ok)
    BY <1>17 DEF Accept
  <2>4. file' = file \/ file' # NoFile
    BY <2>2, <2>3 DEF NoFile, Content, Unknown
  <2> QED
    BY <2>1, <2>4 DEF UploadInv, CommittedIsWhole, FileMade
<1>18. ASSUME NEW r \in wire, AcceptContent(r) PROVE FileMade
  <2>1. r.len \in Nat
    BY DEF UploadInv, TypeOK, Requests
  <2>2. file' # NoFile
    BY <1>18, <2>1 DEF AcceptContent, NoFile, Content, Unknown
  <2> QED
    BY <1>18, <2>2 DEF AcceptContent, Answer, caller, UploadInv, CommittedIsWhole,
       FileMade
<1>19. ASSUME NEW r \in wire, Refuse(r) \/ Lose(r) PROVE FileKept /\ ResultMoves
  BY <1>19 DEF Refuse, Lose, Answer, caller
<1>20. CASE UNCHANGED vars
  BY <1>20 DEF vars, caller
<1> HIDE DEF FileKept, ResultMoves
<1>21. CASE Network
  BY <1>17, <1>18, <1>19, <1>21 DEF Network
<1>22. CASE InMethod
  BY <1>7, <1>8, <1>9, <1>10, <1>11, <1>12, <1>13, <1>14, <1>15, <1>16, <1>22 DEF
     InMethod
<1>23. CASE Caller
  BY <1>1, <1>2, <1>3, <1>4, <1>5, <1>6, <1>23 DEF Caller
<1> QED
  BY <1>20, <1>21, <1>22, <1>23 DEF Next

\* Every step is a step of AtomicUpload or leaves file and report as they are.
LEMMA StepRefines ==
  ASSUME UploadInv, UploadInv', [Next]_vars, Declared
  PROVE  [Atomic!Next]_Atomic!uploadVars
<1> USE DEF Atomic!Next, Atomic!uploadVars
<1>1. FileMade \/ (FileKept /\ ResultMoves)
  BY StepKinds
<1>2. CASE FileMade
  BY <1>2 DEF FileMade, Atomic!Store
<1>3. CASE FileKept /\ result' = result
  BY <1>3 DEF FileKept, Whole
<1>4. CASE FileKept /\ result = "none" /\ result' = "ok"
  BY <1>4 DEF FileKept, Whole, Atomic!ReportOk, UploadInv, ResultInv
<1>5. CASE FileKept /\ result = "none" /\ result' \in {"failed", "suspended"}
  BY <1>5 DEF FileKept, Whole, Atomic!ReportFailure
<1>6. CASE FileKept /\ result = "suspended" /\ result' = "none"
  BY <1>6 DEF FileKept, Whole
<1>7. CASE FileKept /\ result = "suspended" /\ result' = "failed"
  BY <1>7 DEF FileKept, Whole
<1> QED
  BY <1>1, <1>2, <1>3, <1>4, <1>5, <1>6, <1>7 DEF ResultMoves

\* A writer whose size is declared implements AtomicUpload: the file appears at
\* once and whole, and a Close that reports success has made it appear.
THEOREM UploadIsAtomic ==
  ASSUME Declared, ~CloseAfterError
  PROVE  Spec => ImplementsAtomicUpload
<1>1. Init => Atomic!Init
  BY DEF Init, Atomic!Init, Whole, NoFile, Content, Unknown
<1>2. UploadInv /\ UploadInv' /\ [Next]_vars => [Atomic!Next]_Atomic!uploadVars
  BY StepRefines
<1> QED
  BY <1>1, <1>2, InvHolds, PTL DEF Spec, ImplementsAtomicUpload, Atomic!UploadSpec
=============================================================================
