-------------------------- MODULE BlobUploadsProofs --------------------------
(***************************************************************************)
(* Proofs about BlobUploads: type correctness, the integrity of blobs, and *)
(* that the uploads implement ContentStore.                                *)
(***************************************************************************)
EXTENDS BlobUploads, SequenceTheorems, TLAPS

-----------------------------------------------------------------------------
(* The shape of a request: which fields each program point may rely on.    *)

Writing == {"open", "copy", "hash", "remove", "rename", "rmdir", "link",
            "linkwrite"}

Committing == {"hash", "remove", "rename", "rmdir", "link", "linkwrite"}

Reading == {"getlink", "getblob", "send"}

ShapeOf(r) ==
    /\ r.pc = "idle" => r.up = None
    /\ r.pc \in Writing => r.up \in UUIDs
    /\ r.pc \in Committing => r.repo \in Repos /\ r.dig \in Digests
    /\ r.pc \in Reading => r.up = None /\ r.dig \in Digests
    /\ r.pc \in {"open", "copy"} /\ r.op # "patch" =>
            r.repo \in Repos /\ r.dig \in Digests
    /\ r.pc = "copy" => r.off \in Nat
    /\ r.pc = "send" => r.src \in UUIDs
    /\ r.op = "mount" => r.repo \in Repos

Shape == \A p \in Procs : ShapeOf(req[p])

Typed == TypeOK /\ Shape

-----------------------------------------------------------------------------
(* Type correctness.                                                       *)

\* A write keeps a file a sequence of bytes, holes included.
LEMMA WriteAtType ==
    ASSUME NEW s \in Seq(Bytes), NEW off \in Nat, NEW b \in Bytes
    PROVE  WriteAt(s, off, b) \in Seq(Bytes)
<1> DEFINE n == IF off + 1 > Len(s) THEN off + 1 ELSE Len(s)
<1>1. n \in Nat
  OBVIOUS
<1>2. \A i \in 1 .. n :
        (IF i = off + 1 THEN b ELSE IF i <= Len(s) THEN s[i] ELSE Zero) \in Bytes
  BY UploadConstants
<1>3. WriteAt(s, off, b) \in [1 .. n -> Bytes]
  BY <1>2 DEF WriteAt
<1> QED
  BY <1>1, <1>3, SeqDef

\* The record of a goroutine that serves nothing.
LEMMA IdleType == Idle \in Request /\ ShapeOf(Idle) /\ Idle.up = None
BY UploadConstants DEF Idle, Request, PCs, ShapeOf, Writing, Committing, Reading

\* One goroutine moves to a well-shaped record; the others keep theirs.
LEMMA RequestStep ==
    ASSUME req \in [Procs -> Request], Shape,
           NEW p \in Procs, NEW r \in Request, ShapeOf(r),
           req' = [req EXCEPT ![p] = r]
    PROVE  req' \in [Procs -> Request] /\ Shape'
BY DEF Shape

LEMMA FinishType ==
    ASSUME req \in [Procs -> Request], Shape, NEW p \in Procs, Finish(p)
    PROVE  req' \in [Procs -> Request] /\ Shape'
BY IdleType, RequestStep DEF Finish

\* The steps between commit points keep the shape of their record.
LEMMA GotoType ==
    ASSUME req \in [Procs -> Request], Shape, NEW p \in Procs,
           NEW pc \in Committing, Goto(p, pc),
           \/ req[p].pc \in Committing
           \/ req[p].pc = "copy" /\ req[p].op # "patch"
    PROVE  req' \in [Procs -> Request] /\ Shape'
<1> DEFINE r == [req[p] EXCEPT !.pc = pc]
<1>1. req[p] \in Request /\ ShapeOf(req[p])
  BY DEF Shape
<1>2. r \in Request
  BY <1>1 DEF Request, PCs, Committing
<1>3. ShapeOf(r)
  BY <1>1 DEF ShapeOf, Request, PCs, Committing, Writing, Reading
<1>4. req' = [req EXCEPT ![p] = r]
  BY DEF Goto
<1> QED
  BY <1>2, <1>3, <1>4, RequestStep

\* A step that opens a session for a client.
LEMMA OpenType ==
    ASSUME TypeOK, NEW r \in Repos, Open(r)
    PROVE  /\ session' \in [UUIDs -> Repos \union {None}]
           /\ updir' \in [UUIDs -> {"unused", "data", "empty", "absent"}]
BY DEF TypeOK, Open, Create

LEMMA TypeStep == Typed /\ [Next]_vars => Typed'
<1> SUFFICES ASSUME Typed, [Next]_vars PROVE Typed'
  OBVIOUS
<1> USE DEF Typed
<1>1. ASSUME NEW r \in Repos, PostThenPut(r) PROVE Typed'
  BY <1>1, OpenType DEF PostThenPut, TypeOK, Shape
<1>2. ASSUME NEW u \in UUIDs, Cancel(u) PROVE Typed'
  BY <1>2 DEF Cancel, TypeOK, Shape
<1>3. ASSUME NEW x \in Layers, DeleteLayer(x) PROVE Typed'
  <2>1. req' \in [Procs -> Request] /\ Shape'
    BY <1>3, IdleType DEF DeleteLayer, TypeOK, Shape
  <2> QED
    BY <1>3, <2>1 DEF DeleteLayer, TypeOK
<1>4. ASSUME NEW p \in Procs, Arrive(p) PROVE Typed'
  <2>1. ASSUME NEW r \in Repos, NEW d \in Digests, NEW b \in Bodies,
               PostSingle(p, r, d, b)
        PROVE  Typed'
    <3>1. PICK u \in UUIDs :
            /\ Create(u)
            /\ req' = [req EXCEPT ![p] =
                 [Idle EXCEPT !.pc = "open", !.op = "single", !.repo = r,
                              !.up = u, !.dig = d, !.off = 0, !.body = b]]
      BY <2>1 DEF PostSingle, Begin
    <3> DEFINE q == [Idle EXCEPT !.pc = "open", !.op = "single", !.repo = r,
                              !.up = u, !.dig = d, !.off = 0, !.body = b]
    <3>2. q \in Request /\ ShapeOf(q)
      <4>1. b \in Seq(Bytes)
        BY UploadConstants
      <4>2. q \in Request
        BY <4>1, IdleType DEF Request, PCs
      <4>3. ShapeOf(q)
        BY IdleType DEF Idle, ShapeOf, Writing, Committing, Reading
      <4> QED
        BY <4>2, <4>3
    <3>3. req' \in [Procs -> Request] /\ Shape'
      BY <3>1, <3>2, RequestStep DEF TypeOK
    <3> QED
      BY <2>1, <3>1, <3>3 DEF PostSingle, Create, TypeOK
  <2>2. ASSUME NEW u \in UUIDs, NEW s \in Starts, NEW b \in Bodies,
               Patch(p, u, s, b)
        PROVE  Typed'
    <3> DEFINE q == [Idle EXCEPT !.pc = "open", !.op = "patch", !.up = u,
                             !.repo = session[u], !.off = s, !.body = b]
    <3>1. q \in Request /\ ShapeOf(q)
      <4>1. /\ b \in Seq(Bytes)
            /\ s \in Nat \union {-1}
            /\ session[u] \in Repos \union {None}
            /\ "open" \in PCs
        BY UploadConstants DEF Starts, TypeOK, PCs
      <4>2. q \in Request
        BY ONLY <4>1, IdleType DEF Request
      <4>3. ShapeOf(q)
        BY IdleType DEF Idle, ShapeOf, Writing, Committing, Reading
      <4> QED
        BY <4>2, <4>3
    <3>2. req' \in [Procs -> Request] /\ Shape'
      BY <2>2, <3>1, RequestStep DEF TypeOK, Patch, Begin
    <3> QED
      BY <2>2, <3>2 DEF Patch, TypeOK
  <2>3. ASSUME NEW u \in UUIDs, NEW d \in Digests, NEW s \in Starts,
               NEW b \in Bodies, Put(p, u, d, s, b)
        PROVE  Typed'
    <3> DEFINE pc == IF b = <<>> THEN "hash" ELSE "open"
               q == [Idle EXCEPT !.pc = pc,
                             !.op = "put", !.repo = session[u], !.up = u,
                             !.dig = d, !.off = s, !.body = b]
    <3>0. session[u] \in Repos
      BY <2>3 DEF Put, MayUse, TypeOK
    <3>1. q \in Request /\ ShapeOf(q)
      <4>1. b \in Seq(Bytes) /\ s \in Nat \union {-1}
        BY UploadConstants DEF Starts
      <4>0. pc \in {"hash", "open"}
        OBVIOUS
      <4> HIDE DEF pc
      <4>5. pc \in PCs
        BY <4>0 DEF PCs
      <4>2. q \in Request
        BY ONLY <3>0, <4>1, <4>5, IdleType DEF Request
      <4>3. ShapeOf(q)
        BY <3>0, <4>0, IdleType DEF Idle, ShapeOf, Writing, Committing, Reading
      <4> QED
        BY <4>2, <4>3
    <3>2. req' \in [Procs -> Request] /\ Shape'
      BY <2>3, <3>1, RequestStep DEF TypeOK, Put, Begin
    <3> QED
      BY <2>3, <3>2 DEF Put, TypeOK
  <2>4. ASSUME NEW r \in Repos, NEW d \in Digests, Get(p, r, d) PROVE Typed'
    <3> DEFINE q == [Idle EXCEPT !.pc = "getlink", !.op = "get", !.from = r,
                             !.dig = d]
    <3>1. q \in Request /\ ShapeOf(q)
      <4>1. q \in Request
        BY IdleType, ZenonT(60) DEF Request, PCs
      <4>2. ShapeOf(q)
        BY IdleType DEF Idle, ShapeOf, Writing, Committing, Reading
      <4> QED
        BY <4>1, <4>2
    <3>2. req' \in [Procs -> Request] /\ Shape'
      BY <2>4, <3>1, RequestStep DEF TypeOK, Get, Begin
    <3> QED
      BY <2>4, <3>2 DEF Get, TypeOK
  <2>5. ASSUME NEW r \in Repos, NEW f \in Repos \union {None}, NEW d \in Digests,
               Mount(p, r, f, d)
        PROVE  Typed'
    <3> DEFINE q == [Idle EXCEPT !.pc = "getlink", !.op = "mount", !.repo = r,
                             !.from = f, !.dig = d]
    <3>1. q \in Request /\ ShapeOf(q)
      <4>1. q \in Request
        BY IdleType, ZenonT(60) DEF Request, PCs
      <4>2. ShapeOf(q)
        BY IdleType DEF Idle, ShapeOf, Writing, Committing, Reading
      <4> QED
        BY <4>1, <4>2
    <3>2. req' \in [Procs -> Request] /\ Shape'
      BY <2>5, <3>1, RequestStep DEF TypeOK, Mount, Begin
    <3> QED
      BY <2>5, <3>2 DEF Mount, TypeOK
  <2> QED
    BY <1>4, <2>1, <2>2, <2>3, <2>4, <2>5 DEF Arrive
<1>5. ASSUME NEW p \in Procs, Serve(p) PROVE Typed'
  <2> USE DEF At
  <2>0. req[p] \in Request /\ ShapeOf(req[p])
    BY DEF TypeOK, Shape
  <2>1. CASE OpenUpload(p)
    <3>1. CASE updir[req[p].up] = "data"
      <4> DEFINE off == IF req[p].off < 0 THEN Len(data[req[p].up])
                                          ELSE req[p].off
                 q == [req[p] EXCEPT !.pc = "copy", !.off = off]
      <4>0. req[p].pc = "open" /\ req[p].up \in UUIDs
        BY <2>0, <2>1 DEF OpenUpload, ShapeOf, Writing
      <4>a. Len(data[req[p].up]) \in Nat
        BY <4>0 DEF TypeOK
      <4>b. off \in Nat
        BY <2>0, <4>a DEF Request
      <4>2. req' = [req EXCEPT ![p] = q]
        BY <2>1, <3>1 DEF OpenUpload, TypeOK
      <4> HIDE DEF off
      <4>1. q \in Request /\ ShapeOf(q)
        <5>1. q \in Request
          BY <2>0, <4>b DEF Request, PCs
        <5>2. ShapeOf(q)
          BY <2>0, <4>0, <4>b
          DEF Request, ShapeOf, Writing, Committing, Reading
        <5> QED
          BY <5>1, <5>2
      <4>3. req' \in [Procs -> Request] /\ Shape'
        BY <4>1, <4>2, RequestStep DEF TypeOK
      <4> QED
        BY <2>1, <4>3 DEF OpenUpload, TypeOK
    <3>2. CASE updir[req[p].up] # "data"
      BY <2>1, <3>2, FinishType DEF OpenUpload, TypeOK
    <3> QED
      BY <3>1, <3>2
  <2>2. CASE CopyPiece(p)
    <3> DEFINE q == [req[p] EXCEPT !.off = @ + 1, !.body = Tail(@)]
    <3>1. req[p].body # <<>> /\ req[p].body \in Seq(Bytes) /\ req[p].off \in Nat
          /\ req[p].up \in UUIDs
      BY <2>0, <2>2 DEF CopyPiece, Request, ShapeOf, Writing
    <3>2. Head(req[p].body) \in Bytes /\ Tail(req[p].body) \in Seq(Bytes)
      BY <3>1
    <3>3. q \in Request /\ ShapeOf(q)
      <4>1. q \in Request
        <5>1. req[p].off + 1 \in Nat
          BY <3>1
        <5> DEFINE n == req[p].off + 1
                   t == Tail(req[p].body)
        <5> HIDE DEF n, t
        <5>2. [req[p] EXCEPT !.off = n, !.body = t] \in Request
          BY <2>0, <3>2, <5>1 DEF Request, n, t
        <5> QED
          BY <5>2 DEF n, t
      <4>2. ShapeOf(q)
        BY <2>0, <2>2, <3>1
        DEF CopyPiece, Request, ShapeOf, Writing, Committing, Reading
      <4> QED
        BY <4>1, <4>2
    <3>4. req' = [req EXCEPT ![p] = q]
      BY <2>2 DEF CopyPiece, TypeOK
    <3>5. req' \in [Procs -> Request] /\ Shape'
      BY <3>3, <3>4, RequestStep DEF TypeOK
    <3>6. WriteAt(data[req[p].up], req[p].off, Head(req[p].body)) \in Seq(Bytes)
      BY <3>1, <3>2, WriteAtType DEF TypeOK
    <3>7. data' \in [UUIDs -> Seq(Bytes)]
      BY <2>2, <3>6 DEF CopyPiece, TypeOK
    <3> QED
      BY <2>2, <3>5, <3>7 DEF CopyPiece, TypeOK
  <2>3. CASE CopyEnd(p)
    <3>0. \/ Finish(p)
          \/ /\ Goto(p, "hash") /\ "hash" \in Committing
             /\ req[p].pc = "copy" /\ req[p].op # "patch"
      BY <2>3 DEF CopyEnd, Committing
    <3>1. req' \in [Procs -> Request] /\ Shape'
      BY <3>0, FinishType, GotoType DEF TypeOK
    <3> QED
      BY <2>3, <3>1 DEF CopyEnd, TypeOK
  <2>4. CASE HashUpload(p)
    <3>0. \/ Finish(p)
          \/ /\ Goto(p, "remove") /\ "remove" \in Committing
             /\ req[p].pc \in Committing
      BY <2>4 DEF HashUpload, CommitFails, Committing
    <3>1. req' \in [Procs -> Request] /\ Shape'
      BY <3>0, FinishType, GotoType DEF TypeOK
    <3> QED
      BY <2>4, <3>1 DEF HashUpload, CommitFails, TypeOK
  <2>5. CASE RemoveOld(p)
    <3>0. /\ Goto(p, "rename") /\ "rename" \in Committing
          /\ req[p].pc \in Committing
      BY <2>5 DEF RemoveOld, Committing
    <3>1. req' \in [Procs -> Request] /\ Shape'
      BY <3>0, GotoType DEF TypeOK
    <3> QED
      BY <2>5, <3>1 DEF RemoveOld, TypeOK
  <2>6. CASE RenameUpload(p)
    <3>0. \/ Finish(p)
          \/ /\ Goto(p, "rmdir") /\ "rmdir" \in Committing
             /\ req[p].pc \in Committing
      BY <2>6 DEF RenameUpload, CommitFails, Committing
    <3>1. req' \in [Procs -> Request] /\ Shape'
      BY <3>0, FinishType, GotoType DEF TypeOK
    <3>2. req[p].up \in UUIDs
      BY <2>0, <2>6 DEF RenameUpload, ShapeOf, Writing
    <3> QED
      BY <2>6, <3>1, <3>2 DEF RenameUpload, CommitFails, TypeOK
  <2>7. CASE RemoveUploadDir(p)
    <3>0. /\ Goto(p, "link") /\ "link" \in Committing
          /\ req[p].pc \in Committing
      BY <2>7 DEF RemoveUploadDir, Committing
    <3>1. req' \in [Procs -> Request] /\ Shape'
      BY <3>0, GotoType DEF TypeOK
    <3> QED
      BY <2>7, <3>1 DEF RemoveUploadDir, TypeOK
  <2>8. CASE TruncateLink(p)
    <3>0. /\ Goto(p, "linkwrite") /\ "linkwrite" \in Committing
          /\ req[p].pc \in Committing
      BY <2>8 DEF TruncateLink, Committing
    <3>1. req' \in [Procs -> Request] /\ Shape'
      BY <3>0, GotoType DEF TypeOK
    <3> QED
      BY <2>8, <3>1 DEF TruncateLink, TypeOK
  <2>9. CASE WriteLink(p)
    <3>1. req' \in [Procs -> Request] /\ Shape'
      BY <2>9, FinishType DEF WriteLink, TypeOK
    <3>2. Target(p) \in Layers
      BY <2>0, <2>9 DEF WriteLink, Target, Layers, ShapeOf, Committing
    <3> QED
      BY <2>9, <3>1, <3>2 DEF WriteLink, TypeOK
  <2>10. CASE ReadLink(p) \/ OpenBlob(p) \/ SendBlob(p)
    <3> DEFINE to(pc) == [req[p] EXCEPT !.pc = pc]
    <3>0. to("getblob") \in Request
          /\ (req[p].pc = "getlink" => ShapeOf(to("getblob")))
      BY <2>0 DEF Request, PCs, ShapeOf, Writing, Committing, Reading
    <3>1. ASSUME Miss(p), req[p].pc \in Reading,
                 UNCHANGED <<data, blob, link, acked, crashes>>
          PROVE  Typed'
      <4>1. req' \in [Procs -> Request] /\ Shape'
        BY <3>1, FinishType DEF Miss, TypeOK
      <4>2. req[p].op = "mount" => req[p].repo \in Repos
        BY <2>0 DEF ShapeOf
      <4>3. /\ session' \in [UUIDs -> Repos \union {None}]
            /\ updir' \in [UUIDs -> {"unused", "data", "empty", "absent"}]
        BY <3>1, <4>2, OpenType DEF Miss, TypeOK
      <4> QED
        BY <3>1, <4>1, <4>3 DEF TypeOK
    <3>2. CASE ReadLink(p)
      <4>1. CASE Miss(p)
        BY <3>1, <3>2, <4>1 DEF ReadLink, Reading
      <4>2. CASE Goto(p, "getblob") /\ UNCHANGED <<session, updir>>
        <5>1. req' = [req EXCEPT ![p] = to("getblob")]
          BY <4>2 DEF Goto
        <5>2. req' \in [Procs -> Request] /\ Shape'
          BY <3>0, <3>2, <5>1, RequestStep DEF ReadLink, TypeOK
        <5> QED
          BY <3>2, <4>2, <5>2 DEF ReadLink, TypeOK
      <4>3. CASE Finish(p) /\ UNCHANGED <<session, updir>>
        BY <3>2, <4>3, FinishType DEF ReadLink, TypeOK
      <4> QED
        BY <3>2, <4>1, <4>2, <4>3 DEF ReadLink
    <3>3. CASE OpenBlob(p)
      <4> DEFINE i == blob[req[p].dig]
      <4>1. CASE Miss(p)
        BY <3>1, <3>3, <4>1 DEF OpenBlob, Reading
      <4>0. i # None => i \in UUIDs
        BY <2>0, <3>3 DEF OpenBlob, ShapeOf, Reading, TypeOK
      <4>2. CASE /\ i # None
                 /\ req' = [req EXCEPT ![p].pc = "send", ![p].src = i]
                 /\ UNCHANGED <<session, updir>>
        <5> DEFINE q == [req[p] EXCEPT !.pc = "send", !.src = i]
        <5>1. q \in Request /\ ShapeOf(q)
          BY <2>0, <3>3, <4>0, <4>2
          DEF OpenBlob, Request, PCs, ShapeOf, Writing, Committing, Reading
        <5>2. req' = [req EXCEPT ![p] = q]
          BY <4>2 DEF TypeOK
        <5>3. req' \in [Procs -> Request] /\ Shape'
          BY <5>1, <5>2, RequestStep DEF TypeOK
        <5> QED
          BY <3>3, <4>2, <5>3 DEF OpenBlob, TypeOK
      <4>3. CASE /\ i # None /\ req[p].op = "mount"
                 /\ \E u \in UUIDs :
                      /\ Create(u)
                      /\ req' = [req EXCEPT ![p].pc = "open", ![p].up = u,
                                      ![p].src = i, ![p].body = data[i]]
                 /\ UNCHANGED session
        <5>1. PICK u \in UUIDs :
                      /\ Create(u)
                      /\ req' = [req EXCEPT ![p].pc = "open", ![p].up = u,
                                      ![p].src = i, ![p].body = data[i]]
          BY <4>3
        <5> DEFINE q == [req[p] EXCEPT !.pc = "open", !.up = u, !.src = i,
                                       !.body = data[i]]
        <5>2. data[i] \in Seq(Bytes)
          BY <4>0, <4>3 DEF TypeOK
        <5>3. q \in Request /\ ShapeOf(q)
          BY <2>0, <3>3, <4>0, <4>3, <5>2
          DEF OpenBlob, Request, PCs, ShapeOf, Writing, Committing, Reading
        <5>4. req' = [req EXCEPT ![p] = q]
          BY <5>1 DEF TypeOK
        <5>5. req' \in [Procs -> Request] /\ Shape'
          BY <5>3, <5>4, RequestStep DEF TypeOK
        <5> QED
          BY <3>3, <4>3, <5>1, <5>5 DEF OpenBlob, Create, TypeOK
      <4> QED
        BY <3>3, <4>1, <4>2, <4>3 DEF OpenBlob
    <3>4. CASE SendBlob(p)
      BY <3>4, FinishType DEF SendBlob, TypeOK
    <3> QED
      BY <2>10, <3>2, <3>3, <3>4
  <2> QED
    BY <1>5, <2>1, <2>2, <2>3, <2>4, <2>5, <2>6, <2>7, <2>8, <2>9, <2>10 DEF Serve
<1>6. ASSUME NEW p \in Procs, CopyBreak(p) PROVE Typed'
  BY <1>6, FinishType DEF CopyBreak, TypeOK
<1>7. ASSUME NEW p \in Procs, Crash(p) PROVE Typed'
  BY <1>7, FinishType, UploadConstants DEF Crash, TypeOK
<1>8. CASE UNCHANGED vars
  BY <1>8 DEF vars, TypeOK, Shape
<1>9. ASSUME NEW p \in Procs, DiskFails(p) PROVE Typed'
  <2>1. req' \in [Procs -> Request] /\ Shape'
    BY <1>9, FinishType DEF DiskFails, CommitFails, TypeOK
  <2>2. CASE CommitFails(p)
    BY <2>1, <2>2 DEF CommitFails, TypeOK
  <2>3. CASE ~CommitFails(p)
    <3>1. link' \in [Layers -> {"absent", "torn", "spoilt", "whole"}]
      BY <1>9, <2>3 DEF DiskFails, TypeOK
    <3> QED
      BY <1>9, <2>1, <2>3, <3>1 DEF DiskFails, TypeOK
  <2> QED
    BY <2>2, <2>3
<1> QED
  BY <1>1, <1>2, <1>3, <1>4, <1>5, <1>6, <1>7, <1>8, <1>9 DEF Next

LEMMA TypeInit == Init => Typed
BY IdleType, UploadConstants DEF Init, Typed, TypeOK, Shape, Layers

\* Every variable keeps its type: in particular a write at any offset, past
\* the end or not, leaves an upload a sequence of bytes (BlobsUploadWrite).
THEOREM TypeCorrect == Spec => []TypeOK
<1>1. Typed => TypeOK
  BY DEF Typed
<1> QED
  BY TypeInit, TypeStep, <1>1, PTL DEF Spec

-----------------------------------------------------------------------------
(* Integrity.  With one request at a time on a session, the content that a *)
(* commit hashed is the content that it publishes, and nobody writes to it *)
(* afterwards: the inode has left the only path it could be opened by.     *)

\* At most one request works on an upload.
Alone ==
    \A p, q \in Procs : req[p].up # None /\ req[p].up = req[q].up => p = q

\* Uploads that clients or requests know have been created.
Known ==
    /\ \A u \in UUIDs : session[u] # None => updir[u] # "unused"
    /\ \A p \in Procs : req[p].up # None => updir[req[p].up] # "unused"

\* A published inode has no path left in an upload directory, and its
\* content is the one its blob path names.
SealedAs(u, d) == updir[u] \in {"empty", "absent"} /\ Hash(data[u]) = d

Sealed == \A d \in Digests : blob[d] # None => SealedAs(blob[d], d)

ReaderSealed(p) == At(p, "send") => SealedAs(req[p].src, req[p].dig)

\* What a commit holds between its check and its rename.
Verified(p) ==
    /\ At(p, "copy") => updir[req[p].up] = "data"
    /\ At(p, "remove") \/ At(p, "rename") =>
            updir[req[p].up] = "data" /\ Hash(data[req[p].up]) = req[p].dig

IInv ==
    /\ Typed
    /\ Alone
    /\ Known
    /\ Sealed
    /\ \A p \in Procs : ReaderSealed(p) /\ Verified(p)

\* What a step of the request p leaves to the others: their uploads ...
OthersKept(p) ==
    \A q \in Procs \ {p} :
        /\ req'[q] = req[q]
        /\ req[q].up # None =>
            /\ updir'[req[q].up] = updir[req[q].up]
            /\ data'[req[q].up] = data[req[q].up]
            /\ req'[p].up # req[q].up

\* ... and the seal of whatever is sealed.
SealsKept ==
    \A u \in UUIDs, d \in Digests : SealedAs(u, d) => SealedAs(u, d)'

\* What is created stays created.
CreatedKept ==
    \A u \in UUIDs :
        /\ updir[u] # "unused" => updir'[u] # "unused"
        /\ session'[u] # None => session[u] # None \/ updir'[u] # "unused"

Kept(p) == OthersKept(p) /\ SealsKept /\ CreatedKept

\* A step that keeps the others' part keeps the invariant, if it
\* establishes it for the request itself and for the blob it publishes.
LEMMA Frame ==
    ASSUME IInv, Typed', NEW p \in Procs, Kept(p),
           req'[p].up # None => updir'[req'[p].up] # "unused",
           \A d \in Digests : blob'[d] \in {None, blob[d]} \/ SealedAs(blob[d], d)',
           ReaderSealed(p)', Verified(p)'
    PROVE  IInv'
<1>0. /\ \A q \in Procs : req[q].up # None => req[q].up \in UUIDs
      /\ \A q \in Procs : ShapeOf(req[q])
      /\ \A d \in Digests : blob[d] # None => blob[d] \in UUIDs
  BY DEF IInv, Typed, Shape, TypeOK, Request
<1>1. Alone'
  <2>1. Alone
    BY DEF IInv
  <2>2. \A q \in Procs \ {p} :
            req'[q] = req[q] /\ (req[q].up # None => req'[p].up # req[q].up)
    BY DEF Kept, OthersKept
  <2> QED
    BY <2>1, <2>2 DEF Alone
<1>2. Known'
  <2>1. \A u \in UUIDs : session'[u] # None => updir'[u] # "unused"
    BY DEF IInv, Known, Kept, CreatedKept
  <2>2. ASSUME NEW q \in Procs \ {p}, req'[q].up # None
        PROVE  updir'[req'[q].up] # "unused"
    BY <2>2 DEF IInv, Known, Kept, OthersKept
  <2> QED
    BY <2>1, <2>2 DEF Known
<1>3. Sealed'
  <2> SUFFICES ASSUME NEW d \in Digests, blob'[d] # None
               PROVE  SealedAs(blob[d], d)'
    BY DEF Sealed
  <2>1. CASE blob'[d] = blob[d]
    <3>1. blob[d] \in UUIDs /\ SealedAs(blob[d], d)
      BY <1>0, <2>1 DEF IInv, Sealed
    <3>2. updir'[blob[d]] \in {"empty", "absent"} /\ Hash(data'[blob[d]]) = d
      BY <3>1 DEF Kept, SealsKept, SealedAs
    <3> QED
      BY <2>1, <3>2 DEF SealedAs
  <2> QED
    BY <2>1
<1>4. ASSUME NEW q \in Procs \ {p} PROVE ReaderSealed(q)' /\ Verified(q)'
  <2>1. ReaderSealed(q) /\ Verified(q)
    BY DEF IInv
  <2>2. req'[q] = req[q]
    BY DEF Kept, OthersKept
  <2>3. ReaderSealed(q)'
    <3> SUFFICES ASSUME req[q].pc = "send"
                 PROVE  updir'[req[q].src] \in {"empty", "absent"}
                        /\ Hash(data'[req[q].src]) = req[q].dig
      BY <2>2 DEF ReaderSealed, At, SealedAs
    <3>1. req[q].src \in UUIDs /\ req[q].dig \in Digests
      BY <1>0 DEF ShapeOf, Reading
    <3>2. SealedAs(req[q].src, req[q].dig)
      BY <2>1 DEF ReaderSealed, At
    <3> QED
      BY <3>1, <3>2 DEF Kept, SealsKept, SealedAs
  <2>4. Verified(q)'
    <3>1. req[q].pc \in {"copy", "remove", "rename"} => req[q].up # None
      BY <1>0, UploadConstants DEF ShapeOf, Writing
    <3> QED
      BY <2>1, <2>2, <3>1 DEF Verified, At, Kept, OthersKept
  <2> QED
    BY <2>3, <2>4
<1> QED
  BY <1>1, <1>2, <1>3, <1>4 DEF IInv

\* The fields of the records after the ways a request moves.
LEMMA GotoFields ==
    ASSUME req \in [Procs -> Request], NEW p \in Procs, NEW pc, Goto(p, pc)
    PROVE  /\ \A q \in Procs \ {p} : req'[q] = req[q]
           /\ req'[p].pc = pc
           /\ req'[p].up = req[p].up
           /\ req'[p].dig = req[p].dig
           /\ req'[p].src = req[p].src
           /\ req'[p].repo = req[p].repo
BY DEF Goto, Request

LEMMA FinishFields ==
    ASSUME req \in [Procs -> Request], NEW p \in Procs, Finish(p)
    PROVE  /\ \A q \in Procs \ {p} : req'[q] = req[q]
           /\ req'[p].pc = "idle"
           /\ req'[p].up = None
BY DEF Finish, Idle

\* A step that works on the path or the content of the upload of p alone
\* leaves the others what they have.
LEMMA OwnUpload ==
    ASSUME IInv, NEW p \in Procs,
           req[p].up \in UUIDs,
           \A q \in Procs \ {p} : req'[q] = req[q],
           req'[p].up \in {None, req[p].up},
           UNCHANGED session,
           \A u \in UUIDs \ {req[p].up} :
                updir'[u] = updir[u] /\ data'[u] = data[u],
           LET u == req[p].up IN
              /\ updir'[u] # "unused"
              /\ updir[u] # "data" =>
                    updir'[u] \in {"empty", "absent"} /\ data'[u] = data[u]
    PROVE  Kept(p) /\ (req'[p].up # None => updir'[req'[p].up] # "unused")
<1> USE DEF IInv, Typed, TypeOK
<1>1. \A q \in Procs : req[q].up # None => req[q].up \in UUIDs
  BY DEF Request
<1>2. \A q \in Procs \ {p} : req[q].up # req[p].up
  BY UploadConstants DEF Alone
<1>3. ASSUME NEW u \in UUIDs, NEW d \in Digests, SealedAs(u, d)
      PROVE  SealedAs(u, d)'
  BY <1>3 DEF SealedAs
<1>4. \A u \in UUIDs : updir[u] # "unused" => updir'[u] # "unused"
  OBVIOUS
<1> QED
  BY <1>1, <1>2, <1>3, <1>4 DEF Kept, OthersKept, SealsKept, CreatedKept

\* A step that touches no upload at all.
LEMMA NoUpload ==
    ASSUME IInv, NEW p \in Procs,
           \A q \in Procs \ {p} : req'[q] = req[q],
           \A q \in Procs \ {p} : req[q].up # None => req[q].up # req'[p].up,
           req'[p].up # None => updir[req'[p].up] # "unused",
           UNCHANGED <<session, updir, data>>
    PROVE  Kept(p) /\ (req'[p].up # None => updir'[req'[p].up] # "unused")
BY DEF Kept, OthersKept, SealsKept, CreatedKept, SealedAs

\* A request that ends, having cancelled its upload or not.
LEMMA FinishKeeps ==
    ASSUME IInv, NEW p \in Procs, Finish(p), Typed', UNCHANGED <<session, data, blob>>,
           \/ UNCHANGED updir
           \/ /\ req[p].up \in UUIDs
              /\ updir' = [updir EXCEPT ![req[p].up] = "absent"]
    PROVE  IInv'
<1>1. req \in [Procs -> Request] /\ updir \in [UUIDs -> {"unused", "data", "empty", "absent"}]
  BY DEF IInv, Typed, TypeOK
<1>2. /\ \A q \in Procs \ {p} : req'[q] = req[q]
      /\ req'[p].pc = "idle" /\ req'[p].up = None
  BY <1>1, FinishFields
<1>3. Kept(p)
  <2>1. CASE UNCHANGED updir
    BY <1>2, <2>1, NoUpload
  <2>2. CASE /\ req[p].up \in UUIDs
             /\ updir' = [updir EXCEPT ![req[p].up] = "absent"]
    BY <1>1, <1>2, <2>2, OwnUpload
  <2> QED
    BY <2>1, <2>2
<1>4. ReaderSealed(p)' /\ Verified(p)'
  BY <1>2 DEF ReaderSealed, Verified, At
<1> QED
  BY <1>2, <1>3, <1>4, Frame

\* A new upload touches nothing that is known or sealed.
LEMMA CreateKept ==
    ASSUME IInv, NEW u \in UUIDs, Create(u), UNCHANGED data
    PROVE  /\ SealsKept
           /\ updir'[u] = "data"
           /\ \A v \in UUIDs : updir[v] # "unused" => updir'[v] = updir[v]
           /\ \A q \in Procs : req[q].up # None =>
                /\ req[q].up # u
                /\ updir'[req[q].up] = updir[req[q].up]
<1>1. updir \in [UUIDs -> {"unused", "data", "empty", "absent"}]
  BY DEF IInv, Typed, TypeOK
<1>2. \A q \in Procs : req[q].up # None =>
            req[q].up \in UUIDs /\ updir[req[q].up] # "unused"
  BY DEF IInv, Typed, TypeOK, Request, Known
<1> QED
  BY <1>1, <1>2 DEF Create, SealsKept, SealedAs

\* A session opened for a client: the request that asked for it, if any, is
\* over.
LEMMA OpenKeeps ==
    ASSUME IInv, Typed', NEW r \in Repos, Open(r), UNCHANGED <<data, blob>>,
           \/ UNCHANGED req
           \/ \E p \in Procs : Finish(p)
    PROVE  IInv'
<1>1. PICK u \in UUIDs : Create(u) /\ session' = [session EXCEPT ![u] = r]
  BY DEF Open
<1>2. /\ SealsKept
      /\ updir'[u] = "data"
      /\ \A v \in UUIDs : updir[v] # "unused" => updir'[v] = updir[v]
      /\ \A q \in Procs : req[q].up # None =>
           /\ req[q].up # u
           /\ updir'[req[q].up] = updir[req[q].up]
  BY <1>1, CreateKept
<1>3. CreatedKept
  BY <1>1, <1>2 DEF CreatedKept, IInv, Typed, TypeOK
<1>4. ASSUME NEW p \in Procs, \A q \in Procs \ {p} : req'[q] = req[q],
             req'[p].up = None, req'[p].pc = "idle"
      PROVE  IInv'
  <2>1. Kept(p)
    BY <1>2, <1>3, <1>4 DEF Kept, OthersKept
  <2>2. ReaderSealed(p)' /\ Verified(p)'
    BY <1>4 DEF ReaderSealed, Verified, At
  <2> QED
    BY <1>4, <2>1, <2>2, Frame
<1>5. CASE \E p \in Procs : Finish(p)
  BY <1>4, <1>5, FinishFields DEF IInv, Typed, TypeOK
<1>6. CASE UNCHANGED req
  <2>1. ASSUME NEW q \in Procs PROVE (ReaderSealed(q) /\ Verified(q))'
    <3>1. ReaderSealed(q) /\ Verified(q) /\ ShapeOf(req[q])
      BY DEF IInv, Typed, Shape
    <3>2. ReaderSealed(q)'
      BY <1>2, <1>6, <3>1
      DEF ReaderSealed, At, SealsKept, SealedAs, ShapeOf, Reading
    <3>3. Verified(q)'
      BY <1>2, <1>6, <3>1, UploadConstants
      DEF Verified, At, ShapeOf, Writing
    <3> QED
      BY <3>2, <3>3
  <2>2. Alone' /\ Known'
    <3>1. \A q \in Procs : req[q].up # None => req[q].up \in UUIDs
      BY DEF IInv, Typed, TypeOK, Request
    <3> QED
      BY <1>2, <1>3, <1>6, <3>1 DEF IInv, Alone, Known, CreatedKept
  <2>3. Sealed'
    <3> SUFFICES ASSUME NEW d \in Digests, blob[d] # None
                 PROVE  SealedAs(blob[d], d)'
      BY DEF Sealed
    <3>1. blob[d] \in UUIDs /\ SealedAs(blob[d], d)
      BY DEF IInv, Sealed, Typed, TypeOK
    <3> QED
      BY <1>2, <3>1 DEF SealsKept, SealedAs
  <2> QED
    BY <2>1, <2>2, <2>3 DEF IInv
<1> QED
  BY <1>5, <1>6

LEMMA IntegrityInit == Init => IInv
BY TypeInit, UploadConstants
DEF Init, IInv, Typed, Idle, Alone, Known, Sealed, ReaderSealed, Verified, At

LEMMA ArriveKeeps ==
    ASSUME ~Overlap, IInv, Typed', NEW p \in Procs, Arrive(p)
    PROVE  IInv'
<1>0. req \in [Procs -> Request] /\ (At(p, "idle") => req[p].up = None)
  BY DEF IInv, Typed, TypeOK, Shape, ShapeOf, At
\* A request that arrives with an upload, or none, that nobody works on.
<1>1. ASSUME UNCHANGED <<session, updir, data, blob>>,
             NEW r, req' = [req EXCEPT ![p] = r],
             r.pc \in {"open", "hash", "getlink"},
             r.up # None => r.up \in UUIDs /\ MayUse(r.up)
      PROVE  IInv'
  <2>1. /\ \A q \in Procs \ {p} : req'[q] = req[q]
        /\ req'[p] = r
    BY <1>0, <1>1
  <2>2. r.up # None => \A q \in Procs : req[q].up # r.up
    BY <1>1 DEF MayUse
  <2>3. r.up # None => updir[r.up] # "unused"
    BY <1>1 DEF MayUse, IInv, Known
  <2>4. Kept(p)
    BY <1>1, <2>1, <2>2, <2>3, NoUpload
  <2>5. ReaderSealed(p)' /\ Verified(p)'
    BY <1>1, <2>1 DEF ReaderSealed, Verified, At
  <2> QED
    BY <1>1, <2>1, <2>3, <2>4, <2>5, Frame
<1>2. ASSUME NEW r \in Repos, NEW d \in Digests, NEW b \in Bodies,
             PostSingle(p, r, d, b)
      PROVE  IInv'
  <2>1. PICK u \in UUIDs :
          /\ Create(u)
          /\ req' = [req EXCEPT ![p] =
               [Idle EXCEPT !.pc = "open", !.op = "single", !.repo = r,
                            !.up = u, !.dig = d, !.off = 0, !.body = b]]
    BY <1>2 DEF PostSingle, Begin
  <2>2. /\ \A q \in Procs \ {p} : req'[q] = req[q]
        /\ req'[p].up = u /\ req'[p].pc = "open"
    BY <1>0, <2>1 DEF Idle
  <2>3. UNCHANGED <<session, data, blob>>
    BY <1>2 DEF PostSingle
  <2>4. Kept(p) /\ updir'[u] # "unused"
    BY <2>1, <2>2, <2>3, CreateKept DEF Kept, OthersKept, CreatedKept
  <2>5. ReaderSealed(p)' /\ Verified(p)'
    BY <2>2 DEF ReaderSealed, Verified, At
  <2> QED
    BY <2>2, <2>3, <2>4, <2>5, Frame
<1>3. ASSUME NEW u \in UUIDs, NEW s \in Starts, NEW b \in Bodies,
             Patch(p, u, s, b)
      PROVE  IInv'
  BY <1>1, <1>3 DEF Patch, Begin, Idle
<1>4. ASSUME NEW u \in UUIDs, NEW d \in Digests, NEW s \in Starts,
             NEW b \in Bodies, Put(p, u, d, s, b)
      PROVE  IInv'
  <2> DEFINE r == [Idle EXCEPT !.pc = IF b = <<>> THEN "hash" ELSE "open",
                               !.op = "put", !.repo = session[u], !.up = u,
                               !.dig = d, !.off = s, !.body = b]
  <2>1. r.pc \in {"open", "hash", "getlink"} /\ r.up = u
    BY DEF Idle
  <2>2. req' = [req EXCEPT ![p] = r]
    BY <1>4 DEF Put, Begin
  <2> HIDE DEF r
  <2> QED
    BY <1>1, <1>4, <2>1, <2>2 DEF Put
<1>5. ASSUME NEW r \in Repos, NEW d \in Digests, Get(p, r, d) PROVE IInv'
  BY <1>1, <1>5 DEF Get, Begin, Idle
<1>6. ASSUME NEW r \in Repos, NEW f \in Repos \union {None}, NEW d \in Digests,
             Mount(p, r, f, d)
      PROVE  IInv'
  BY <1>1, <1>6 DEF Mount, Begin, Idle
<1> QED
  BY <1>2, <1>3, <1>4, <1>5, <1>6 DEF Arrive

LEMMA ServeKeeps ==
    ASSUME IInv, Typed', NEW p \in Procs, Serve(p)
    PROVE  IInv'
<1>0. /\ req \in [Procs -> Request]
      /\ updir \in [UUIDs -> {"unused", "data", "empty", "absent"}]
      /\ data \in [UUIDs -> Seq(Bytes)]
      /\ blob \in [Digests -> UUIDs \union {None}]
      /\ ShapeOf(req[p]) /\ ReaderSealed(p) /\ Verified(p)
      /\ req[p].up # None => req[p].up \in UUIDs /\ updir[req[p].up] # "unused"
      /\ req[p].pc \in Writing => req[p].up \in UUIDs /\ req[p].up # None
  BY UploadConstants
  DEF IInv, Typed, TypeOK, Shape, ShapeOf, Known, Request, Writing
\* A step between two program points that touches no upload.
<1>1. ASSUME UNCHANGED <<session, updir, data>>,
             \A q \in Procs \ {p} : req'[q] = req[q],
             req'[p].up = req[p].up,
             \A d \in Digests : blob'[d] \in {None, blob[d]},
             ReaderSealed(p)', Verified(p)'
      PROVE  IInv'
  <2>1. \A q \in Procs \ {p} : req[q].up # None => req[q].up # req[p].up
    BY DEF IInv, Alone
  <2>2. Kept(p)
    BY <1>0, <1>1, <2>1, NoUpload
  <2> QED
    BY <1>0, <1>1, <2>2, Frame
<1>2. CASE OpenUpload(p)
  <2>1. CASE updir[req[p].up] = "data"
    <3>1. /\ \A q \in Procs \ {p} : req'[q] = req[q]
          /\ req'[p].up = req[p].up /\ req'[p].pc = "copy"
      BY <1>0, <1>2, <2>1 DEF OpenUpload, Request
    <3>2. ReaderSealed(p)' /\ Verified(p)'
      BY <1>2, <2>1, <3>1 DEF OpenUpload, ReaderSealed, Verified, At
    <3> QED
      BY <1>1, <1>2, <3>1, <3>2 DEF OpenUpload
  <2>2. CASE updir[req[p].up] # "data"
    BY <1>2, <2>2, FinishKeeps DEF OpenUpload
  <2> QED
    BY <2>1, <2>2
<1>3. CASE CopyPiece(p)
  <2>0. req[p].up \in UUIDs /\ updir[req[p].up] = "data"
    BY <1>0, <1>3 DEF CopyPiece, Verified, At, Writing
  <2>1. /\ \A q \in Procs \ {p} : req'[q] = req[q]
        /\ req'[p].up = req[p].up /\ req'[p].pc = "copy"
    BY <1>0, <1>3 DEF CopyPiece, Request, At
  <2>2. \A u \in UUIDs \ {req[p].up} : updir'[u] = updir[u] /\ data'[u] = data[u]
    BY <1>0, <1>3 DEF CopyPiece
  <2>3. UNCHANGED <<session, updir, blob>>
    BY <1>3 DEF CopyPiece
  <2>4. Kept(p)
    BY <2>0, <2>1, <2>2, <2>3, OwnUpload
  <2>5. ReaderSealed(p)' /\ Verified(p)'
    BY <2>0, <2>1, <2>3 DEF ReaderSealed, Verified, At
  <2> QED
    BY <1>0, <2>1, <2>3, <2>4, <2>5, Frame
<1>4. CASE CopyEnd(p)
  <2>1. CASE Finish(p)
    BY <1>4, <2>1, FinishKeeps DEF CopyEnd
  <2>2. CASE Goto(p, "hash")
    <3>1. /\ \A q \in Procs \ {p} : req'[q] = req[q]
          /\ req'[p].up = req[p].up /\ req'[p].pc = "hash"
      BY <1>0, <2>2, GotoFields
    <3>2. ReaderSealed(p)' /\ Verified(p)'
      BY <3>1 DEF ReaderSealed, Verified, At
    <3> QED
      BY <1>1, <1>4, <3>1, <3>2 DEF CopyEnd
  <2> QED
    BY <1>4, <2>1, <2>2 DEF CopyEnd
\* A commit that fails leaves or cancels its own upload.
<1>5. ASSUME CommitFails(p), req[p].up \in UUIDs PROVE IInv'
  BY <1>5, FinishKeeps DEF CommitFails
<1>6. CASE HashUpload(p)
  <2>0. req[p].up \in UUIDs
    BY <1>0, <1>6 DEF HashUpload, At, Writing
  <2>1. CASE updir[req[p].up] = "data" /\ Hash(data[req[p].up]) = req[p].dig
    <3>1. Goto(p, "remove") /\ UNCHANGED <<session, updir, data, blob>>
      BY <1>6, <2>1 DEF HashUpload
    <3>2. /\ \A q \in Procs \ {p} : req'[q] = req[q]
          /\ req'[p].up = req[p].up /\ req'[p].dig = req[p].dig
          /\ req'[p].pc = "remove"
      BY <1>0, <3>1, GotoFields
    <3>3. ReaderSealed(p)' /\ Verified(p)'
      BY <2>1, <3>1, <3>2 DEF ReaderSealed, Verified, At
    <3> QED
      BY <1>1, <3>1, <3>2, <3>3
  <2>2. CASE ~(updir[req[p].up] = "data" /\ Hash(data[req[p].up]) = req[p].dig)
    BY <1>5, <1>6, <2>0, <2>2 DEF HashUpload
  <2> QED
    BY <2>1, <2>2
<1>7. CASE RemoveOld(p)
  <2>1. Goto(p, "rename") /\ UNCHANGED <<session, updir, data>>
        /\ blob' = [blob EXCEPT ![req[p].dig] = None]
    BY <1>7 DEF RemoveOld
  <2>2. /\ \A q \in Procs \ {p} : req'[q] = req[q]
        /\ req'[p].up = req[p].up /\ req'[p].dig = req[p].dig
        /\ req'[p].pc = "rename"
    BY <1>0, <2>1, GotoFields
  <2>3. ReaderSealed(p)' /\ Verified(p)'
    BY <1>0, <1>7, <2>1, <2>2 DEF RemoveOld, ReaderSealed, Verified, At
  <2>4. \A d \in Digests : blob'[d] \in {None, blob[d]}
    BY <1>0, <2>1
  <2> QED
    BY <1>1, <2>1, <2>2, <2>3, <2>4
<1>8. CASE RenameUpload(p)
  <2> DEFINE u == req[p].up
  <2>0. u \in UUIDs /\ req[p].dig \in Digests
    BY <1>0, <1>8 DEF RenameUpload, At, Writing, Committing, ShapeOf
  \* No cancel can have come in between: the upload is still there.
  <2>1. updir[u] = "data" /\ Hash(data[u]) = req[p].dig
    BY <1>0, <1>8 DEF RenameUpload, Verified, At
  <2>2. /\ blob' = [blob EXCEPT ![req[p].dig] = u]
        /\ updir' = [updir EXCEPT ![u] = "empty"]
        /\ Goto(p, "rmdir") /\ UNCHANGED <<session, data>>
    BY <1>8, <2>1 DEF RenameUpload
  <2>3. /\ \A q \in Procs \ {p} : req'[q] = req[q]
        /\ req'[p].up = u /\ req'[p].pc = "rmdir"
    BY <1>0, <2>2, GotoFields
  <2>4. \A v \in UUIDs \ {u} : updir'[v] = updir[v] /\ data'[v] = data[v]
    BY <1>0, <2>2
  <2>5. updir'[u] = "empty"
    BY <1>0, <2>0, <2>2
  <2>6. Kept(p)
    BY <2>0, <2>1, <2>2, <2>3, <2>4, <2>5, OwnUpload
  <2>7. ReaderSealed(p)' /\ Verified(p)'
    BY <2>3 DEF ReaderSealed, Verified, At
  <2>8. ASSUME NEW d \in Digests
        PROVE  blob'[d] \in {None, blob[d]} \/ SealedAs(blob[d], d)'
    BY <1>0, <2>0, <2>1, <2>2, <2>5 DEF SealedAs
  <2> QED
    BY <2>3, <2>5, <2>6, <2>7, <2>8, Frame
<1>9. CASE RemoveUploadDir(p)
  <2> DEFINE u == req[p].up
  <2>0. u \in UUIDs
    BY <1>0, <1>9 DEF RemoveUploadDir, At, Writing
  <2>1. /\ updir' = [updir EXCEPT ![u] = "absent"]
        /\ Goto(p, "link") /\ UNCHANGED <<session, data, blob>>
    BY <1>9 DEF RemoveUploadDir
  <2>2. /\ \A q \in Procs \ {p} : req'[q] = req[q]
        /\ req'[p].up = u /\ req'[p].pc = "link"
    BY <1>0, <2>1, GotoFields
  <2>3. \A v \in UUIDs \ {u} : updir'[v] = updir[v] /\ data'[v] = data[v]
    BY <1>0, <2>1
  <2>4. updir'[u] = "absent"
    BY <1>0, <2>0, <2>1
  <2>5. Kept(p)
    BY <2>0, <2>1, <2>2, <2>3, <2>4, OwnUpload
  <2>6. ReaderSealed(p)' /\ Verified(p)'
    BY <2>2 DEF ReaderSealed, Verified, At
  <2> QED
    BY <2>1, <2>2, <2>4, <2>5, <2>6, Frame
<1>10. CASE TruncateLink(p)
  <2>1. /\ \A q \in Procs \ {p} : req'[q] = req[q]
        /\ req'[p].up = req[p].up /\ req'[p].pc = "linkwrite"
    BY <1>0, <1>10, GotoFields DEF TruncateLink
  <2>2. ReaderSealed(p)' /\ Verified(p)'
    BY <2>1 DEF ReaderSealed, Verified, At
  <2> QED
    BY <1>1, <1>10, <2>1, <2>2 DEF TruncateLink
<1>11. CASE WriteLink(p)
  BY <1>11, FinishKeeps DEF WriteLink
<1>12. ASSUME Miss(p), UNCHANGED <<data, blob>> PROVE IInv'
  <2>1. req[p].op = "mount" => req[p].repo \in Repos
    BY <1>0 DEF ShapeOf
  <2> QED
    BY <1>12, <2>1, FinishKeeps, OpenKeeps DEF Miss
<1>13. CASE ReadLink(p)
  <2>1. CASE Goto(p, "getblob") /\ UNCHANGED <<session, updir>>
    <3>1. /\ \A q \in Procs \ {p} : req'[q] = req[q]
          /\ req'[p].up = req[p].up /\ req'[p].pc = "getblob"
      BY <1>0, <2>1, GotoFields
    <3>2. ReaderSealed(p)' /\ Verified(p)'
      BY <3>1 DEF ReaderSealed, Verified, At
    <3> QED
      BY <1>1, <1>13, <2>1, <3>1, <3>2 DEF ReadLink
  <2>2. CASE Finish(p) /\ UNCHANGED <<session, updir>>
    BY <1>13, <2>2, FinishKeeps DEF ReadLink
  <2> QED
    BY <1>12, <1>13, <2>1, <2>2 DEF ReadLink
<1>14. CASE OpenBlob(p)
  <2> DEFINE i == blob[req[p].dig]
  <2>0. req[p].up = None /\ req[p].dig \in Digests
    BY <1>0, <1>14 DEF OpenBlob, At, ShapeOf, Reading
  <2>1. CASE /\ i # None
             /\ req' = [req EXCEPT ![p].pc = "send", ![p].src = i]
             /\ UNCHANGED <<session, updir>>
    <3>1. /\ \A q \in Procs \ {p} : req'[q] = req[q]
          /\ req'[p].up = req[p].up /\ req'[p].pc = "send"
          /\ req'[p].src = i /\ req'[p].dig = req[p].dig
      BY <1>0, <2>1 DEF Request
    <3>2. SealedAs(i, req[p].dig)
      BY <2>0, <2>1 DEF IInv, Sealed
    <3>3. ReaderSealed(p)' /\ Verified(p)'
      BY <1>14, <2>1, <3>1, <3>2 DEF OpenBlob, ReaderSealed, Verified, SealedAs, At
    <3> QED
      BY <1>1, <1>14, <2>1, <3>1, <3>3 DEF OpenBlob
  <2>2. ASSUME NEW u \in UUIDs, Create(u),
               req' = [req EXCEPT ![p].pc = "open", ![p].up = u,
                                  ![p].src = i, ![p].body = data[i]],
               UNCHANGED session
        PROVE  IInv'
    <3>1. /\ \A q \in Procs \ {p} : req'[q] = req[q]
          /\ req'[p].up = u /\ req'[p].pc = "open"
      BY <1>0, <2>2 DEF Request
    <3>2. UNCHANGED <<data, blob>>
      BY <1>14 DEF OpenBlob
    <3>3. Kept(p) /\ updir'[u] # "unused"
      BY <2>2, <3>1, <3>2, CreateKept, ZenonT(20) DEF Kept, OthersKept, CreatedKept
    <3>4. ReaderSealed(p)' /\ Verified(p)'
      BY <3>1 DEF ReaderSealed, Verified, At
    <3> QED
      BY <3>1, <3>2, <3>3, <3>4, Frame
  <2> QED
    BY <1>12, <1>14, <2>1, <2>2 DEF OpenBlob
<1>15. CASE SendBlob(p)
  BY <1>15, FinishKeeps DEF SendBlob
<1> QED
  BY <1>2, <1>3, <1>4, <1>6, <1>7, <1>8, <1>9, <1>10, <1>11, <1>13, <1>14,
     <1>15 DEF Serve

LEMMA IntegrityStep == ~Overlap /\ IInv /\ [Next]_vars => IInv'
<1> SUFFICES ASSUME ~Overlap, IInv, [Next]_vars PROVE IInv'
  OBVIOUS
<1>0. Typed'
  BY TypeStep DEF IInv
<1>1. ASSUME NEW r \in Repos, PostThenPut(r) PROVE IInv'
  BY <1>0, <1>1, OpenKeeps DEF PostThenPut
<1>2. ASSUME NEW u \in UUIDs, Cancel(u) PROVE IInv'
  \* Nobody else works on the upload, so nobody misses it.
  <2>1. \A q \in Procs : req[q].up # u
    BY <1>2 DEF Cancel, MayUse
  <2>2. /\ UNCHANGED <<session, data, blob, req>>
        /\ updir' = [updir EXCEPT ![u] = "absent"]
        /\ updir \in [UUIDs -> {"unused", "data", "empty", "absent"}]
    BY <1>2 DEF Cancel, IInv, Typed, TypeOK
  <2>3. SealsKept
    BY <2>2 DEF SealsKept, SealedAs
  <2>4. Alone' /\ Known'
    <3>1. \A q \in Procs : req[q].up # None => req[q].up \in UUIDs
      BY DEF IInv, Typed, TypeOK, Request
    <3> QED
      BY <2>1, <2>2, <3>1 DEF IInv, Alone, Known
  <2>5. Sealed'
    <3> SUFFICES ASSUME NEW d \in Digests, blob[d] # None
                 PROVE  SealedAs(blob[d], d)'
      BY <2>2 DEF Sealed
    <3>1. blob[d] \in UUIDs /\ SealedAs(blob[d], d)
      BY DEF IInv, Sealed, Typed, TypeOK
    <3> QED
      BY <2>2, <2>3, <3>1 DEF SealsKept, SealedAs
  <2>6. ASSUME NEW q \in Procs PROVE (ReaderSealed(q) /\ Verified(q))'
    <3>1. ReaderSealed(q) /\ Verified(q) /\ ShapeOf(req[q])
      BY DEF IInv, Typed, Shape
    <3>2. ReaderSealed(q)'
      BY <2>2, <2>3, <3>1
      DEF ReaderSealed, At, SealsKept, SealedAs, ShapeOf, Reading
    <3>3. Verified(q)'
      BY <2>1, <2>2, <3>1 DEF Verified, At, ShapeOf, Writing
    <3> QED
      BY <3>2, <3>3
  <2> QED
    BY <1>0, <2>4, <2>5, <2>6 DEF IInv
<1>3. ASSUME NEW x \in Layers, DeleteLayer(x) PROVE IInv'
  <2>1. /\ UNCHANGED <<session, updir, data, blob>>
        /\ \A q \in Procs : req'[q] \in {Idle, req[q]}
    BY <1>3 DEF DeleteLayer
  <2> QED
    BY <1>0, <2>1 DEF IInv, Alone, Known, Sealed, SealedAs, ReaderSealed,
                      Verified, At, Idle
<1>4. ASSUME NEW p \in Procs, Arrive(p) PROVE IInv'
  BY <1>0, <1>4, ArriveKeeps
<1>5. ASSUME NEW p \in Procs, Serve(p) PROVE IInv'
  BY <1>0, <1>5, ServeKeeps
<1>6. ASSUME NEW p \in Procs, CopyBreak(p) PROVE IInv'
  BY <1>0, <1>6, FinishKeeps DEF CopyBreak
<1>7. ASSUME NEW p \in Procs, Crash(p) PROVE IInv'
  BY <1>0, <1>7, FinishKeeps DEF Crash
<1>8. CASE UNCHANGED vars
  BY <1>0, <1>8 DEF vars, IInv, Alone, Known, Sealed, SealedAs, ReaderSealed,
                    Verified, At
<1>9. ASSUME NEW p \in Procs, DiskFails(p) PROVE IInv'
  <2>1. CASE CommitFails(p) /\ req[p].pc \in {"rmdir", "link"}
    <3>1. req[p].up \in UUIDs
      BY <2>1 DEF IInv, Typed, TypeOK, Shape, ShapeOf, Request, Writing
    <3> QED
      BY <1>0, <2>1, <3>1, FinishKeeps DEF CommitFails
  <2>2. CASE Finish(p) /\ UNCHANGED <<session, updir, data, blob>>
    BY <1>0, <2>2, FinishKeeps
  <2> QED
    BY <1>9, <2>1, <2>2 DEF DiskFails, At
<1> QED
  BY <1>1, <1>2, <1>3, <1>4, <1>5, <1>6, <1>7, <1>8, <1>9 DEF Next

\* The blob at a digest's path has that digest, for any number of requests,
\* sessions and killed servers, as long as no client has two requests in
\* flight on one session (blobsUploadCommit).
THEOREM IntegrityHolds == ASSUME ~Overlap PROVE Spec => []BlobIntegrity
<1>1. IInv => BlobIntegrity
  BY DEF IInv, Sealed, SealedAs, BlobIntegrity
<1>2. IInv /\ [Next]_vars => IInv'
  BY IntegrityStep
<1> QED
  BY IntegrityInit, <1>1, <1>2, PTL DEF Spec

\* What a GET sends has the digest it was asked for (BlobsGet), while the
\* same blob is replaced or its session deleted.
THEOREM ReadersHold == ASSUME ~Overlap PROVE Spec => []ReadersSeeVerified
<1>1. IInv => ReadersSeeVerified
  BY DEF IInv, ReaderSealed, SealedAs, ReadersSeeVerified
<1>2. IInv /\ [Next]_vars => IInv'
  BY IntegrityStep
<1> QED
  BY IntegrityInit, <1>1, <1>2, PTL DEF Spec

\* No step writes to a published inode: only copies write, and a copy still
\* has the path of its upload (BlobsUploadWrite).
THEOREM ImmutableHolds == ASSUME ~Overlap PROVE Spec => CommittedIsImmutable
<1>1. ASSUME IInv, [Next]_vars
      PROVE  [\A d \in Digests :
                 blob[d] # None => data'[blob[d]] = data[blob[d]]]_vars
  <2>1. CASE \E p \in Procs : CopyPiece(p)
    <3> SUFFICES ASSUME NEW d \in Digests, blob[d] # None
                 PROVE  data'[blob[d]] = data[blob[d]]
      OBVIOUS
    <3>1. PICK p \in Procs : CopyPiece(p)
      BY <2>1
    <3>2. updir[req[p].up] = "data"
      BY <1>1, <3>1 DEF CopyPiece, IInv, Verified
    <3>3. blob[d] \in UUIDs /\ updir[blob[d]] # "data"
      BY <1>1 DEF IInv, Sealed, SealedAs, Typed, TypeOK
    <3>4. data \in [UUIDs -> Seq(Bytes)]
      BY <1>1 DEF IInv, Typed, TypeOK
    <3> QED
      BY <3>1, <3>2, <3>3, <3>4 DEF CopyPiece
  <2>2. CASE ~\E p \in Procs : CopyPiece(p)
    <3>1. UNCHANGED data
      BY <1>1, <2>2, ZenonT(20)
      DEF Next, Arrive, Serve, PostThenPut, Cancel, DeleteLayer, CopyBreak,
          DiskFails, Crash, PostSingle, Patch, Put, Get, Mount, OpenUpload, CopyEnd,
          HashUpload, CommitFails, RemoveOld, RenameUpload, RemoveUploadDir,
          TruncateLink, WriteLink, ReadLink, OpenBlob, SendBlob, vars
    <3> QED
      BY <3>1
  <2> QED
    BY <2>1, <2>2
<1>2. IInv /\ [Next]_vars => IInv'
  BY IntegrityStep
<1> QED
  BY IntegrityInit, <1>1, <1>2, PTL DEF Spec, CommittedIsImmutable

-----------------------------------------------------------------------------
(* The refinement.  When no server dies between the two, a commit that has *)
(* removed a blob is sure to publish its own, and a link is written only   *)
(* once the blob is there.                                                 *)

Available == {d \in Digests : Published(d)}

Listed == {x \in Layers : link[x] # "absent"}

\* The commit has published its blob and is not yet done with its link.
PublishedBy(p) == req[p].pc \in {"rmdir", "link", "linkwrite"}

LinkInv ==
    /\ \A x \in Layers : link[x] # "absent" => Published(x[2])
    /\ \A p \in Procs : PublishedBy(p) => Published(req[p].dig)
    /\ acked \subseteq Listed

RInv == IInv /\ LinkInv

\* What every step has to show.
Simulates ==
    /\ LinkInv'
    /\ \/ UNCHANGED <<Available, Listed>>
       \/ Store!Next

\* A record moves without entering or leaving the rename, and without
\* passing it.
QuietMove(q) ==
    \/ req'[q] = req[q]
    \/ ~At(q, "rename") /\ ~At(q, "rename")' /\ ~PublishedBy(q)'
    \/ PublishedBy(q) /\ PublishedBy(q)' /\ req'[q].dig = req[q].dig

LEMMA QuietPublished ==
    ASSUME UNCHANGED blob, \A q \in Procs : QuietMove(q),
           NEW d \in Digests
    PROVE  Published(d)' <=> Published(d)
BY DEF QuietMove, Published, At, PublishedBy

\* A request that neither removes nor publishes a blob moves quietly.
LEMMA QuietServe ==
    ASSUME req \in [Procs -> Request], NEW p \in Procs, Serve(p),
           ~RemoveOld(p), ~RenameUpload(p)
    PROVE  UNCHANGED blob /\ \A q \in Procs : QuietMove(q)
<1>1. ASSUME NEW r, req' = [req EXCEPT ![p] = r], ~At(p, "rename"),
             r.pc \notin {"rename", "rmdir", "link", "linkwrite"}
      PROVE  \A q \in Procs : QuietMove(q)
  BY <1>1 DEF QuietMove, At, PublishedBy
<1>2. ASSUME Finish(p), ~At(p, "rename") PROVE \A q \in Procs : QuietMove(q)
  BY <1>1, <1>2 DEF Finish, Idle
<1>3. ASSUME NEW pc, Goto(p, pc),
             \/ ~At(p, "rename") /\ pc \notin {"rename", "rmdir", "link", "linkwrite"}
             \/ PublishedBy(p) /\ pc \in {"rmdir", "link", "linkwrite"}
      PROVE  \A q \in Procs : QuietMove(q)
  BY <1>3 DEF Goto, QuietMove, At, PublishedBy, Request
<1>4. CASE OpenUpload(p) \/ CopyPiece(p) \/ SendBlob(p)
  BY <1>2, <1>4
  DEF OpenUpload, CopyPiece, SendBlob, QuietMove, At, PublishedBy, Request
<1>5. CASE CopyEnd(p) \/ HashUpload(p)
  BY <1>2, <1>3, <1>5 DEF CopyEnd, HashUpload, CommitFails, At
<1>6. CASE RemoveUploadDir(p) \/ TruncateLink(p) \/ WriteLink(p)
  BY <1>2, <1>3, <1>6
  DEF RemoveUploadDir, TruncateLink, WriteLink, At, PublishedBy
<1>7. CASE ReadLink(p)
  BY <1>2, <1>3, <1>7 DEF ReadLink, Miss, At
<1>8. CASE OpenBlob(p)
  <2> DEFINE i == blob[req[p].dig]
  <2>1. /\ UNCHANGED blob /\ ~At(p, "rename")
        /\ \/ Finish(p)
           \/ req' = [req EXCEPT ![p].pc = "send", ![p].src = i]
           \/ \E u \in UUIDs :
                 req' = [req EXCEPT ![p].pc = "open", ![p].up = u,
                                    ![p].src = i, ![p].body = data[i]]
    BY <1>8 DEF OpenBlob, Miss, At
  <2> HIDE DEF i
  <2>2. CASE Finish(p)
    BY <1>2, <2>1, <2>2
  <2>3. CASE req' = [req EXCEPT ![p].pc = "send", ![p].src = i]
    BY <2>1, <2>3 DEF QuietMove, At, PublishedBy, Request
  <2>4. ASSUME NEW u \in UUIDs,
               req' = [req EXCEPT ![p].pc = "open", ![p].up = u,
                                  ![p].src = i, ![p].body = data[i]]
        PROVE  \A q \in Procs : QuietMove(q)
    <3>1. /\ \A q \in Procs \ {p} : req'[q] = req[q]
          /\ req'[p].pc = "open"
      BY <2>4 DEF Request
    <3> QED
      BY <2>1, <3>1 DEF QuietMove, At, PublishedBy
  <2> QED
    BY <2>1, <2>2, <2>3, <2>4
<1> QED
  BY <1>4, <1>5, <1>6, <1>7, <1>8 DEF Serve

LEMMA QuietArrive ==
    ASSUME req \in [Procs -> Request], NEW p \in Procs, Arrive(p)
    PROVE  /\ \A q \in Procs : QuietMove(q)
           /\ UNCHANGED <<blob, link, acked>>
<1>1. ASSUME NEW r, Begin(p, r), r.pc \in {"open", "hash", "getlink"}
      PROVE  \A q \in Procs : QuietMove(q)
  BY <1>1 DEF Begin, QuietMove, At, PublishedBy
<1>2. ASSUME NEW r \in Repos, NEW d \in Digests, NEW b \in Bodies,
             PostSingle(p, r, d, b)
      PROVE  \A q \in Procs : QuietMove(q)
  BY <1>1, <1>2 DEF PostSingle, Idle
<1>3. ASSUME NEW u \in UUIDs, NEW s \in Starts, NEW b \in Bodies,
             Patch(p, u, s, b)
      PROVE  \A q \in Procs : QuietMove(q)
  BY <1>1, <1>3 DEF Patch, Idle
<1>4. ASSUME NEW u \in UUIDs, NEW d \in Digests, NEW s \in Starts,
             NEW b \in Bodies, Put(p, u, d, s, b)
      PROVE  \A q \in Procs : QuietMove(q)
  <2> DEFINE r == [Idle EXCEPT !.pc = IF b = <<>> THEN "hash" ELSE "open",
                               !.op = "put", !.repo = session[u], !.up = u,
                               !.dig = d, !.off = s, !.body = b]
  <2>1. r.pc \in {"open", "hash", "getlink"}
    BY DEF Idle
  <2>2. Begin(p, r)
    BY <1>4 DEF Put
  <2> HIDE DEF r
  <2> QED
    BY <1>1, <2>1, <2>2
<1>5. ASSUME NEW r \in Repos, NEW d \in Digests, Get(p, r, d)
      PROVE  \A q \in Procs : QuietMove(q)
  BY <1>1, <1>5 DEF Get, Idle
<1>6. ASSUME NEW r \in Repos, NEW f \in Repos \union {None}, NEW d \in Digests,
             Mount(p, r, f, d)
      PROVE  \A q \in Procs : QuietMove(q)
  BY <1>1, <1>6 DEF Mount, Idle
<1>7. \A q \in Procs : QuietMove(q)
  BY <1>2, <1>3, <1>4, <1>5, <1>6 DEF Arrive
<1>8. UNCHANGED <<blob, link, acked>>
  BY DEF Arrive, PostSingle, Patch, Put, Get, Mount
<1> QED
  BY <1>7, <1>8

\* A step that touches no blob, and no link but to fill or empty it.
LEMMA QuietListed ==
    ASSUME RInv, UNCHANGED <<blob, acked, Listed>>,
           \A q \in Procs : QuietMove(q)
    PROVE  Simulates
<1>1. \A d \in Digests : Published(d)' <=> Published(d)
  BY QuietPublished
<1>2. UNCHANGED <<Available, Listed>>
  BY <1>1 DEF Available, Listed
<1>3. \A q \in Procs : PublishedBy(q) => req[q].dig \in Digests
  BY DEF RInv, IInv, Typed, Shape, ShapeOf, PublishedBy, Committing
<1>4. ASSUME NEW q \in Procs, PublishedBy(q)' PROVE Published(req[q].dig)'
  <2>1. PublishedBy(q) /\ req'[q].dig = req[q].dig
    BY <1>4 DEF QuietMove, PublishedBy
  <2>2. Published(req[q].dig) /\ req[q].dig \in Digests
    BY <1>3, <2>1 DEF RInv, LinkInv
  <2> DEFINE d == req[q].dig
  <2>3. Published(d) /\ d \in Digests
    BY <2>2
  <2>4. blob'[d] # None \/ \E p \in Procs : At(p, "rename")' /\ req'[p].dig = d
    BY <2>3 DEF QuietMove, Published, At, PublishedBy
  <2> QED
    BY <2>1, <2>4 DEF Published, At
<1>5. \A x \in Layers : x[2] \in Digests
  BY DEF Layers
<1>6. \A x \in Layers : link'[x] # "absent" <=> link[x] # "absent"
  BY <1>2 DEF Listed
<1>7. LinkInv'
  BY <1>1, <1>2, <1>4, <1>5, <1>6 DEF RInv, LinkInv
<1> QED
  BY <1>2, <1>7 DEF Simulates

\* A step that touches neither blobs nor links.
LEMMA QuietStep ==
    ASSUME RInv, UNCHANGED <<blob, link, acked>>,
           \A q \in Procs : QuietMove(q)
    PROVE  Simulates
<1>1. UNCHANGED Listed
  BY DEF Listed
<1> QED
  BY <1>1, QuietListed

LEMMA QuietGoto ==
    ASSUME req \in [Procs -> Request], NEW p \in Procs, NEW pc, Goto(p, pc),
           \/ ~At(p, "rename") /\ pc \notin {"rename", "rmdir", "link", "linkwrite"}
           \/ PublishedBy(p) /\ pc \in {"rmdir", "link", "linkwrite"}
    PROVE  \A q \in Procs : QuietMove(q)
<1>1. /\ \A q \in Procs \ {p} : req'[q] = req[q]
      /\ req'[p].pc = pc
      /\ req'[p].dig = req[p].dig
  BY GotoFields
<1> QED
  BY <1>1 DEF QuietMove, At, PublishedBy

LEMMA QuietFinish ==
    ASSUME req \in [Procs -> Request], NEW p \in Procs, Finish(p), ~At(p, "rename")
    PROVE  \A q \in Procs : QuietMove(q)
<1>1. /\ \A q \in Procs \ {p} : req'[q] = req[q]
      /\ req'[p].pc = "idle"
  BY FinishFields
<1> QED
  BY <1>1 DEF QuietMove, At, PublishedBy

\* What a commit holds when it is about to rename: its file, with the
\* content its digest names, so that the rename succeeds.
LEMMA RenameHolds ==
    ASSUME IInv, NEW p \in Procs, At(p, "rename")
    PROVE  /\ req[p].dig \in Digests /\ req[p].up \in UUIDs
           /\ updir[req[p].up] = "data"
           /\ Hash(data[req[p].up]) = req[p].dig
BY DEF IInv, Verified, Typed, Shape, ShapeOf, Committing, Writing, At

\* A blob is lost by nothing but a kill of a commit that stands between its
\* remove and its rename, and its verified content stays in the upload
\* directory, for any number of requests and kills, when clients keep to one
\* request per session.
THEOREM LossesAreKills == ASSUME ~Overlap PROVE Spec => LostOnlyByKill
<1> DEFINE LostTo(p, d) ==
        /\ At(p, "rename") /\ req[p].dig = d /\ crashes' # crashes
        /\ updir'[req[p].up] = "data" /\ Hash(data'[req[p].up]) = d
<1> DEFINE Stays(d) == Published(d)' \/ \E p \in Procs : LostTo(p, d)
<1>1. ASSUME IInv, [Next]_vars
      PROVE  \A d \in Digests : Published(d) => Stays(d)
  <2> SUFFICES ASSUME NEW d \in Digests, Published(d) PROVE Stays(d)
    OBVIOUS
  <2>0. /\ req \in [Procs -> Request]
        /\ blob \in [Digests -> UUIDs \union {None}]
        /\ crashes \in Nat
    BY <1>1 DEF IInv, Typed, TypeOK
  <2>1. ASSUME UNCHANGED blob, \A q \in Procs : QuietMove(q) PROVE Stays(d)
    BY <2>1, QuietPublished
  <2>2. ASSUME NEW p \in Procs, Arrive(p) PROVE Stays(d)
    BY <2>0, <2>1, <2>2, QuietArrive
  <2>3. ASSUME NEW p \in Procs, RemoveOld(p) PROVE Stays(d)
    <3> DEFINE e == req[p].dig
    <3>1. /\ blob' = [blob EXCEPT ![e] = None] /\ ~At(p, "rename")
          /\ \A q \in Procs \ {p} : req'[q] = req[q]
          /\ req'[p].pc = "rename" /\ req'[p].dig = e
      BY <2>0, <2>3, GotoFields DEF RemoveOld, At
    <3> HIDE DEF e
    <3>2. blob'[d] # None \/ \E q \in Procs : req'[q].pc = "rename" /\ req'[q].dig = d
      BY <2>0, <3>1 DEF Published, At
    <3> QED
      BY <3>2 DEF Published, At
  <2>4. ASSUME NEW p \in Procs, RenameUpload(p) PROVE Stays(d)
    <3> DEFINE e == req[p].dig
               u == req[p].up
    <3>1. /\ blob' = [blob EXCEPT ![e] = u] /\ e \in Digests /\ u # None
          /\ \A q \in Procs \ {p} : req'[q] = req[q]
      BY <1>1, <2>0, <2>4, RenameHolds, GotoFields, UploadConstants
      DEF RenameUpload
    <3> HIDE DEF u
    <3>2. CASE d = e
      BY <2>0, <3>1, <3>2 DEF Published
    <3>3. CASE d # e
      <4>1. blob'[d] = blob[d]
        BY <2>0, <3>1, <3>3
      <4>2. blob'[d] # None \/ \E q \in Procs : req'[q].pc = "rename" /\ req'[q].dig = d
        BY <3>1, <3>3, <4>1 DEF Published, At
      <4> QED
        BY <4>2 DEF Published, At
    <3> QED
      BY <3>2, <3>3
  <2>5. ASSUME NEW p \in Procs, Serve(p) PROVE Stays(d)
    BY <2>0, <2>1, <2>3, <2>4, <2>5, QuietServe
  <2>6. ASSUME NEW p \in Procs, CopyBreak(p) PROVE Stays(d)
    BY <2>0, <2>1, <2>6, QuietFinish DEF CopyBreak, At
  <2>7. ASSUME NEW p \in Procs, Crash(p) PROVE Stays(d)
    <3>1. /\ UNCHANGED <<blob, updir, data>> /\ crashes' # crashes
          /\ \A q \in Procs \ {p} : req'[q] = req[q]
      BY <2>0, <2>7, FinishFields DEF Crash
    <3>2. CASE blob[d] # None
      BY <3>1, <3>2 DEF Published
    <3>3. ASSUME NEW q \in Procs, At(q, "rename"), req[q].dig = d PROVE Stays(d)
      <4>1. CASE q = p
        BY <1>1, <3>1, <3>3, <4>1, RenameHolds
      <4>2. CASE q # p
        <5>1. req'[q].pc = "rename" /\ req'[q].dig = d
          BY <3>1, <3>3, <4>2 DEF At
        <5> QED
          BY <5>1 DEF Published, At
      <4> QED
        BY <4>1, <4>2
    <3> QED
      BY <3>2, <3>3 DEF Published
  <2>8. ASSUME NEW r \in Repos, PostThenPut(r) PROVE Stays(d)
    BY <2>1, <2>8 DEF PostThenPut, QuietMove
  <2>9. ASSUME NEW u \in UUIDs, Cancel(u) PROVE Stays(d)
    BY <2>1, <2>9 DEF Cancel, QuietMove
  <2>10. ASSUME NEW x \in Layers, DeleteLayer(x) PROVE Stays(d)
    <3>1. \A q \in Procs : req'[q] = req[q] \/ ~At(q, "rename")
      BY <2>0, <2>10 DEF DeleteLayer, At
    <3>2. blob'[d] # None \/ \E q \in Procs : req'[q].pc = "rename" /\ req'[q].dig = d
      BY <2>10, <3>1 DEF DeleteLayer, Published, At
    <3> QED
      BY <3>2 DEF Published, At
  <2>11. CASE UNCHANGED vars
    BY <2>1, <2>11 DEF vars, QuietMove
  <2>12. ASSUME NEW p \in Procs, DiskFails(p) PROVE Stays(d)
    BY <2>0, <2>1, <2>12, QuietFinish DEF DiskFails, CommitFails, At
  <2> QED
    BY <1>1, <2>2, <2>5, <2>6, <2>7, <2>8, <2>9, <2>10, <2>11, <2>12 DEF Next
<1>2. IInv /\ [Next]_vars =>
        [\A d \in Digests : Published(d) /\ ~Published(d)' =>
            \E p \in Procs :
                /\ At(p, "rename") /\ req[p].dig = d /\ crashes' # crashes
                /\ updir'[req[p].up] = "data"
                /\ Hash(data'[req[p].up]) = d]_vars
  BY <1>1
<1>3. IInv /\ [Next]_vars => IInv'
  BY IntegrityStep
<1> QED
  BY IntegrityInit, <1>2, <1>3, PTL DEF Spec, LostOnlyByKill

\* The removal before the rename: from now on the commit stands for its
\* digest.
LEMMA RemoveOldSimulates ==
    ASSUME RInv, NEW p \in Procs, RemoveOld(p)
    PROVE  Simulates
<1>1. /\ req[p].pc = "remove" /\ req[p].dig \in Digests
      /\ blob \in [Digests -> UUIDs \union {None}]
      /\ req \in [Procs -> Request]
  BY DEF RInv, IInv, Typed, TypeOK, Shape, ShapeOf, RemoveOld, At, Committing
<1>2. /\ \A q \in Procs \ {p} : req'[q] = req[q]
      /\ req'[p].pc = "rename" /\ req'[p].dig = req[p].dig
  BY <1>1, GotoFields DEF RemoveOld
<1>3. /\ blob' = [blob EXCEPT ![req[p].dig] = None]
      /\ UNCHANGED <<link, acked>>
  BY DEF RemoveOld
<1>4. Published(req[p].dig)'
  BY <1>2 DEF Published, At
<1>5. \A d \in Digests : d # req[p].dig => (Published(d)' <=> Published(d))
  BY <1>1, <1>2, <1>3 DEF Published, At
<1>6. \A d \in Digests : Published(d) => Published(d)'
  <2> SUFFICES ASSUME NEW d \in Digests, Published(d) PROVE Published(d)'
    OBVIOUS
  <2>1. CASE d = req[p].dig
    BY <1>2, <2>1 DEF Published, At
  <2>2. CASE d # req[p].dig
    BY <1>5, <2>2
  <2> QED
    BY <2>1, <2>2
<1>7. LinkInv'
  <2>1. \A x \in Layers : link'[x] # "absent" => Published(x[2])'
    BY <1>3, <1>6 DEF RInv, LinkInv, Layers
  <2>2. ASSUME NEW q \in Procs, PublishedBy(q)' PROVE Published(req[q].dig)'
    <3>1. q # p /\ req'[q] = req[q] /\ PublishedBy(q)
      BY <1>2, <2>2 DEF PublishedBy
    <3> DEFINE d == req[q].dig
    <3>2. d \in Digests /\ Published(d)
      BY <3>1 DEF RInv, LinkInv, IInv, Typed, Shape, ShapeOf, PublishedBy,
                  Committing
    <3> HIDE DEF d
    <3>3. blob'[d] # None \/ \E r \in Procs : At(r, "rename")' /\ req'[r].dig = d
      <4>1. CASE d = req[p].dig
        BY <1>2, <4>1 DEF At
      <4>2. CASE d # req[p].dig
        BY <1>1, <1>2, <1>3, <3>2, <4>2 DEF Published, At
      <4> QED
        BY <4>1, <4>2
    <3> QED
      BY <3>1, <3>3 DEF Published, At, d
  <2>3. acked' \subseteq Listed'
    BY <1>3 DEF RInv, LinkInv, Listed
  <2> QED
    BY <2>1, <2>2, <2>3 DEF LinkInv
<1>8. Available' = Available \union {req[p].dig}
  <2>1. req[p].dig \in Available'
    BY <1>1, <1>2 DEF Available, Published, At
  <2> QED
    BY <1>1, <1>5, <2>1 DEF Available
<1>9. Listed' = Listed
  BY <1>3 DEF Listed
<1> QED
  BY <1>1, <1>7, <1>8, <1>9
  DEF Simulates, Available, Listed, Store!Next, Store!Publish

\* The rename turns the promise into the blob.
LEMMA RenameSimulates ==
    ASSUME RInv, NEW p \in Procs, RenameUpload(p)
    PROVE  Simulates
<1> DEFINE e == req[p].dig
<1>1. /\ req[p].pc = "rename" /\ e \in Digests
      /\ req[p].up \in UUIDs /\ req[p].up # None
      /\ updir[req[p].up] = "data"
      /\ blob \in [Digests -> UUIDs \union {None}]
      /\ req \in [Procs -> Request]
  BY UploadConstants
  DEF RInv, IInv, Typed, TypeOK, Shape, ShapeOf, RenameUpload, Verified, At,
      Committing, Writing
<1>2. /\ blob' = [blob EXCEPT ![e] = req[p].up]
      /\ Goto(p, "rmdir")
      /\ UNCHANGED <<link, acked>>
  BY <1>1 DEF RenameUpload
<1>3. /\ \A q \in Procs \ {p} : req'[q] = req[q]
      /\ req'[p].pc = "rmdir" /\ req'[p].dig = e
  BY <1>1, <1>2, GotoFields
<1>4. blob'[e] # None
  BY <1>1, <1>2
<1>5. \A d \in Digests : d # e => blob'[d] = blob[d]
  BY <1>1, <1>2
<1> HIDE DEF e
<1>6. \A d \in Digests : Published(d)' <=> Published(d)
  <2> SUFFICES ASSUME NEW d \in Digests PROVE Published(d)' <=> Published(d)
    OBVIOUS
  <2>1. CASE d = e
    BY <1>1, <1>4, <2>1 DEF Published, At, e
  <2>2. CASE d # e
    BY <1>1, <1>3, <1>5, <2>2 DEF Published, At, e
  <2> QED
    BY <2>1, <2>2
<1>7. LinkInv'
  <2>1. \A x \in Layers : link'[x] # "absent" => Published(x[2])'
    BY <1>2, <1>6 DEF RInv, LinkInv, Layers
  <2>2. ASSUME NEW q \in Procs, PublishedBy(q)' PROVE Published(req[q].dig)'
    <3> DEFINE d == req'[q].dig
    <3>1. d \in Digests /\ Published(d)
      <4>1. CASE q = p
        BY <1>1, <1>3, <4>1 DEF Published, At, e
      <4>2. CASE q # p
        BY <1>3, <2>2, <4>2
        DEF RInv, LinkInv, IInv, Typed, Shape, ShapeOf, PublishedBy, Committing
      <4> QED
        BY <4>1, <4>2
    <3>2. blob'[d] # None \/ \E r \in Procs : At(r, "rename")' /\ req'[r].dig = d
      <4>1. CASE d = e
        BY <1>4, <4>1
      <4>2. CASE d # e
        BY <1>1, <1>3, <1>5, <3>1, <4>2 DEF Published, At, e
      <4> QED
        BY <4>1, <4>2
    <3> QED
      BY <3>2 DEF Published, At
  <2>3. acked' \subseteq Listed'
    BY <1>2 DEF RInv, LinkInv, Listed
  <2> QED
    BY <2>1, <2>2, <2>3 DEF LinkInv
<1>8. UNCHANGED <<Available, Listed>>
  BY <1>2, <1>6 DEF Available, Listed
<1> QED
  BY <1>7, <1>8 DEF Simulates

\* A link is created: the blob it leads to is available.
LEMMA LinkSimulates ==
    ASSUME RInv, NEW p \in Procs, TruncateLink(p) \/ WriteLink(p)
    PROVE  Simulates
<1> DEFINE x == Target(p)
<1>1. /\ PublishedBy(p) /\ x \in Layers /\ x[2] = req[p].dig
      /\ req[p].repo \in Repos /\ req[p].dig \in Digests
      /\ link \in [Layers -> {"absent", "torn", "spoilt", "whole"}]
      /\ req \in [Procs -> Request]
  BY DEF RInv, IInv, Typed, TypeOK, Shape, ShapeOf, TruncateLink, WriteLink, At,
         PublishedBy, Target, Layers, Committing
<1>2. /\ UNCHANGED blob
      /\ link' \in {[link EXCEPT ![x] = "torn"], [link EXCEPT ![x] = "whole"]}
      /\ acked' \subseteq acked \union {x}
      /\ \A q \in Procs : QuietMove(q)
  BY <1>1, QuietGoto, QuietFinish DEF TruncateLink, WriteLink, At
<1>3. \A d \in Digests : Published(d)' <=> Published(d)
  BY <1>2, QuietPublished
<1>4. link'[x] # "absent" /\ \A y \in Layers \ {x} : link'[y] = link[y]
  BY <1>1, <1>2
<1>5. Published(x[2])
  BY <1>1 DEF RInv, LinkInv
<1>6. x[2] \in Digests /\ \A y \in Layers : y[2] \in Digests
  BY <1>1 DEF Layers
<1> HIDE DEF x
<1>7. LinkInv'
  <2>1. ASSUME NEW y \in Layers, link'[y] # "absent" PROVE Published(y[2])'
    <3>1. Published(y[2])
      BY <1>4, <1>5, <2>1 DEF RInv, LinkInv
    <3> QED
      BY <1>3, <1>6, <3>1
  <2>2. ASSUME NEW q \in Procs, PublishedBy(q)' PROVE Published(req[q].dig)'
    <3> DEFINE d == req'[q].dig
    <3>1. PublishedBy(q) /\ d = req[q].dig
      BY <1>2, <2>2 DEF QuietMove, PublishedBy
    <3>2. d \in Digests /\ Published(d)
      BY <3>1 DEF RInv, LinkInv, IInv, Typed, Shape, ShapeOf, PublishedBy, Committing
    <3>3. blob'[d] # None \/ \E r \in Procs : At(r, "rename")' /\ req'[r].dig = d
      BY <1>2, <3>2 DEF Published, QuietMove, At, PublishedBy
    <3> QED
      BY <3>3 DEF Published, At
  <2>3. acked' \subseteq Listed'
    BY <1>1, <1>2, <1>4 DEF RInv, LinkInv, Listed, x
  <2> QED
    BY <2>1, <2>2, <2>3 DEF LinkInv
<1>8. Available' = Available
  BY <1>3 DEF Available
<1>9. Listed' = Listed \union {<<req[p].repo, req[p].dig>>}
  BY <1>1, <1>4 DEF Listed, x, Target
<1>10. req[p].dig \in Available
  BY <1>1, <1>5 DEF Available
<1> QED
  BY <1>1, <1>7, <1>8, <1>9, <1>10
  DEF Simulates, Available, Listed, Store!Next, Store!Link

LEMMA DeleteSimulates ==
    ASSUME RInv, NEW x \in Layers, DeleteLayer(x)
    PROVE  Simulates
<1>1. /\ link \in [Layers -> {"absent", "torn", "spoilt", "whole"}]
      /\ link' = [link EXCEPT ![x] = "absent"]
      /\ acked' = acked \ {x}
      /\ UNCHANGED blob
  BY DEF RInv, IInv, Typed, TypeOK, DeleteLayer
<1>2. \A q \in Procs : QuietMove(q)
  BY DEF DeleteLayer, QuietMove, PublishedBy, At, Idle
<1>3. \A d \in Digests : Published(d)' <=> Published(d)
  BY <1>1, <1>2, QuietPublished
<1>4. Available' = Available
  BY <1>3 DEF Available
<1>5. Listed' = Listed \ {x}
  BY <1>1 DEF Listed
<1>6. LinkInv'
  <2>1. ASSUME NEW y \in Layers, link'[y] # "absent" PROVE Published(y[2])'
    <3>1. Published(y[2]) /\ y[2] \in Digests
      BY <1>1, <2>1 DEF RInv, LinkInv, Layers
    <3> QED
      BY <1>3, <3>1
  <2>2. ASSUME NEW q \in Procs, PublishedBy(q)' PROVE Published(req[q].dig)'
    <3> DEFINE d == req'[q].dig
    <3>1. PublishedBy(q) /\ d = req[q].dig
      BY <1>2, <2>2 DEF QuietMove, PublishedBy
    <3>2. d \in Digests /\ Published(d)
      BY <3>1 DEF RInv, LinkInv, IInv, Typed, Shape, ShapeOf, PublishedBy, Committing
    <3>3. blob'[d] # None \/ \E r \in Procs : At(r, "rename")' /\ req'[r].dig = d
      BY <1>1, <1>2, <3>2 DEF Published, QuietMove, At, PublishedBy
    <3> QED
      BY <3>3 DEF Published, At
  <2>3. acked' \subseteq Listed'
    BY <1>1, <1>5 DEF RInv, LinkInv
  <2> QED
    BY <2>1, <2>2, <2>3 DEF LinkInv
<1>7. PICK r \in Repos, d \in Digests : x = <<r, d>>
  BY DEF Layers
<1> QED
  BY <1>4, <1>5, <1>6, <1>7
  DEF Simulates, Available, Listed, Store!Next, Store!Unlink

\* No server is killed between the remove and the rename of a commit.
KillsSpareRenames == \A p \in Procs : Crash(p) => ~At(p, "rename")

LEMMA StepSimulates ==
    ASSUME KillsSpareRenames, RInv, [Next]_vars
    PROVE  Simulates
<1>0. req \in [Procs -> Request]
  BY DEF RInv, IInv, Typed, TypeOK
<1>1. ASSUME NEW r \in Repos, PostThenPut(r) PROVE Simulates
  BY <1>1, QuietStep DEF PostThenPut, QuietMove
<1>2. ASSUME NEW u \in UUIDs, Cancel(u) PROVE Simulates
  BY <1>2, QuietStep DEF Cancel, QuietMove
<1>3. ASSUME NEW x \in Layers, DeleteLayer(x) PROVE Simulates
  BY <1>3, DeleteSimulates
<1>4. ASSUME NEW p \in Procs, Arrive(p) PROVE Simulates
  BY <1>0, <1>4, QuietArrive, QuietStep
<1>5. ASSUME NEW p \in Procs, Serve(p) PROVE Simulates
  <2>1. ASSUME Finish(p), ~At(p, "rename"), UNCHANGED <<blob, link, acked>>
        PROVE  Simulates
    BY <1>0, <2>1, QuietFinish, QuietStep
  <2>2. ASSUME NEW pc, Goto(p, pc), UNCHANGED <<blob, link, acked>>,
               \/ ~At(p, "rename") /\ pc \notin {"rename", "rmdir", "link", "linkwrite"}
               \/ PublishedBy(p) /\ pc \in {"rmdir", "link", "linkwrite"}
        PROVE  Simulates
    BY <1>0, <2>2, QuietGoto, QuietStep
  <2>3. CASE OpenUpload(p)
    <3>1. \A q \in Procs : QuietMove(q)
      BY <1>0, <2>3, QuietFinish DEF OpenUpload, QuietMove, At, PublishedBy, Request
    <3> QED
      BY <2>3, <3>1, QuietStep DEF OpenUpload
  <2>4. CASE CopyPiece(p)
    <3>1. \A q \in Procs : QuietMove(q)
      BY <1>0, <2>4 DEF CopyPiece, QuietMove, At, PublishedBy, Request
    <3> QED
      BY <2>4, <3>1, QuietStep DEF CopyPiece
  <2>5. CASE CopyEnd(p)
    BY <2>1, <2>2, <2>5 DEF CopyEnd, At
  <2>6. CASE HashUpload(p)
    BY <2>1, <2>2, <2>6 DEF HashUpload, CommitFails, At
  <2>7. CASE RemoveOld(p)
    BY <2>7, RemoveOldSimulates
  <2>8. CASE RenameUpload(p)
    BY <2>8, RenameSimulates
  <2>9. CASE RemoveUploadDir(p)
    BY <2>2, <2>9 DEF RemoveUploadDir, At, PublishedBy
  <2>10. CASE TruncateLink(p) \/ WriteLink(p)
    BY <2>10, LinkSimulates
  <2>11. CASE ReadLink(p)
    BY <2>1, <2>2, <2>11 DEF ReadLink, Miss, At
  <2>12. CASE OpenBlob(p)
    <3> DEFINE i == blob[req[p].dig]
    <3>0. /\ req[p].pc = "getblob" /\ ~At(p, "rename")
          /\ \/ Miss(p)
             \/ req' = [req EXCEPT ![p].pc = "send", ![p].src = i]
             \/ \E u \in UUIDs :
                   req' = [req EXCEPT ![p].pc = "open", ![p].up = u,
                                      ![p].src = i, ![p].body = data[i]]
      BY <2>12 DEF OpenBlob, At
    <3> HIDE DEF i
    <3>1. \A q \in Procs : QuietMove(q)
      <4>1. CASE Miss(p)
        BY <1>0, <3>0, <4>1, QuietFinish DEF Miss
      <4>2. CASE req' = [req EXCEPT ![p].pc = "send", ![p].src = i]
        BY <1>0, <3>0, <4>2 DEF QuietMove, At, PublishedBy, Request
      <4>3. ASSUME NEW u \in UUIDs,
                   req' = [req EXCEPT ![p].pc = "open", ![p].up = u,
                                      ![p].src = i, ![p].body = data[i]]
            PROVE  \A q \in Procs : QuietMove(q)
        <5>1. /\ \A q \in Procs \ {p} : req'[q] = req[q]
              /\ req'[p].pc = "open"
          BY <1>0, <4>3 DEF Request
        <5> QED
          BY <3>0, <5>1 DEF QuietMove, At, PublishedBy
      <4> QED
        BY <3>0, <4>1, <4>2, <4>3
    <3> QED
      BY <2>12, <3>1, QuietStep DEF OpenBlob
  <2>13. CASE SendBlob(p)
    BY <2>1, <2>13 DEF SendBlob, At
  <2> QED
    BY <1>5, <2>3, <2>4, <2>5, <2>6, <2>7, <2>8, <2>9, <2>10, <2>11, <2>12,
       <2>13 DEF Serve
<1>6. ASSUME NEW p \in Procs, CopyBreak(p) PROVE Simulates
  BY <1>0, <1>6, QuietFinish, QuietStep DEF CopyBreak, At
<1>7. ASSUME NEW p \in Procs, Crash(p) PROVE Simulates
  BY <1>0, <1>7, QuietFinish, QuietStep DEF Crash, KillsSpareRenames
<1>8. CASE UNCHANGED vars
  BY <1>8, QuietStep DEF vars, QuietMove
<1>9. ASSUME NEW p \in Procs, DiskFails(p) PROVE Simulates
  <2>1. UNCHANGED <<blob, acked>> /\ Finish(p) /\ ~At(p, "rename")
    BY <1>9 DEF DiskFails, CommitFails, At
  <2>2. \A x \in Layers : link'[x] = "absent" <=> link[x] = "absent"
    BY <1>9 DEF DiskFails, CommitFails, RInv, IInv, Typed, TypeOK
  <2>3. UNCHANGED Listed
    BY <2>2 DEF Listed
  <2> QED
    BY <1>0, <2>1, <2>3, QuietFinish, QuietListed
<1> QED
  BY <1>1, <1>2, <1>3, <1>4, <1>5, <1>6, <1>7, <1>8, <1>9 DEF Next

LEMMA RefinementInit == Init => RInv /\ Store!Init
<1> SUFFICES ASSUME Init PROVE RInv /\ Store!Init
  OBVIOUS
<1>1. IInv
  BY IntegrityInit
<1>2. \A d \in Digests : ~Published(d)
  BY DEF Init, Published, At, Idle
<1>3. LinkInv
  BY DEF Init, LinkInv, PublishedBy, Idle, Listed
<1> QED
  BY <1>1, <1>2, <1>3 DEF RInv, Store!Init, Init

\* A system in which nothing is killed is an instance of what follows.
LEMMA NoKills == ASSUME MaxCrashes = 0 PROVE Spec => [][KillsSpareRenames]_vars
<1>1. TypeOK => [KillsSpareRenames]_vars
  BY DEF TypeOK, KillsSpareRenames, Crash
<1> QED
  BY <1>1, TypeCorrect, PTL

LEMMA RefinementStep ==
    ASSUME ~Overlap
    PROVE  RInv /\ [Next]_vars /\ [KillsSpareRenames]_vars =>
                RInv' /\ [Store!Next]_(Store!vars)
<1> SUFFICES ASSUME RInv, [Next]_vars, [KillsSpareRenames]_vars
             PROVE  RInv' /\ [Store!Next]_(Store!vars)
  OBVIOUS
<1>1. KillsSpareRenames
  BY DEF KillsSpareRenames, Crash, vars, RInv, IInv, Typed, TypeOK
<1>2. Simulates
  BY <1>1, StepSimulates
<1>3. IInv'
  BY IntegrityStep DEF RInv
<1> QED
  BY <1>2, <1>3 DEF RInv, Simulates, Store!vars, Available, Listed

\* The uploads implement the abstract store: available digests stay
\* available, and a repository lists only what is available
\* (BlobsUploadCommit publishes before it links), for any number of requests
\* and of servers killed at other points, when clients keep to one request
\* per session and no server is killed between its remove and its rename.
THEOREM UploadsImplementStore ==
    ASSUME ~Overlap PROVE Spec /\ [][KillsSpareRenames]_vars => ImplementsStore
<1>1. RInv /\ [Next]_vars /\ [KillsSpareRenames]_vars =>
            RInv' /\ [Store!Next]_(Store!vars)
  BY RefinementStep
<1> QED
  BY RefinementInit, <1>1, PTL DEF Spec, ImplementsStore, Store!Spec

\* A repository's layer link always leads to a blob, under the same
\* conditions.
THEOREM LinksHold ==
    ASSUME ~Overlap PROVE Spec /\ [][KillsSpareRenames]_vars => []LinkNeverDangles
<1>1. RInv /\ [Next]_vars /\ [KillsSpareRenames]_vars => RInv'
  BY RefinementStep
<1>2. RInv => LinkNeverDangles
  BY DEF RInv, LinkInv, LinkNeverDangles
<1> QED
  BY RefinementInit, <1>1, <1>2, PTL DEF Spec

\* An acknowledged layer keeps its blob, under the same conditions.
THEOREM AckedHolds ==
    ASSUME ~Overlap PROVE Spec /\ [][KillsSpareRenames]_vars => []AckedBlobKept
<1>1. RInv /\ [Next]_vars /\ [KillsSpareRenames]_vars => RInv'
  BY RefinementStep
<1>2. RInv => AckedBlobKept
  BY DEF RInv, LinkInv, AckedBlobKept, Listed
<1> QED
  BY RefinementInit, <1>1, <1>2, PTL DEF Spec

=============================================================================
