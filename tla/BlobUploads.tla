----------------------------- MODULE BlobUploads -----------------------------
(***************************************************************************)
(* Upload sessions, the commit of an upload as a content-addressed blob,   *)
(* the layer links of the repositories, and the requests that run over     *)
(* them concurrently.                                                      *)
(*                                                                         *)
(* A step is one file-system operation of a handler (or several that no    *)
(* other request can tell apart from one).  Every request runs in its own  *)
(* goroutine, possibly of another server over the same data directory;     *)
(* nothing locks anything.                                                 *)
(*                                                                         *)
(* An upload session creates exactly one file, so its UUID also names the  *)
(* file's inode: "data" is the content of the inode, "updir" says whether  *)
(* the session's path still leads to it, and "blob" which inode a blob     *)
(* path leads to.  A descriptor held by a request keeps its inode alive    *)
(* whatever happens to the paths.                                          *)
(***************************************************************************)
EXTENDS Integers, Sequences

CONSTANTS
    Repos,       \* repository names
    UUIDs,       \* upload identifiers: random, so never handed out twice
    Procs,       \* request goroutines
    Bytes,       \* the pieces io.Copy writes, one per write(2)
    Zero,        \* what a hole left by a seek beyond the end reads as
    Digests,     \* the digests requests name
    Hash(_),     \* the digest of a content
    Bodies,      \* the request bodies clients send
    None,        \* no repository, no file
    Overlap,     \* may a client have two requests in flight on one session?
    MaxLen,      \* bound: the length an upload may reach
    MaxCrashes   \* bound: requests that die half way (a killed server)

ASSUME UploadConstants ==
    /\ Zero \in Bytes
    /\ Bodies \subseteq Seq(Bytes)
    /\ None \notin Repos \union UUIDs
    /\ Overlap \in BOOLEAN
    /\ MaxLen \in Nat /\ MaxCrashes \in Nat

VARIABLES
    session,     \* repository of each upload a client knows, None otherwise
    updir,       \* upload directory: "unused", "data", "empty" or "absent"
    data,        \* content of each upload's inode
    blob,        \* the inode each blob path leads to, None when absent
    link,        \* layer links: "absent", "torn" (truncated), "spoilt" (the
                 \* write failed) or "whole"
    req,         \* the request each goroutine serves, and how far it got
    acked,       \* layers a 201 acknowledged and no DELETE removed since
    crashes

vars == <<session, updir, data, blob, link, req, acked, crashes>>

Layers == Repos \X Digests

-----------------------------------------------------------------------------
(* Requests.                                                               *)

PCs == {"idle", "open", "copy", "hash", "remove", "rename", "rmdir", "link",
        "linkwrite", "getlink", "getblob", "send"}

(* repo: the repository of the URL; from: the one a read goes through;     *)
(* up, src: the inodes written and read; off: the start of the range (-1   *)
(* to append), then the file offset; body: what is still to be written.    *)
Request ==
    [pc : PCs, op : {"none", "patch", "put", "single", "mount", "get"},
     repo : Repos \union {None}, from : Repos \union {None},
     up : UUIDs \union {None}, src : UUIDs \union {None},
     dig : Digests \union {None}, off : Nat \union {-1}, body : Seq(Bytes)]

Idle == [pc |-> "idle", op |-> "none", repo |-> None, from |-> None,
         up |-> None, src |-> None, dig |-> None, off |-> -1, body |-> <<>>]

At(p, pc) == req[p].pc = pc

Goto(p, pc) == req' = [req EXCEPT ![p].pc = pc]

Finish(p) == req' = [req EXCEPT ![p] = Idle]

Begin(p, r) == At(p, "idle") /\ req' = [req EXCEPT ![p] = r]

(* The client contract of the distribution specification is that the       *)
(* chunks of an upload are sent one after the other.  The server does not  *)
(* enforce it, and a client that retries after a timeout breaks it.        *)
MayUse(u) ==
    /\ session[u] # None
    /\ Overlap \/ \A q \in Procs : req[q].up # u

Init ==
    /\ session = [u \in UUIDs |-> None]
    /\ updir = [u \in UUIDs |-> "unused"]
    /\ data = [u \in UUIDs |-> <<>>]
    /\ blob = [d \in Digests |-> None]
    /\ link = [x \in Layers |-> "absent"]
    /\ req = [p \in Procs |-> Idle]
    /\ acked = {}
    /\ crashes = 0

-----------------------------------------------------------------------------
(* Sessions.                                                               *)

\* BlobsUploadCreate: the directory and its empty data file.
Create(u) ==
    /\ updir[u] = "unused"
    /\ updir' = [updir EXCEPT ![u] = "data"]

\* A session whose location a 202 response tells the client.
Open(r) ==
    \E u \in UUIDs : Create(u) /\ session' = [session EXCEPT ![u] = r]

\* POST without mount or digest.
PostThenPut(r) ==
    /\ Open(r)
    /\ UNCHANGED <<data, blob, link, req, acked, crashes>>

\* POST ?digest=: create, write the body at offset 0, commit.  No response
\* ever carries the UUID.
PostSingle(p, r, d, b) ==
    \E u \in UUIDs :
        /\ Create(u)
        /\ Begin(p, [Idle EXCEPT !.pc = "open", !.op = "single", !.repo = r,
                                 !.up = u, !.dig = d, !.off = 0, !.body = b])
        /\ UNCHANGED <<session, data, blob, link, acked, crashes>>

\* PATCH: 404 without data, 416 when a range does not start at the size.
\* The size is read here, the file is opened later.
Patch(p, u, start, b) ==
    /\ MayUse(u)
    /\ updir[u] = "data"
    /\ start < 0 \/ start = Len(data[u])
    /\ Len(data[u]) + Len(b) <= MaxLen
    /\ Begin(p, [Idle EXCEPT !.pc = "open", !.op = "patch", !.up = u,
                             !.repo = session[u], !.off = start, !.body = b])
    /\ UNCHANGED <<session, updir, data, blob, link, acked, crashes>>

\* PUT ?digest=: commit, after an optional last chunk whose range nobody
\* compares with the size.
Put(p, u, d, start, b) ==
    /\ MayUse(u)
    /\ Len(data[u]) + Len(b) <= MaxLen /\ start + Len(b) <= MaxLen
    /\ Begin(p, [Idle EXCEPT !.pc = IF b = <<>> THEN "hash" ELSE "open",
                             !.op = "put", !.repo = session[u], !.up = u,
                             !.dig = d, !.off = start, !.body = b])
    /\ UNCHANGED <<session, updir, data, blob, link, acked, crashes>>

\* DELETE of a session: 404 without a directory, else remove it.
Cancel(u) ==
    /\ MayUse(u)
    /\ updir[u] \in {"data", "empty"}
    /\ updir' = [updir EXCEPT ![u] = "absent"]
    /\ UNCHANGED <<session, data, blob, link, req, acked, crashes>>

-----------------------------------------------------------------------------
(* BlobsUploadWrite.                                                       *)

\* write(2) of one piece at an offset; a gap before it reads as zeros.
WriteAt(s, off, b) ==
    [i \in 1 .. (IF off + 1 > Len(s) THEN off + 1 ELSE Len(s)) |->
        IF i = off + 1 THEN b ELSE IF i <= Len(s) THEN s[i] ELSE Zero]

\* Open and seek: to the end, or to the start of the range.
OpenUpload(p) ==
    LET u == req[p].up IN
    /\ At(p, "open")
    /\ IF updir[u] = "data"
       THEN req' = [req EXCEPT ![p].pc = "copy",
                               ![p].off = IF @ < 0 THEN Len(data[u]) ELSE @]
       ELSE Finish(p)
    /\ UNCHANGED <<session, updir, data, blob, link, acked, crashes>>

CopyPiece(p) ==
    LET r == req[p] IN
    /\ At(p, "copy") /\ r.body # <<>>
    /\ data' = [data EXCEPT ![r.up] = WriteAt(@, r.off, Head(r.body))]
    /\ req' = [req EXCEPT ![p].off = @ + 1, ![p].body = Tail(@)]
    /\ UNCHANGED <<session, updir, blob, link, acked, crashes>>

\* The body ended: PATCH answers with the new size, the others commit.
CopyEnd(p) ==
    /\ At(p, "copy") /\ req[p].body = <<>>
    /\ IF req[p].op = "patch" THEN Finish(p) ELSE Goto(p, "hash")
    /\ UNCHANGED <<session, updir, data, blob, link, acked, crashes>>

\* The client went away in the middle of a body: the handler answers 500
\* and leaves the session and what it wrote as they are.
CopyBreak(p) ==
    /\ At(p, "copy") /\ req[p].body # <<>> /\ req[p].op # "mount"
    /\ Finish(p)
    /\ UNCHANGED <<session, updir, data, blob, link, acked, crashes>>

-----------------------------------------------------------------------------
(* BlobsUploadCommit.                                                      *)

\* A commit that fails answers the error; only the single POST cancels its
\* session before that.
CommitFails(p) ==
    /\ updir' = IF req[p].op = "single"
                THEN [updir EXCEPT ![req[p].up] = "absent"] ELSE updir
    /\ Finish(p)
    /\ UNCHANGED <<session, data, blob, link, acked, crashes>>

\* A mutant: the digest is not compared.
HashUploadUnchecked(p) ==
    /\ At(p, "hash")
    /\ IF updir[req[p].up] = "data"
       THEN /\ Goto(p, "remove")
            /\ UNCHANGED <<session, updir, data, blob, link, acked, crashes>>
       ELSE CommitFails(p)

\* A mutant: the link is written, and the blob never published.
HashUploadThenLink(p) ==
    LET u == req[p].up IN
    /\ At(p, "hash")
    /\ IF updir[u] = "data" /\ Hash(data[u]) = req[p].dig
       THEN /\ Goto(p, "link")
            /\ UNCHANGED <<session, updir, data, blob, link, acked, crashes>>
       ELSE CommitFails(p)

\* A mutant: the old blob goes before the digest is compared.
RemoveThenHash(p) ==
    LET u == req[p].up IN
    /\ At(p, "hash")
    /\ blob' = [blob EXCEPT ![req[p].dig] = None]
    /\ IF updir[u] = "data" /\ Hash(data[u]) = req[p].dig
       THEN Goto(p, "remove") ELSE Finish(p)
    /\ UNCHANGED <<session, updir, data, link, acked, crashes>>

\* Open the data, hash it, compare.
HashUpload(p) ==
    LET u == req[p].up IN
    /\ At(p, "hash")
    /\ IF updir[u] = "data" /\ Hash(data[u]) = req[p].dig
       THEN /\ Goto(p, "remove")
            /\ UNCHANGED <<session, updir, data, blob, link, acked, crashes>>
       ELSE CommitFails(p)

\* Remove whatever the blob path leads to ...
RemoveOld(p) ==
    /\ At(p, "remove")
    /\ blob' = [blob EXCEPT ![req[p].dig] = None]
    /\ Goto(p, "rename")
    /\ UNCHANGED <<session, updir, data, link, acked, crashes>>

\* A mutant: the file gets a second name and the session keeps the first.
LinkUpload(p) ==
    LET u == req[p].up IN
    /\ At(p, "rename")
    /\ IF updir[u] = "data"
       THEN /\ blob' = [blob EXCEPT ![req[p].dig] = u]
            /\ Goto(p, "link")
            /\ UNCHANGED <<session, updir, data, link, acked, crashes>>
       ELSE CommitFails(p)

\* A mutant: the remove comes after the rename.
RenameThenRemove(p) ==
    LET u == req[p].up IN
    /\ At(p, "rename")
    /\ IF updir[u] = "data"
       THEN /\ blob' = [blob EXCEPT ![req[p].dig] = None]
            /\ updir' = [updir EXCEPT ![u] = "empty"]
            /\ Goto(p, "rmdir")
            /\ UNCHANGED <<session, data, link, acked, crashes>>
       ELSE CommitFails(p)

\* ... and rename the data file to it.
RenameUpload(p) ==
    LET u == req[p].up IN
    /\ At(p, "rename")
    /\ IF updir[u] = "data"
       THEN /\ blob' = [blob EXCEPT ![req[p].dig] = u]
            /\ updir' = [updir EXCEPT ![u] = "empty"]
            /\ Goto(p, "rmdir")
            /\ UNCHANGED <<session, data, link, acked, crashes>>
       ELSE CommitFails(p)

RemoveUploadDir(p) ==
    /\ At(p, "rmdir")
    /\ updir' = [updir EXCEPT ![req[p].up] = "absent"]
    /\ Goto(p, "link")
    /\ UNCHANGED <<session, data, blob, link, acked, crashes>>

\* A mutant: the link is written where the mount read from.
TargetAtSource(p) == <<req[p].from, req[p].dig>>

\* The layer link a commit writes.
Target(p) == <<req[p].repo, req[p].dig>>

\* A mutant: the link is truncated and not filled.
TruncateLinkOnly(p) ==
    /\ At(p, "link")
    /\ link' = [link EXCEPT ![Target(p)] = "torn"]
    /\ Finish(p)
    /\ UNCHANGED <<session, updir, data, blob, acked, crashes>>

\* os.WriteFile truncates the link ...
TruncateLink(p) ==
    /\ At(p, "link")
    /\ link' = [link EXCEPT ![Target(p)] = "torn"]
    /\ Goto(p, "linkwrite")
    /\ UNCHANGED <<session, updir, data, blob, acked, crashes>>

\* ... then fills it; the handler answers 201.
WriteLink(p) ==
    /\ At(p, "linkwrite")
    /\ link' = [link EXCEPT ![Target(p)] = "whole"]
    /\ acked' = acked \union {Target(p)}
    /\ Finish(p)
    /\ UNCHANGED <<session, updir, data, blob, crashes>>

\* The disk fails a commit that has published its blob.  The blob stays; a
\* link that was truncated stays empty, unless another commit has filled it.
DiskFails(p) ==
    \/ /\ At(p, "rmdir") \/ At(p, "link")
       /\ CommitFails(p)
    \/ /\ At(p, "linkwrite")
       /\ link' = [link EXCEPT ![Target(p)] = IF @ = "torn" THEN "spoilt" ELSE @]
       /\ Finish(p)
       /\ UNCHANGED <<session, updir, data, blob, acked, crashes>>

-----------------------------------------------------------------------------
(* Reading, mounting and deleting layers.                                  *)

Get(p, r, d) ==
    /\ Begin(p, [Idle EXCEPT !.pc = "getlink", !.op = "get", !.from = r,
                             !.dig = d])
    /\ UNCHANGED <<session, updir, data, blob, link, acked, crashes>>

\* POST ?mount=d&from=f: read d from f (from the whole store when f is
\* empty) and commit a copy of it in r.
Mount(p, r, f, d) ==
    /\ Begin(p, [Idle EXCEPT !.pc = "getlink", !.op = "mount", !.repo = r,
                             !.from = f, !.dig = d])
    /\ UNCHANGED <<session, updir, data, blob, link, acked, crashes>>

\* A miss ends a GET with 404; a mount falls back to a plain session.
Miss(p) ==
    /\ Finish(p)
    /\ IF req[p].op = "mount"
       THEN Open(req[p].repo)
       ELSE UNCHANGED <<session, updir>>

\* The link must exist and hold the digest; an empty one is an error (500).
ReadLink(p) ==
    LET f == req[p].from
        l == IF f = None THEN "whole" ELSE link[<<f, req[p].dig>>] IN
    /\ At(p, "getlink")
    /\ \/ l = "whole" /\ Goto(p, "getblob") /\ UNCHANGED <<session, updir>>
       \/ l \in {"torn", "spoilt"} /\ Finish(p) /\ UNCHANGED <<session, updir>>
       \/ l = "absent" /\ Miss(p)
    /\ UNCHANGED <<data, blob, link, acked, crashes>>

\* Open the blob.  A mount now creates a session and copies the blob to it.
OpenBlob(p) ==
    LET i == blob[req[p].dig] IN
    /\ At(p, "getblob")
    /\ \/ i = None /\ Miss(p)
       \/ /\ i # None /\ req[p].op = "get"
          /\ req' = [req EXCEPT ![p].pc = "send", ![p].src = i]
          /\ UNCHANGED <<session, updir>>
       \/ /\ i # None /\ req[p].op = "mount"
          /\ \E u \in UUIDs :
                /\ Create(u)
                /\ req' = [req EXCEPT ![p].pc = "open", ![p].up = u,
                                      ![p].src = i, ![p].body = data[i]]
          /\ UNCHANGED session
    /\ UNCHANGED <<data, blob, link, acked, crashes>>

SendBlob(p) ==
    /\ At(p, "send")
    /\ Finish(p)
    /\ UNCHANGED <<session, updir, data, blob, link, acked, crashes>>

\* A mutant: the blob goes with the link.
DeleteLayerAndBlob(x) ==
    /\ link[x] # "absent"
    /\ link' = [link EXCEPT ![x] = "absent"]
    /\ blob' = [blob EXCEPT ![x[2]] = None]
    /\ acked' = acked \ {x}
    /\ UNCHANGED <<session, updir, data, req, crashes>>

\* DELETE of a blob in a repository removes the link only.  A commit that
\* was filling the link now writes to a file without a name, which nobody
\* sees: it is done.
DeleteLayer(x) ==
    /\ link[x] # "absent"
    /\ link' = [link EXCEPT ![x] = "absent"]
    /\ req' = [p \in Procs |-> IF At(p, "linkwrite") /\ Target(p) = x
                                THEN Idle ELSE req[p]]
    /\ acked' = acked \ {x}
    /\ UNCHANGED <<session, updir, data, blob, crashes>>

\* The server serving p is killed; the files stay as they are.
Crash(p) ==
    /\ crashes < MaxCrashes /\ ~At(p, "idle")
    /\ crashes' = crashes + 1
    /\ Finish(p)
    /\ UNCHANGED <<session, updir, data, blob, link, acked>>

-----------------------------------------------------------------------------
Starts == -1 .. MaxLen

Arrive(p) ==
    \/ \E r \in Repos, d \in Digests, b \in Bodies : PostSingle(p, r, d, b)
    \/ \E u \in UUIDs, s \in Starts, b \in Bodies : Patch(p, u, s, b)
    \/ \E u \in UUIDs, d \in Digests, s \in Starts, b \in Bodies :
            Put(p, u, d, s, b)
    \/ \E r \in Repos, d \in Digests : Get(p, r, d)
    \/ \E r \in Repos, f \in Repos \union {None}, d \in Digests :
            Mount(p, r, f, d)

\* The steps the server takes on its own once a request is in.
Serve(p) ==
    \/ OpenUpload(p) \/ CopyPiece(p) \/ CopyEnd(p) \/ HashUpload(p)
    \/ RemoveOld(p) \/ RenameUpload(p) \/ RemoveUploadDir(p)
    \/ TruncateLink(p) \/ WriteLink(p)
    \/ ReadLink(p) \/ OpenBlob(p) \/ SendBlob(p)

Next ==
    \/ \E r \in Repos : PostThenPut(r)
    \/ \E u \in UUIDs : Cancel(u)
    \/ \E x \in Layers : DeleteLayer(x)
    \/ \E p \in Procs : Arrive(p) \/ Serve(p) \/ CopyBreak(p)
                          \/ DiskFails(p) \/ Crash(p)

Spec == Init /\ [][Next]_vars

\* The next step is the client's: to send more of a body, or to read.
AwaitsClient(p) ==
    \/ At(p, "copy") /\ req[p].op # "mount"
    \/ At(p, "send")

\* Goroutines are scheduled and file operations return; clients owe nothing.
FairSpec == Spec /\ \A p \in Procs : WF_vars(Serve(p) /\ ~AwaitsClient(p))

-----------------------------------------------------------------------------
(* Properties.                                                             *)

TypeOK ==
    /\ session \in [UUIDs -> Repos \union {None}]
    /\ updir \in [UUIDs -> {"unused", "data", "empty", "absent"}]
    /\ data \in [UUIDs -> Seq(Bytes)]
    /\ blob \in [Digests -> UUIDs \union {None}]
    /\ link \in [Layers -> {"absent", "torn", "spoilt", "whole"}]
    /\ req \in [Procs -> Request]
    /\ acked \subseteq Layers
    /\ crashes \in 0 .. MaxCrashes

\* The blob a path names has the digest the path is made of: what the
\* commit hashed is what it published (blobsUploadCommit).
BlobIntegrity ==
    \A d \in Digests : blob[d] # None => Hash(data[blob[d]]) = d

\* A GET that opened a blob sends content of the digest it was asked for,
\* whatever commits, cancels and deletions happen while it sends.
ReadersSeeVerified ==
    \A p \in Procs : At(p, "send") => Hash(data[req[p].src]) = req[p].dig

\* d can be read, or a commit stands between its remove and its rename.
Published(d) ==
    \/ blob[d] # None
    \/ \E p \in Procs : At(p, "rename") /\ req[p].dig = d

\* A blob is lost in one way only: the server is killed between the remove
\* and the rename of a commit of the same digest.  Then the content, hashed
\* and compared, is still in the upload directory; a kill at any other point,
\* a failed or cancelled upload, and a deletion lose nothing
\* (blobsUploadCommit).
LostOnlyByKill ==
    [][\A d \in Digests : Published(d) /\ ~Published(d)' =>
          \E p \in Procs :
              /\ At(p, "rename") /\ req[p].dig = d /\ crashes' # crashes
              /\ updir'[req[p].up] = "data"
              /\ Hash(data'[req[p].up]) = d]_vars

\* A layer acknowledged with 201 keeps its blob: later commits of the same
\* digest, from any session, replace it but never lose it.
AckedBlobKept == \A x \in acked : Published(x[2])

\* A layer link never leads nowhere: BlobsUploadCommit publishes the blob
\* before it writes the link.
LinkNeverDangles ==
    \A x \in Layers : link[x] # "absent" => Published(x[2])

\* The bytes of a file that a blob path names never change.
CommittedIsImmutable ==
    [][\A d \in Digests :
          blob[d] # None => data'[blob[d]] = data[blob[d]]]_vars

\* An acknowledged blob that a commit took away comes back.
AckedBlobReturns ==
    \A d \in Digests :
        (\E r \in Repos : <<r, d>> \in acked) /\ blob[d] = None
            ~> blob[d] # None

\* A link that a commit truncated is filled or deleted in the end, unless the
\* write fails: readers do not get the error of an empty link for ever
\* (BlobsUploadCommit).
LinksSettle ==
    \A x \in Layers : link[x] = "torn" ~> link[x] # "torn"

\* The abstract store: what is published, and what repositories list.
Store == INSTANCE ContentStore
            WITH stored <- {d \in Digests : Published(d)},
                 layers <- {x \in Layers : link[x] # "absent"}

ImplementsStore == Store!Spec

=============================================================================
