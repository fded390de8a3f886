----------------------------- MODULE BlobsProofs -----------------------------
(***************************************************************************)
(* Proofs about Blobs, for any contents and uploads and any finite number  *)
(* of senders: FilesInv is about uploads, their files and rows, RefsInv    *)
(* about transactions and reference counts, BoundsInv about the rows that   *)
(* transactions have locked.                                               *)
(***************************************************************************)
EXTENDS Blobs, FiniteSetTheorems, TLAPS

Busy == {"stat", "open", "writing", "insert", "media"}
UpRows == [pc : Busy, content : Contents, row : BOOLEAN]
States == {"none", "partial", "whole"}

Writing(c) == \E u \in Uploads : up[u].pc = "writing" /\ up[u].content = c

FilesInv ==
    /\ file \in [Contents -> States]
    /\ blobs \subseteq Contents /\ interrupted \subseteq Contents
    /\ media \in Seq(Contents)
    /\ up \in [Uploads -> UpRows \cup {NoUpload}]
    /\ RowHasFile
    \* A file is partial only while it is written, or because a write did not end.
    /\ \A c \in Contents \ interrupted : file[c] = "partial" => Writing(c)
    \* What Put has come past is done.
    /\ \A u \in Uploads : up[u] # NoUpload =>
          /\ up[u].row \/ up[u].pc = "media" => up[u].content \in blobs
          /\ up[u].pc \in {"writing", "insert"} => file[up[u].content] # "none"

Statuses == {"normal", "deleted"}
TxRows == [open : BOOLEAN, todo : SUBSET DOMAIN media, done : SUBSET DOMAIN media]

\* The attachments that refer to a blob, and the media objects that open transactions
\* have counted there.
Referring(c) == {a \in attachments : media[a.media] = c}
Counted(S, c) == {p \in S \X DOMAIN media : p[2] \in tx[p[1]].done /\ media[p[2]] = c}

RefsInv ==
    /\ media \in Seq(Contents) /\ messages \in Seq(Statuses)
    /\ attachments \subseteq [message : DOMAIN messages, media : DOMAIN media]
    /\ IsFiniteSet(attachments)
    /\ refCount \in [Contents -> Int]
    /\ tx \in [Senders -> TxRows]
    /\ \A s \in Senders : tx[s].todo \cap tx[s].done = {} /\ (~tx[s].open => tx[s] = NoTx)
    /\ RefCountExact

\* What of TypeOK the other two parts do not need: who may hold a row, and the bounds.
BoundsInv ==
    /\ refLock \in [Contents -> Senders \cup {NoSender}]
    /\ Len(media) <= MaxMedia /\ Len(messages) <= MaxMessages

-----------------------------------------------------------------------------
(***************************************************************************)
(* Uploads and files.                                                      *)
(***************************************************************************)

\* No files, no rows, no uploads.
LEMMA InitFiles == Init => FilesInv
BY DEF Init, FilesInv, RowHasFile, States

\* An upload that is at work has a content.
LEMMA UpTypes ==
  ASSUME FilesInv, NEW u \in Uploads, up[u].pc # "idle"
  PROVE  /\ up[u] \in UpRows /\ up[u] # NoUpload /\ up[u].content \in Contents
         /\ \A p \in Busy :
               /\ [up[u] EXCEPT !.pc = p] \in UpRows
               /\ [up[u] EXCEPT !.pc = p].pc = p
               /\ [up[u] EXCEPT !.pc = p].content = up[u].content
               /\ [up[u] EXCEPT !.pc = p].row = up[u].row
<1>1. up[u] \in UpRows
  BY DEF FilesInv, NoUpload
<1> QED
  BY <1>1 DEF UpRows, NoUpload, Busy

\* An upload moves on, and no file or row changes.
LEMMA UploadMoves ==
  ASSUME FilesInv, NEW u \in Uploads, NEW w \in UpRows \cup {NoUpload}, up' = [up EXCEPT ![u] = w],
         UNCHANGED <<file, blobs, media>>, interrupted \subseteq interrupted', interrupted' \subseteq Contents,
         up[u].pc = "writing" => up[u].content \in interrupted',
         w # NoUpload => /\ w.pc # "writing"
                         /\ w.row \/ w.pc = "media" => w.content \in blobs
                         /\ w.pc = "insert" => file[w.content] # "none"
  PROVE  FilesInv'
<1>1. /\ up' \in [Uploads -> UpRows \cup {NoUpload}] /\ up'[u] = w
      /\ \A v \in Uploads : v # u => up'[v] = up[v]
  BY DEF FilesInv
<1>2. RowHasFile'
  BY DEF FilesInv, RowHasFile
<1>3. ASSUME NEW c \in Contents \ interrupted', file'[c] = "partial" PROVE Writing(c)'
  <2>1. PICK v \in Uploads : up[v].pc = "writing" /\ up[v].content = c
    BY <1>3 DEF FilesInv, Writing
  <2>2. v # u
    BY <1>3, <2>1
  <2> QED
    BY <1>1, <2>1, <2>2 DEF Writing
<1>4. \A v \in Uploads : up'[v] # NoUpload =>
          /\ up'[v].row \/ up'[v].pc = "media" => up'[v].content \in blobs'
          /\ up'[v].pc \in {"writing", "insert"} => file'[up'[v].content] # "none"
  BY <1>1 DEF FilesInv
<1> QED
  BY <1>1, <1>2, <1>3, <1>4 DEF FilesInv

\* Put looks for the row, and then for the file.
LEMMA LookStep ==
  ASSUME FilesInv, NEW u \in Uploads, (\E c \in Contents : GetBySHA256(u, c)) \/ StatFile(u)
  PROVE  FilesInv'
<1>1. ASSUME NEW c \in Contents, GetBySHA256(u, c) PROVE FilesInv'
  <2> DEFINE w == [pc |-> "stat", content |-> c, row |-> c \in blobs]
  <2>1. w \in UpRows
    BY DEF UpRows, Busy
  <2>2. up[u].pc = "idle" /\ up' = [up EXCEPT ![u] = w] /\ UNCHANGED <<file, blobs, media, interrupted>>
    BY <1>1 DEF GetBySHA256, NoUpload
  <2> QED
    BY <2>1, <2>2, UploadMoves, Zenon DEF FilesInv
<1>2. CASE StatFile(u)
  <2> DEFINE p == IF file[up[u].content] = "none" THEN "open" ELSE AfterFile(u)
             w == [up[u] EXCEPT !.pc = p]
  <2>1. up[u].pc = "stat" /\ up' = [up EXCEPT ![u] = w] /\ UNCHANGED <<file, blobs, media, interrupted>>
    BY <1>2 DEF StatFile
  <2>2. p \in {"open", "media", "insert"}
    BY DEF AfterFile
  <2>3. w \in UpRows /\ w.pc = p /\ w.content = up[u].content /\ w.row = up[u].row /\ up[u] # NoUpload
    <3> HIDE DEF p
    <3>1. p \in Busy
      BY <2>2 DEF Busy
    <3>2. up[u].pc # "idle"
      BY <2>1
    <3> QED
      BY <3>1, <3>2, UpTypes, Zenon
  <2>4. w.row \/ w.pc = "media" => w.content \in blobs
    BY <2>3 DEF FilesInv, AfterFile
  <2>5. w.pc = "insert" => file[w.content] # "none"
    BY <2>3 DEF AfterFile
  <2> HIDE DEF w
  <2> QED
    BY <2>1, <2>2, <2>3, <2>4, <2>5, UploadMoves, Zenon DEF FilesInv
<1> QED
  BY <1>1, <1>2

\* The file is opened, and the upload is one of its writers.
LEMMA OpenFileStep ==
  ASSUME FilesInv, NEW u \in Uploads, OpenFile(u)
  PROVE  FilesInv'
<1> DEFINE c == up[u].content
           w == [up[u] EXCEPT !.pc = "writing"]
<1>1. /\ up[u].pc = "open" /\ file' = [file EXCEPT ![c] = "partial"] /\ up' = [up EXCEPT ![u] = w]
      /\ UNCHANGED <<blobs, media, interrupted>>
  BY DEF OpenFile
<1>2. w \in UpRows /\ w.pc = "writing" /\ w.content = c /\ w.row = up[u].row /\ up[u] # NoUpload /\ c \in Contents
  BY <1>1, UpTypes, Zenon DEF Busy
<1> HIDE DEF w
<1>3. /\ up' \in [Uploads -> UpRows \cup {NoUpload}] /\ up'[u] = w
      /\ \A v \in Uploads : v # u => up'[v] = up[v]
  BY <1>1, <1>2 DEF FilesInv
<1>4. file' \in [Contents -> States] /\ file'[c] = "partial" /\ \A d \in Contents : d # c => file'[d] = file[d]
  BY <1>1, <1>2 DEF FilesInv, States
<1>5. RowHasFile'
  BY <1>1, <1>4 DEF FilesInv, RowHasFile
<1>6. ASSUME NEW d \in Contents \ interrupted, file'[d] = "partial" PROVE Writing(d)'
  <2>1. CASE d = c
    BY <1>2, <1>3, <2>1 DEF Writing
  <2>2. CASE d # c
    <3>1. PICK v \in Uploads : up[v].pc = "writing" /\ up[v].content = d
      BY <1>4, <1>6, <2>2 DEF FilesInv, Writing
    <3> QED
      BY <1>1, <1>3, <3>1 DEF Writing
  <2> QED
    BY <2>1, <2>2
<1>7. ASSUME NEW v \in Uploads, up'[v] # NoUpload
      PROVE  /\ up'[v].row \/ up'[v].pc = "media" => up'[v].content \in blobs
             /\ up'[v].pc \in {"writing", "insert"} => file'[up'[v].content] # "none"
  <2>1. CASE v = u
    BY <1>2, <1>3, <1>4, <2>1 DEF FilesInv
  <2>2. CASE v # u
    <3>1. up[v] \in UpRows
      BY <1>3, <1>7, <2>2 DEF FilesInv
    <3>2. up[v].content \in Contents
      BY <3>1 DEF UpRows
    <3> QED
      BY <1>3, <1>4, <1>7, <2>2, <3>2 DEF FilesInv
  <2> QED
    BY <2>1, <2>2
<1> QED
  BY <1>1, <1>3, <1>4, <1>5, <1>6, <1>7 DEF FilesInv

\* A write ends: the file is whole, or another writer goes on.
LEMMA FinishWriteStep ==
  ASSUME FilesInv, NEW u \in Uploads, FinishWrite(u)
  PROVE  FilesInv'
<1> DEFINE c == up[u].content
           p == AfterFile(u)
           w == [up[u] EXCEPT !.pc = p]
<1>1. up[u].pc = "writing" /\ up' = [up EXCEPT ![u] = w] /\ UNCHANGED <<blobs, media, interrupted>>
  BY DEF FinishWrite
<1>2. PICK f \in {"partial", "whole"} : (f = "partial" => OthersWriting(u)) /\ file' = [file EXCEPT ![c] = f]
  BY Zenon DEF FinishWrite
<1>3. p \in {"media", "insert"} /\ (p = "media" => up[u].row)
  BY DEF AfterFile
<1>4. w \in UpRows /\ w.pc = p /\ w.content = c /\ w.row = up[u].row /\ up[u] # NoUpload /\ c \in Contents
  <2> HIDE DEF p
  <2>1. p \in Busy
    BY <1>3 DEF Busy
  <2>2. up[u].pc # "idle"
    BY <1>1
  <2> QED
    BY <2>1, <2>2, UpTypes, Zenon
<1> HIDE DEF w, p
<1>5. /\ up' \in [Uploads -> UpRows \cup {NoUpload}] /\ up'[u] = w
      /\ \A v \in Uploads : v # u => up'[v] = up[v]
  BY <1>1, <1>4 DEF FilesInv
<1>6. file' \in [Contents -> States] /\ file'[c] = f /\ \A d \in Contents : d # c => file'[d] = file[d]
  BY <1>2, <1>4 DEF FilesInv, States
<1>7. RowHasFile'
  BY <1>1, <1>6 DEF FilesInv, RowHasFile
<1>8. ASSUME NEW d \in Contents \ interrupted, file'[d] = "partial" PROVE Writing(d)'
  <2>1. CASE d = c
    <3>1. PICK v \in Uploads \ {u} : up[v].pc = "writing" /\ up[v].content = c
      BY <1>2, <1>6, <1>8, <2>1 DEF OthersWriting
    <3> QED
      BY <1>5, <2>1, <3>1 DEF Writing
  <2>2. CASE d # c
    <3>1. PICK v \in Uploads : up[v].pc = "writing" /\ up[v].content = d
      BY <1>6, <1>8, <2>2 DEF FilesInv, Writing
    <3> QED
      BY <1>5, <2>2, <3>1 DEF Writing
  <2> QED
    BY <2>1, <2>2
<1>9. ASSUME NEW v \in Uploads, up'[v] # NoUpload
      PROVE  /\ up'[v].row \/ up'[v].pc = "media" => up'[v].content \in blobs
             /\ up'[v].pc \in {"writing", "insert"} => file'[up'[v].content] # "none"
  <2>1. CASE v = u
    BY <1>3, <1>4, <1>5, <1>6, <2>1 DEF FilesInv
  <2>2. CASE v # u
    <3>1. up[v] \in UpRows
      BY <1>5, <1>9, <2>2 DEF FilesInv
    <3>2. up[v].content \in Contents
      BY <3>1 DEF UpRows
    <3> QED
      BY <1>5, <1>6, <1>9, <2>2, <3>2 DEF FilesInv
  <2> QED
    BY <2>1, <2>2
<1> QED
  BY <1>1, <1>5, <1>6, <1>7, <1>8, <1>9 DEF FilesInv

\* The row goes in when the file is there.
LEMMA CreateBlobStep ==
  ASSUME FilesInv, NEW u \in Uploads, CreateBlob(u)
  PROVE  FilesInv'
<1> DEFINE c == up[u].content
           w == [up[u] EXCEPT !.pc = "media"]
<1>1. up[u].pc = "insert" /\ blobs' = blobs \cup {c} /\ up' = [up EXCEPT ![u] = w] /\ UNCHANGED <<file, media, interrupted>>
  BY DEF CreateBlob
<1>2. w \in UpRows /\ w.pc = "media" /\ w.content = c /\ up[u] # NoUpload /\ c \in Contents
  BY <1>1, UpTypes, Zenon DEF Busy
<1> HIDE DEF w
<1>3. /\ up' \in [Uploads -> UpRows \cup {NoUpload}] /\ up'[u] = w
      /\ \A v \in Uploads : v # u => up'[v] = up[v]
  BY <1>1, <1>2 DEF FilesInv
<1>4. file[c] # "none"
  BY <1>1, <1>2 DEF FilesInv
<1>5. RowHasFile' /\ blobs' \subseteq Contents
  BY <1>1, <1>2, <1>4 DEF FilesInv, RowHasFile
<1>6. \A d \in Contents : Writing(d) => Writing(d)'
  BY <1>1, <1>3 DEF Writing
<1>7. \A v \in Uploads : up'[v] # NoUpload =>
          /\ up'[v].row \/ up'[v].pc = "media" => up'[v].content \in blobs'
          /\ up'[v].pc \in {"writing", "insert"} => file'[up'[v].content] # "none"
  BY <1>1, <1>2, <1>3 DEF FilesInv
<1> QED
  BY <1>1, <1>3, <1>5, <1>6, <1>7 DEF FilesInv

\* The media object goes in last.
LEMMA CreateMediaStep ==
  ASSUME FilesInv, NEW u \in Uploads, CreateMedia(u)
  PROVE  FilesInv'
<1>1. /\ up[u].pc = "media" /\ media' = Append(media, up[u].content) /\ up' = [up EXCEPT ![u] = NoUpload]
      /\ UNCHANGED <<file, blobs, interrupted>>
  BY DEF CreateMedia
<1>2. up[u].content \in blobs /\ up[u].content \in Contents
  BY <1>1, UpTypes, Zenon DEF FilesInv, Busy
<1>3. /\ up' \in [Uploads -> UpRows \cup {NoUpload}] /\ up'[u] = NoUpload
      /\ \A v \in Uploads : v # u => up'[v] = up[v]
  BY <1>1 DEF FilesInv
<1>4. media' \in Seq(Contents) /\ \A m \in DOMAIN media' : media'[m] \in blobs
  BY <1>1, <1>2 DEF FilesInv, RowHasFile
<1>5. RowHasFile'
  BY <1>1, <1>4 DEF FilesInv, RowHasFile
<1>6. \A d \in Contents : Writing(d) => Writing(d)'
  BY <1>1, <1>3 DEF Writing
<1> QED
  BY <1>1, <1>3, <1>4, <1>5, <1>6 DEF FilesInv

\* Put ends without success.
LEMMA PutFailsStep ==
  ASSUME FilesInv, NEW u \in Uploads, PutFails(u) \/ CreateBlobDuplicate(u)
  PROVE  FilesInv'
<1>1. up' = [up EXCEPT ![u] = NoUpload] /\ UNCHANGED <<file, blobs, media>>
  BY DEF PutFails, CreateBlobDuplicate
<1>2. /\ interrupted \subseteq interrupted' /\ interrupted' \subseteq Contents
      /\ up[u].pc = "writing" => up[u].content \in interrupted'
  BY UpTypes DEF PutFails, CreateBlobDuplicate, Interrupts, FilesInv
<1> QED
  BY <1>1, <1>2, UploadMoves, Zenon

\* A restart breaks off every write.
LEMMA RestartFiles ==
  ASSUME FilesInv, Restart
  PROVE  FilesInv'
<1>1. /\ up' = [u \in Uploads |-> NoUpload] /\ UNCHANGED <<file, blobs, media>>
      /\ interrupted' = interrupted \cup UNION {Interrupts(u) : u \in Uploads}
  BY DEF Restart
<1>2. \A u \in Uploads : up[u].pc = "writing" => up[u].content \in interrupted'
  BY <1>1 DEF Interrupts
<1>3. interrupted' \subseteq Contents
  <2>1. \A u \in Uploads : Interrupts(u) \subseteq Contents
    BY UpTypes DEF Interrupts
  <2> QED
    BY <1>1, <2>1 DEF FilesInv
<1>4. \A c \in Contents \ interrupted' : file'[c] # "partial"
  BY <1>1, <1>2 DEF FilesInv, Writing
<1>5. RowHasFile'
  BY <1>1 DEF FilesInv, RowHasFile
<1> QED
  BY <1>1, <1>3, <1>4, <1>5 DEF FilesInv

\* Nothing else touches files, uploads or their rows.
LEMMA FilesUnchanged ==
  ASSUME FilesInv, UNCHANGED fileVars
  PROVE  FilesInv'
BY DEF fileVars, FilesInv, RowHasFile, Writing

-----------------------------------------------------------------------------
(***************************************************************************)
(* Transactions and reference counts.                                      *)
(***************************************************************************)

\* What is counted is finite, so that counts are numbers.
LEMMA CountsAreFinite ==
  ASSUME RefsInv, NEW c \in Contents
  PROVE  /\ IsFiniteSet(Referring(c)) /\ Cardinality(Referring(c)) \in Nat
         /\ \A S \in SUBSET Senders : IsFiniteSet(Counted(S, c)) /\ Cardinality(Counted(S, c)) \in Nat
<1>1. IsFiniteSet(Referring(c))
  <2>1. Referring(c) \in SUBSET attachments
    BY DEF Referring
  <2> QED
    BY <2>1, FS_Subset DEF RefsInv
<1>2. ASSUME NEW S \in SUBSET Senders PROVE IsFiniteSet(Counted(S, c))
  <2>1. DOMAIN media = 1..Len(media) /\ Len(media) \in Nat
    BY DEF RefsInv
  <2>2. IsFiniteSet(DOMAIN media)
    BY <2>1, FS_Interval
  <2>3. IsFiniteSet(S)
    BY BlobsAssumption, FS_Subset
  <2>4. IsFiniteSet(S \X DOMAIN media)
    BY <2>2, <2>3, FS_Product
  <2>5. Counted(S, c) \in SUBSET (S \X DOMAIN media)
    BY DEF Counted
  <2> QED
    BY <2>4, <2>5, FS_Subset
<1> QED
  BY <1>1, <1>2, FS_CardinalityType

\* RefCountExact in these words.
LEMMA Exactly ==
  /\ RefCountExact <=> \A c \in Contents : refCount[c] = Cardinality(Referring(c)) + Cardinality(Counted(Senders, c))
  /\ \A S, c : Added(S, c) = Cardinality(Counted(S, c))
BY DEF RefCountExact, Referring, Counted, Added

\* No attachments, no transactions.
LEMMA InitRefs == Init => RefsInv
<1> SUFFICES ASSUME Init PROVE RefsInv
  OBVIOUS
<1>1. media \in Seq(Contents) /\ messages \in Seq(Statuses) /\ DOMAIN media = {}
  BY DEF Init
<1>2. \A c \in Contents : Referring(c) = {} /\ Counted(Senders, c) = {}
  BY <1>1 DEF Init, Referring, Counted
<1>3. RefCountExact
  <2>1. Cardinality({}) = 0
    BY FS_EmptySet
  <2>2. \A c \in Contents : refCount[c] = 0
    BY DEF Init
  <2> QED
    BY <1>2, <2>1, <2>2, Exactly
<1>4. NoTx \in TxRows
  BY DEF NoTx, TxRows
<1>5. IsFiniteSet(attachments) /\ attachments = {}
  BY FS_EmptySet DEF Init
<1>6. refCount \in [Contents -> Int] /\ tx \in [Senders -> TxRows]
  BY <1>4 DEF Init
<1>7. \A s \in Senders : tx[s] = NoTx /\ tx[s].todo \cap tx[s].done = {}
  BY DEF Init, NoTx
<1> QED
  BY <1>1, <1>3, <1>5, <1>6, <1>7 DEF RefsInv

\* The counts stay exact while nothing refers to a blob or counts it anew.
LEMMA CountsStay ==
  ASSUME RefCountExact, UNCHANGED refCount,
         \A c \in Contents : Referring(c)' = Referring(c) /\ Counted(Senders, c)' = Counted(Senders, c)
  PROVE  RefCountExact'
<1> SUFFICES ASSUME NEW c \in Contents
             PROVE  refCount'[c] = Cardinality(Referring(c)') + Cardinality(Counted(Senders, c)')
  BY DEF RefCountExact, Added, Referring, Counted
<1>1. refCount[c] = Cardinality(Referring(c)) + Cardinality(Counted(Senders, c))
  BY Exactly
<1> QED
  BY <1>1, Zenon

\* A step that leaves all of it alone.
LEMMA RefsUnchanged ==
  ASSUME RefsInv, UNCHANGED media, UNCHANGED messageVars
  PROVE  RefsInv'
<1>1. UNCHANGED <<media, messages, attachments, refCount, tx>>
  BY DEF messageVars
<1>2. TxRows' = TxRows
  BY <1>1 DEF TxRows
<1>3. \A c \in Contents : Referring(c)' = Referring(c) /\ Counted(Senders, c)' = Counted(Senders, c)
  BY <1>1 DEF Referring, Counted
<1>4. RefCountExact'
  BY <1>1, <1>3, CountsStay DEF RefsInv
<1> QED
  BY <1>1, <1>2, <1>4 DEF RefsInv

\* A new media object is not attached yet.
LEMMA CreateMediaRefs ==
  ASSUME RefsInv, FilesInv, NEW u \in Uploads, CreateMedia(u)
  PROVE  RefsInv'
<1>1. /\ media' = Append(media, up[u].content) /\ UNCHANGED <<refCount, messages, attachments, tx>>
      /\ up[u].content \in Contents
  BY UpTypes DEF CreateMedia, messageVars
<1>2. /\ media' \in Seq(Contents) /\ DOMAIN media \subseteq DOMAIN media'
      /\ \A m \in DOMAIN media : media'[m] = media[m]
  BY <1>1 DEF RefsInv
<1>3. \A r \in TxRows : r \in TxRows'
  BY <1>2 DEF TxRows
<1>4. ASSUME NEW c \in Contents
      PROVE  Referring(c)' = Referring(c) /\ Counted(Senders, c)' = Counted(Senders, c)
  <2>1. \A a \in attachments : a.media \in DOMAIN media
    BY DEF RefsInv
  <2>2. \A s \in Senders : tx[s].done \subseteq DOMAIN media
    BY DEF RefsInv, TxRows
  <2>3. Referring(c)' = Referring(c)
    BY <1>1, <1>2, <2>1 DEF Referring
  <2>4. Counted(Senders, c)' = Counted(Senders, c)
    BY <1>1, <1>2, <2>2 DEF Counted
  <2> QED
    BY <2>3, <2>4
<1>5. RefCountExact'
  BY <1>1, <1>4, CountsStay DEF RefsInv
<1>6. attachments' \subseteq [message : DOMAIN messages', media : DOMAIN media']
  BY <1>1, <1>2 DEF RefsInv
<1> QED
  BY <1>1, <1>2, <1>3, <1>5, <1>6 DEF RefsInv

\* A transaction starts with nothing counted.
LEMMA BeginMessageStep ==
  ASSUME RefsInv, NEW s \in Senders, NEW M \in SUBSET DOMAIN media, BeginMessage(s, M)
  PROVE  RefsInv'
<1> DEFINE r == [open |-> TRUE, todo |-> M, done |-> {}]
<1>1. ~tx[s].open /\ tx' = [tx EXCEPT ![s] = r] /\ UNCHANGED <<media, refCount, messages, attachments>>
  BY DEF BeginMessage, fileVars
<1>2. r \in TxRows /\ r.open /\ r.todo \cap r.done = {} /\ r.done = {}
  BY DEF TxRows
<1>3. tx[s].done = {}
  BY <1>1 DEF RefsInv, NoTx
<1> HIDE DEF r
<1>4. tx' \in [Senders -> TxRows] /\ tx'[s] = r /\ \A z \in Senders : z # s => tx'[z] = tx[z]
  BY <1>1, <1>2 DEF RefsInv
<1>5. \A z \in Senders : tx'[z].done = tx[z].done
  BY <1>2, <1>3, <1>4, Zenon
<1>6. \A c \in Contents : Referring(c)' = Referring(c) /\ Counted(Senders, c)' = Counted(Senders, c)
  BY <1>1, <1>5 DEF Referring, Counted
<1>7. RefCountExact'
  BY <1>1, <1>6 DEF RefsInv, RefCountExact, Referring, Counted, Added
<1>8. TxRows' = TxRows
  BY <1>1 DEF TxRows
<1>9. \A z \in Senders : tx'[z].todo \cap tx'[z].done = {} /\ (~tx'[z].open => tx'[z] = NoTx)
  BY <1>2, <1>4 DEF RefsInv
<1> QED
  BY <1>1, <1>4, <1>7, <1>8, <1>9 DEF RefsInv

\* One more media object of the blob is counted, and the row says so.
LEMMA AttachStep ==
  ASSUME RefsInv, NEW s \in Senders, NEW m \in DOMAIN media, Attach(s, m)
  PROVE  RefsInv'
<1>a. PICK c \in Contents : c = media[m]
  BY DEF RefsInv
<1> DEFINE r == [tx[s] EXCEPT !.todo = @ \ {m}, !.done = @ \cup {m}]
<1>1. /\ m \in tx[s].todo /\ refCount' = [refCount EXCEPT ![c] = @ + 1] /\ tx' = [tx EXCEPT ![s] = r]
      /\ UNCHANGED <<media, messages, attachments>>
  BY <1>a, Zenon DEF Attach, fileVars
<1>2. tx[s] \in TxRows /\ c \in Contents /\ m \notin tx[s].done /\ tx[s].open
  <2>1. tx[s] # NoTx
    BY <1>1 DEF NoTx
  <2> QED
    BY <1>1, <2>1 DEF RefsInv
<1>3. r \in TxRows /\ r.open = tx[s].open /\ r.todo = tx[s].todo \ {m} /\ r.done = tx[s].done \cup {m}
  BY <1>2, Zenon DEF TxRows
<1> HIDE DEF r
<1>4. tx' \in [Senders -> TxRows] /\ tx'[s] = r /\ \A z \in Senders : z # s => tx'[z] = tx[z]
  BY <1>1, <1>3 DEF RefsInv
<1>5. refCount' \in [Contents -> Int] /\ refCount'[c] = refCount[c] + 1 /\ \A d \in Contents : d # c => refCount'[d] = refCount[d]
  BY <1>1, <1>2 DEF RefsInv
<1>6. Counted(Senders, c)' = Counted(Senders, c) \cup {<<s, m>>} /\ <<s, m>> \notin Counted(Senders, c)
  BY <1>a, <1>1, <1>2, <1>3, <1>4 DEF Counted
<1>7. \A d \in Contents : d # c => Counted(Senders, d)' = Counted(Senders, d)
  BY <1>a, <1>1, <1>3, <1>4 DEF Counted
<1>8. \A d \in Contents : Referring(d)' = Referring(d)
  BY <1>1 DEF Referring
<1>9. Cardinality(Counted(Senders, c)') = Cardinality(Counted(Senders, c)) + 1
  BY <1>2, <1>6, CountsAreFinite, FS_AddElement, Zenon
<1>10. \A d \in Contents : refCount'[d] = Cardinality(Referring(d)') + Cardinality(Counted(Senders, d)')
  <2> SUFFICES ASSUME NEW d \in Contents
               PROVE  refCount'[d] = Cardinality(Referring(d)') + Cardinality(Counted(Senders, d)')
    OBVIOUS
  <2>1. refCount[d] = Cardinality(Referring(d)) + Cardinality(Counted(Senders, d))
    BY Exactly DEF RefsInv
  <2>2. Cardinality(Referring(d)) \in Nat /\ Cardinality(Counted(Senders, d)) \in Nat
    BY CountsAreFinite
  <2>3. CASE d = c
    <3>1. Cardinality(Counted(Senders, d)') = Cardinality(Counted(Senders, d)) + 1
      BY <1>9, <2>3
    <3>2. refCount'[d] = refCount[d] + 1
      BY <1>5, <2>3
    <3>3. Cardinality(Referring(d)') = Cardinality(Referring(d))
      BY <1>8
    <3> QED
      BY <2>1, <2>2, <3>1, <3>2, <3>3
  <2>4. CASE d # c
    BY <1>5, <1>7, <1>8, <2>1, <2>4
  <2> QED
    BY <2>3, <2>4
<1>11. RefCountExact'
  BY <1>10 DEF RefCountExact, Referring, Counted, Added
<1>12. TxRows' = TxRows
  BY <1>1, Zenon DEF TxRows
<1>13. \A z \in Senders : tx'[z].todo \cap tx'[z].done = {} /\ (~tx'[z].open => tx'[z] = NoTx)
  BY <1>2, <1>3, <1>4, Zenon DEF RefsInv
<1> QED
  BY <1>1, <1>4, <1>5, <1>11, <1>12, <1>13 DEF RefsInv

\* What is counted is what a sender has counted and what the others have.
LEMMA CountedSplits ==
  ASSUME RefsInv, NEW s \in Senders, NEW c \in Contents
  PROVE  Cardinality(Counted(Senders, c)) = Cardinality(Counted({s}, c)) + Cardinality(Counted(Senders \ {s}, c))
<1>1. Counted(Senders, c) = Counted({s}, c) \cup Counted(Senders \ {s}, c)
  BY DEF Counted
<1>2. Counted({s}, c) \cap Counted(Senders \ {s}, c) = {}
  BY DEF Counted
<1>3. /\ IsFiniteSet(Counted({s}, c)) /\ Cardinality(Counted({s}, c)) \in Nat
      /\ IsFiniteSet(Counted(Senders \ {s}, c)) /\ Cardinality(Counted(Senders \ {s}, c)) \in Nat
  <2>1. {s} \in SUBSET Senders /\ Senders \ {s} \in SUBSET Senders
    OBVIOUS
  <2> QED
    BY <2>1, CountsAreFinite
<1>4. Cardinality({}) = 0
  BY FS_EmptySet
<1>5. Cardinality(Counted({s}, c) \cup Counted(Senders \ {s}, c)) =
         Cardinality(Counted({s}, c)) + Cardinality(Counted(Senders \ {s}, c))
           - Cardinality(Counted({s}, c) \cap Counted(Senders \ {s}, c))
  BY <1>3, FS_Union, Zenon
<1>6. Cardinality(Counted({s}, c) \cap Counted(Senders \ {s}, c)) = 0
  BY <1>2, <1>4, Zenon
<1>7. Cardinality(Counted(Senders, c)) = Cardinality(Counted({s}, c) \cup Counted(Senders \ {s}, c))
  BY <1>1, Zenon
<1> QED
  BY <1>3, <1>5, <1>6, <1>7

\* The end of a transaction: what the others have counted stays.
LEMMA TxEnds ==
  ASSUME RefsInv, NEW s \in Senders, tx' = [tx EXCEPT ![s] = NoTx], UNCHANGED media
  PROVE  /\ tx' \in [Senders -> TxRows'] /\ \A z \in Senders : z # s => tx'[z] = tx[z]
         /\ \A z \in Senders : tx'[z].todo \cap tx'[z].done = {} /\ (~tx'[z].open => tx'[z] = NoTx)
         /\ \A c \in Contents : Counted(Senders, c)' = Counted(Senders \ {s}, c)
<1>1. NoTx \in TxRows /\ NoTx.todo = {} /\ NoTx.done = {} /\ TxRows' = TxRows
  BY DEF NoTx, TxRows
<1>2. tx' \in [Senders -> TxRows] /\ tx'[s] = NoTx /\ \A z \in Senders : z # s => tx'[z] = tx[z]
  BY <1>1 DEF RefsInv
<1>3. \A z \in Senders : tx'[z].todo \cap tx'[z].done = {} /\ (~tx'[z].open => tx'[z] = NoTx)
  BY <1>1, <1>2 DEF RefsInv
<1>4. \A c \in Contents : Counted(Senders, c)' = Counted(Senders \ {s}, c)
  BY <1>1, <1>2 DEF Counted
<1> QED
  BY <1>1, <1>2, <1>3, <1>4, Zenon

\* A rollback takes back what the transaction has counted.
LEMMA RollbackStep ==
  ASSUME RefsInv, NEW s \in Senders, RollbackMessage(s)
  PROVE  RefsInv'
<1>1. /\ refCount' = [c \in Contents |-> refCount[c] - Added({s}, c)] /\ tx' = [tx EXCEPT ![s] = NoTx]
      /\ UNCHANGED <<media, messages, attachments>>
  BY DEF RollbackMessage, fileVars
<1>2. /\ tx' \in [Senders -> TxRows'] /\ \A z \in Senders : z # s => tx'[z] = tx[z]
      /\ \A z \in Senders : tx'[z].todo \cap tx'[z].done = {} /\ (~tx'[z].open => tx'[z] = NoTx)
      /\ \A c \in Contents : Counted(Senders, c)' = Counted(Senders \ {s}, c)
  BY <1>1, TxEnds, Zenon
<1>3. ASSUME NEW c \in Contents
      PROVE  refCount'[c] = Cardinality(Referring(c)') + Cardinality(Counted(Senders, c)') /\ refCount'[c] \in Int
  <2>1. refCount'[c] = refCount[c] - Cardinality(Counted({s}, c))
    BY <1>1, Exactly
  <2>2. refCount[c] = Cardinality(Referring(c)) + Cardinality(Counted(Senders, c))
    BY Exactly DEF RefsInv
  <2>3. /\ Cardinality(Referring(c)) \in Nat /\ Cardinality(Counted({s}, c)) \in Nat
        /\ Cardinality(Counted(Senders \ {s}, c)) \in Nat
    <3>1. {s} \in SUBSET Senders /\ Senders \ {s} \in SUBSET Senders
      OBVIOUS
    <3> QED
      BY <3>1, CountsAreFinite
  <2>4. Referring(c)' = Referring(c)
    BY <1>1 DEF Referring
  <2> QED
    <3>1. Cardinality(Counted(Senders, c)) = Cardinality(Counted({s}, c)) + Cardinality(Counted(Senders \ {s}, c))
      BY CountedSplits
    <3>2. Cardinality(Counted(Senders, c)') = Cardinality(Counted(Senders \ {s}, c))
      BY <1>2, Zenon
    <3> QED
      BY <2>1, <2>2, <2>3, <2>4, <3>1, <3>2
<1>4. RefCountExact'
  BY <1>3 DEF RefCountExact, Referring, Counted, Added
<1>5. refCount' \in [Contents -> Int]
  BY <1>1, <1>3, Zenon
<1> QED
  BY <1>1, <1>2, <1>4, <1>5, Zenon DEF RefsInv

\* A commit turns what the transaction has counted into attachments, one for one.
LEMMA CommitStep ==
  ASSUME RefsInv, NEW s \in Senders, CommitMessage(s)
  PROVE  RefsInv'
<1>a. PICK n \in Nat : n = Len(messages) + 1
  BY DEF RefsInv
<1>b. PICK D \in SUBSET DOMAIN media : D = tx[s].done
  BY DEF RefsInv, TxRows
<1> DEFINE New == [message : {n}, media : D]
<1>1. /\ messages' = Append(messages, "normal") /\ attachments' = attachments \cup New /\ tx' = [tx EXCEPT ![s] = NoTx]
      /\ UNCHANGED <<media, refCount>>
  BY <1>a, <1>b DEF CommitMessage, fileVars
<1>2. /\ tx' \in [Senders -> TxRows'] /\ \A z \in Senders : z # s => tx'[z] = tx[z]
      /\ \A z \in Senders : tx'[z].todo \cap tx'[z].done = {} /\ (~tx'[z].open => tx'[z] = NoTx)
      /\ \A c \in Contents : Counted(Senders, c)' = Counted(Senders \ {s}, c)
  BY <1>1, TxEnds, Zenon
<1>3. /\ messages' \in Seq(Statuses) /\ DOMAIN messages \subseteq DOMAIN messages' /\ n \in DOMAIN messages'
      /\ n \notin DOMAIN messages
  BY <1>1, <1>a DEF RefsInv, Statuses
<1>4. ASSUME NEW c \in Contents
      PROVE  /\ Cardinality(Referring(c)') = Cardinality(Referring(c)) + Cardinality(Counted({s}, c))
             /\ IsFiniteSet({a \in New : media[a.media] = c})
  <2> DEFINE A == {a \in New : media[a.media] = c}
             P == Counted({s}, c)
             f == [p \in P |-> [message |-> n, media |-> p[2]]]
  <2>1. IsFiniteSet(P) /\ Cardinality(P) \in Nat
    <3>1. {s} \in SUBSET Senders
      OBVIOUS
    <3> QED
      BY <3>1, CountsAreFinite
  <2>2. \A p \in P : p = <<s, p[2]>> /\ p[2] \in D /\ media[p[2]] = c
    BY <1>b DEF Counted
  <2>3. \A a \in A : <<s, a.media>> \in P /\ a = [message |-> n, media |-> a.media]
    BY <1>b DEF Counted
  <2>4. \A p \in P : f[p] \in A
    BY <2>2
  <2>5. f \in [P -> A]
    BY <2>4, Zenon
  <2>6. f \in Injection(P, A)
    <3>1. \A p, q \in P : f[p] = f[q] => p = q
      BY <2>2
    <3> QED
      BY <2>5, <3>1, Zenon DEF Injection, IsInjective
  <2>7. f \in Surjection(P, A)
    <3>1. \A a \in A : \E p \in P : f[p] = a
      <4> SUFFICES ASSUME NEW a \in A PROVE \E p \in P : f[p] = a
        OBVIOUS
      <4>1. <<s, a.media>> \in P /\ f[<<s, a.media>>] = a
        BY <2>3
      <4> QED
        BY <4>1
    <3> QED
      BY <2>5, <3>1, Zenon DEF Surjection
  <2>8. ExistsBijection(P, A)
    BY <2>6, <2>7, Zenon DEF ExistsBijection, Bijection
  <2>9. IsFiniteSet(A) /\ Cardinality(A) = Cardinality(P)
    BY <2>1, <2>8, FS_Bijection
  <2>10. Referring(c)' = Referring(c) \cup A
    BY <1>1 DEF Referring
  <2>11. Referring(c) \cap A = {}
    <3>1. \A a \in Referring(c) : a.message # n
      BY <1>3 DEF Referring, RefsInv
    <3>2. \A a \in A : a.message = n
      OBVIOUS
    <3> QED
      BY <3>1, <3>2
  <2>12. IsFiniteSet(Referring(c)) /\ Cardinality(Referring(c)) \in Nat
    BY CountsAreFinite
  <2> HIDE DEF A, P
  <2>13. Cardinality(Referring(c) \cup A) = Cardinality(Referring(c)) + Cardinality(A) - Cardinality(Referring(c) \cap A)
    BY <2>9, <2>12, FS_Union
  <2>14. Cardinality(Referring(c) \cap A) = 0
    BY <2>11, FS_EmptySet, Zenon
  <2>15. Cardinality(Referring(c)') = Cardinality(Referring(c) \cup A)
    BY <2>10, Zenon
  <2>16. Cardinality(Referring(c)') = Cardinality(Referring(c)) + Cardinality(P)
    BY <2>1, <2>9, <2>12, <2>13, <2>14, <2>15
  <2> QED
    BY <2>9, <2>16 DEF A, P
<1>5. IsFiniteSet(attachments')
  <2> DEFINE g == [m \in D |-> [message |-> n, media |-> m]]
  <2>1. DOMAIN media = 1..Len(media) /\ Len(media) \in Nat
    BY DEF RefsInv
  <2>2. IsFiniteSet(D)
    <3>1. IsFiniteSet(1..Len(media))
      BY <2>1, FS_Interval
    <3>2. D \subseteq 1..Len(media)
      BY <2>1
    <3> QED
      BY <3>1, <3>2, FS_Subset
  <2>3. \A a \in New : \E m \in D : g[m] = a
    OBVIOUS
  <2>4. g \in [D -> New]
    OBVIOUS
  <2>5. g \in Surjection(D, New)
    BY <2>3, <2>4 DEF Surjection
  <2>6. IsFiniteSet(New)
    BY <2>2, <2>5, FS_Surjection
  <2> QED
    BY <1>1, <2>6, FS_Union, Zenon DEF RefsInv
<1>6. attachments' \subseteq [message : DOMAIN messages', media : DOMAIN media']
  BY <1>1, <1>3 DEF RefsInv
<1>7. ASSUME NEW c \in Contents
      PROVE  refCount'[c] = Cardinality(Referring(c)') + Cardinality(Counted(Senders, c)')
  <2>1. refCount'[c] = Cardinality(Referring(c)) + Cardinality(Counted(Senders, c))
    BY <1>1, Exactly DEF RefsInv
  <2>2. /\ Cardinality(Referring(c)) \in Nat /\ Cardinality(Counted({s}, c)) \in Nat
        /\ Cardinality(Counted(Senders \ {s}, c)) \in Nat
    <3>1. {s} \in SUBSET Senders /\ Senders \ {s} \in SUBSET Senders
      OBVIOUS
    <3> QED
      BY <3>1, CountsAreFinite
  <2>3. Cardinality(Counted(Senders, c)') = Cardinality(Counted(Senders \ {s}, c))
    BY <1>2
  <2>4. Cardinality(Referring(c)') = Cardinality(Referring(c)) + Cardinality(Counted({s}, c))
    BY <1>4, Zenon
  <2>5. Cardinality(Counted(Senders, c)) = Cardinality(Counted({s}, c)) + Cardinality(Counted(Senders \ {s}, c))
    BY CountedSplits
  <2> QED
    BY <2>1, <2>2, <2>3, <2>4, <2>5
<1>8. RefCountExact'
  BY <1>7 DEF RefCountExact, Referring, Counted, Added
<1> QED
  BY <1>1, <1>2, <1>3, <1>5, <1>6, <1>8 DEF RefsInv

\* Expired messages keep their attachments.
LEMMA ExpireStep ==
  ASSUME RefsInv, NEW batch \in SUBSET DOMAIN messages, ExpireMessages(batch)
  PROVE  RefsInv'
<1>1. /\ messages' = [i \in DOMAIN messages |-> IF i \in batch THEN "deleted" ELSE messages[i]]
      /\ UNCHANGED <<media, refCount, attachments, tx>>
  BY DEF ExpireMessages, fileVars
<1>2. DOMAIN messages = 1..Len(messages) /\ Len(messages) \in Nat /\ \A i \in DOMAIN messages : messages[i] \in Statuses
  BY DEF RefsInv
<1>3. messages' \in [1..Len(messages) -> Statuses]
  BY <1>1, <1>2 DEF Statuses
<1>4. messages' \in Seq(Statuses)
  BY <1>2, <1>3
<1>5. DOMAIN messages' = DOMAIN messages
  BY <1>1, Zenon
<1>6. attachments' \subseteq [message : DOMAIN messages', media : DOMAIN media']
  BY <1>1, <1>5 DEF RefsInv
<1>7. RefCountExact'
  <2>1. RefCountExact
    BY Zenon DEF RefsInv
  <2>2. UNCHANGED <<media, refCount, attachments, tx>>
    BY <1>1
  <2> QED
    BY <2>1, <2>2 DEF RefCountExact, Added
<1>8. tx' \in [Senders -> TxRows']
  BY <1>1, Zenon DEF RefsInv, TxRows
<1> QED
  BY <1>1, <1>4, <1>6, <1>7, <1>8, Zenon DEF RefsInv

\* A restart rolls every transaction back.
LEMMA RestartRefs ==
  ASSUME RefsInv, Restart
  PROVE  RefsInv'
<1>1. /\ refCount' = [c \in Contents |-> refCount[c] - Added(Senders, c)] /\ tx' = [z \in Senders |-> NoTx]
      /\ UNCHANGED <<media, messages, attachments>>
  BY DEF Restart
<1>2. NoTx \in TxRows' /\ NoTx.todo = {} /\ NoTx.done = {}
  BY DEF NoTx, TxRows
<1>3. ASSUME NEW c \in Contents
      PROVE  refCount'[c] = Cardinality(Referring(c)') + Cardinality(Counted(Senders, c)') /\ refCount'[c] \in Int
  <2>1. refCount'[c] = refCount[c] - Cardinality(Counted(Senders, c))
    BY <1>1, Exactly
  <2>2. refCount[c] = Cardinality(Referring(c)) + Cardinality(Counted(Senders, c))
    BY Exactly DEF RefsInv
  <2>3. Cardinality(Referring(c)) \in Nat /\ Cardinality(Counted(Senders, c)) \in Nat
    BY CountsAreFinite
  <2>4. Referring(c)' = Referring(c)
    BY <1>1 DEF Referring
  <2>5. Counted(Senders, c)' = {}
    BY <1>1, <1>2 DEF Counted
  <2>6. Cardinality(Counted(Senders, c)') = 0
    BY <2>5, FS_EmptySet, Zenon
  <2> QED
    BY <2>1, <2>2, <2>3, <2>4, <2>6
<1>4. RefCountExact'
  BY <1>3 DEF RefCountExact, Referring, Counted, Added
<1>5. refCount' \in [Contents -> Int] /\ tx' \in [Senders -> TxRows']
  BY <1>1, <1>2, <1>3
<1>6. \A z \in Senders : tx'[z].todo \cap tx'[z].done = {} /\ (~tx'[z].open => tx'[z] = NoTx)
  BY <1>1, <1>2
<1> QED
  BY <1>1, <1>4, <1>5, <1>6 DEF RefsInv

-----------------------------------------------------------------------------
(***************************************************************************)
(* All steps, and the theorems.                                            *)
(***************************************************************************)

IInv == FilesInv /\ RefsInv

\* The steps of Put: only CreateMedia matters to messages.
LEMMA PutStep ==
  ASSUME IInv, NEW u \in Uploads, Put(u)
  PROVE  IInv'
<1>1. CASE CreateMedia(u)
  BY <1>1, CreateMediaStep, CreateMediaRefs DEF IInv
<1>2. ASSUME ~CreateMedia(u) PROVE FilesInv' /\ UNCHANGED media /\ UNCHANGED messageVars
  <2>1. CASE (\E c \in Contents : GetBySHA256(u, c)) \/ StatFile(u)
    BY <2>1, LookStep DEF IInv, GetBySHA256, StatFile
  <2>2. CASE OpenFile(u)
    BY <2>2, OpenFileStep, Zenon DEF IInv, OpenFile
  <2>3. CASE FinishWrite(u)
    BY <2>3, FinishWriteStep, Zenon DEF IInv, FinishWrite
  <2>4. CASE CreateBlob(u)
    BY <2>4, CreateBlobStep, Zenon DEF IInv, CreateBlob
  <2>5. CASE PutFails(u) \/ CreateBlobDuplicate(u)
    BY <2>5, PutFailsStep DEF IInv, PutFails, CreateBlobDuplicate
  <2> QED
    BY <1>2, <2>1, <2>2, <2>3, <2>4, <2>5 DEF Put
<1> QED
  BY <1>1, <1>2, RefsUnchanged DEF IInv

\* The steps of Store.Create leave files and their rows alone.
LEMMA CreateStep ==
  ASSUME IInv, NEW s \in Senders, Create(s)
  PROVE  IInv'
<1>1. UNCHANGED fileVars
  BY Zenon DEF Create, BeginMessage, Attach, CommitMessage, RollbackMessage
<1>2. RefsInv'
  BY BeginMessageStep, AttachStep, CommitStep, RollbackStep DEF IInv, Create
<1> QED
  BY <1>1, <1>2, FilesUnchanged DEF IInv

\* Every step keeps the invariant.
LEMMA NextIInv == IInv /\ [Next]_vars => IInv'
<1> SUFFICES ASSUME IInv, [Next]_vars PROVE IInv'
  OBVIOUS
<1>1. ASSUME NEW batch \in SUBSET DOMAIN messages, ExpireMessages(batch) PROVE IInv'
  BY <1>1, ExpireStep, FilesUnchanged DEF IInv, ExpireMessages
<1>2. CASE Restart
  BY <1>2, RestartFiles, RestartRefs DEF IInv
<1>3. CASE UNCHANGED vars
  <2>1. UNCHANGED fileVars /\ UNCHANGED messageVars /\ UNCHANGED media
    BY <1>3 DEF vars, fileVars
  <2> QED
    BY <2>1, FilesUnchanged, RefsUnchanged DEF IInv
<1> QED
  BY <1>1, <1>2, <1>3, PutStep, CreateStep DEF Next

\* The inductive invariant of uploads and reference counts (blob.go, message.go) holds in
\* every reachable state.
THEOREM Invariance == Spec => []IInv
<1>1. Init => IInv
  BY InitFiles, InitRefs DEF IInv
<1> QED
  BY <1>1, NextIInv, PTL DEF Spec

\* Whatever fails and whenever the process ends, no row of blobs lacks its file and no row
\* of media_objects its blob (BlobService.Put).
THEOREM RowHasFileHolds == Spec => []RowHasFile
<1>1. IInv => RowHasFile
  BY DEF IInv, FilesInv
<1> QED
  BY <1>1, Invariance, PTL

\* Uploads of one content at once, however many, leave it complete on disk unless a write
\* was broken off (LocalBlobStore.Write).
THEOREM WholeAtRestHolds == Spec => []WholeAtRest
<1>1. IInv => WholeAtRest
  <2> SUFFICES ASSUME IInv, NEW c \in blobs \ interrupted,
                      \A u \in Uploads : up[u].pc = "writing" => up[u].content # c
               PROVE  file[c] = "whole"
    BY DEF WholeAtRest
  <2>1. c \in Contents \ interrupted /\ file[c] \in States /\ file[c] # "none"
    BY DEF IInv, FilesInv, RowHasFile
  <2>2. file[c] # "partial"
    BY <2>1 DEF IInv, FilesInv, Writing
  <2> QED
    BY <2>1, <2>2 DEF States
<1> QED
  BY <1>1, Invariance, PTL

\* ref_count is the number of attachments plus what open transactions have added, for any
\* number of messages sent at once, rolled back or expired (Store.Create).
THEOREM RefCountExactHolds == Spec => []RefCountExact
<1>1. IInv => RefCountExact
  BY DEF IInv, RefsInv
<1> QED
  BY <1>1, Invariance, PTL

-----------------------------------------------------------------------------
(***************************************************************************)
(* The types.                                                              *)
(***************************************************************************)

\* The bounds hold at first.
LEMMA InitBounds == Init => BoundsInv
BY BlobsAssumption DEF Init, BoundsInv

\* Every step keeps the bounds, and locks rows for senders only.
LEMMA NextBounds ==
  ASSUME IInv, BoundsInv, [Next]_vars
  PROVE  BoundsInv'
<1>1. media \in Seq(Contents) /\ messages \in Seq(Statuses)
  BY Zenon DEF IInv, RefsInv
<1>2. ASSUME NEW u \in Uploads, Put(u) PROVE BoundsInv'
  <2>1. UNCHANGED <<refLock, messages>>
    BY <1>2 DEF Put, GetBySHA256, StatFile, OpenFile, FinishWrite, CreateBlob, CreateBlobDuplicate,
                CreateMedia, PutFails, messageVars
  <2>2. CASE CreateMedia(u)
    <3>1. Len(media) < MaxMedia /\ media' = Append(media, up[u].content) /\ up[u].content \in Contents
      BY <2>2, UpTypes DEF CreateMedia, IInv
    <3>2. Len(media') <= MaxMedia
      BY <1>1, <3>1, BlobsAssumption
    <3> QED
      BY <2>1, <3>2 DEF BoundsInv
  <2>3. CASE UNCHANGED media
    BY <2>1, <2>3 DEF BoundsInv
  <2> QED
    BY <1>2, <2>2, <2>3 DEF Put, GetBySHA256, StatFile, OpenFile, FinishWrite, CreateBlob,
                            CreateBlobDuplicate, PutFails
<1>3. ASSUME NEW s \in Senders, NEW M \in SUBSET DOMAIN media, BeginMessage(s, M) PROVE BoundsInv'
  BY <1>3 DEF BeginMessage, fileVars, BoundsInv
<1>4. ASSUME NEW s \in Senders, NEW k \in DOMAIN media, Attach(s, k) PROVE BoundsInv'
  BY <1>4 DEF Attach, fileVars, BoundsInv
<1>5. \A S : Unlocked(S) \in [Contents -> Senders \cup {NoSender}]
  BY DEF Unlocked, BoundsInv
<1>6. ASSUME NEW s \in Senders, CommitMessage(s) PROVE BoundsInv'
  <2>1. /\ messages' = Append(messages, "normal") /\ Len(messages) < MaxMessages
        /\ refLock' = Unlocked({s}) /\ UNCHANGED media
    BY <1>6 DEF CommitMessage, fileVars
  <2>2. Len(messages') <= MaxMessages
    BY <1>1, <2>1, BlobsAssumption DEF Statuses
  <2> QED
    BY <1>5, <2>1, <2>2 DEF BoundsInv
<1>7. ASSUME NEW s \in Senders, RollbackMessage(s) PROVE BoundsInv'
  BY <1>5, <1>7 DEF RollbackMessage, fileVars, BoundsInv
<1>8. ASSUME NEW batch \in SUBSET DOMAIN messages, ExpireMessages(batch) PROVE BoundsInv'
  <2>1. /\ DOMAIN messages' = DOMAIN messages
        /\ UNCHANGED <<refLock, media>>
    BY <1>8 DEF ExpireMessages, fileVars
  <2>2. messages' \in Seq(Statuses)
    BY <1>8, ExpireStep DEF IInv, RefsInv
  <2>3. Len(messages') = Len(messages)
    BY <1>1, <2>1, <2>2
  <2> QED
    BY <2>1, <2>3 DEF BoundsInv
<1>9. CASE Restart
  BY <1>9 DEF Restart, BoundsInv
<1>10. CASE UNCHANGED vars
  BY <1>10 DEF vars, fileVars, messageVars, BoundsInv
<1> QED
  BY <1>2, <1>3, <1>4, <1>6, <1>7, <1>8, <1>9, <1>10, Zenon DEF Next, Create

\* The tables stay well formed: attachments name messages and media objects that exist,
\* and no reference count goes below zero, whatever is rolled back (Store.Create).
THEOREM TypeCorrect == Spec => []TypeOK
<1>1. Spec => [](IInv /\ BoundsInv)
  BY InitBounds, NextBounds, Invariance, PTL DEF Spec
<1>2. ASSUME IInv, BoundsInv PROVE TypeOK
  <2>1. refCount \in [Contents -> Nat]
    <3>1. ASSUME NEW c \in Contents PROVE refCount[c] \in Nat
      <4>1. refCount[c] = Cardinality(Referring(c)) + Cardinality(Counted(Senders, c))
        BY <1>2, Exactly DEF IInv, RefsInv
      <4>2. Cardinality(Referring(c)) \in Nat /\ Cardinality(Counted(Senders, c)) \in Nat
        BY <1>2, CountsAreFinite DEF IInv
      <4> QED
        BY <4>1, <4>2
    <3> QED
      BY <1>2, <3>1 DEF IInv, RefsInv
  <2>3. UpRows \subseteq UNION {UploadsAt(pc) : pc \in {"stat", "open", "writing", "insert", "media"}}
    <3> SUFFICES ASSUME NEW w \in UpRows
                 PROVE  w \in UNION {UploadsAt(pc) : pc \in {"stat", "open", "writing", "insert", "media"}}
      OBVIOUS
    <3>1. w.pc \in {"stat", "open", "writing", "insert", "media"} /\ w \in UploadsAt(w.pc)
      BY DEF UpRows, Busy, UploadsAt
    <3> QED
      BY <3>1
  <2>4. /\ file \in [Contents -> {"none", "partial", "whole"}]
        /\ blobs \subseteq Contents /\ interrupted \subseteq Contents
        /\ up \in [Uploads -> {NoUpload} \cup
                      UNION {UploadsAt(pc) : pc \in {"stat", "open", "writing", "insert", "media"}}]
    BY <1>2, <2>3 DEF IInv, FilesInv, States
  <2>5. /\ media \in Seq(Contents) /\ Len(media) <= MaxMedia
        /\ messages \in Seq({"normal", "deleted"}) /\ Len(messages) <= MaxMessages
        /\ attachments \subseteq [message : DOMAIN messages, media : DOMAIN media]
        /\ tx \in [Senders -> [open : BOOLEAN, todo : SUBSET DOMAIN media, done : SUBSET DOMAIN media]]
        /\ refLock \in [Contents -> Senders \cup {NoSender}]
    BY <1>2 DEF IInv, RefsInv, BoundsInv, Statuses, TxRows
  <2> QED
    BY <2>1, <2>4, <2>5 DEF TypeOK
<1> QED
  BY <1>1, <1>2, PTL

=============================================================================
