-------------------------------- MODULE Blobs --------------------------------
(***************************************************************************)
(* Attachments: files named by the SHA-256 of what they hold, the rows of  *)
(* blobs and media_objects, and blobs.ref_count, which transactions of     *)
(* message.go increment.  A content stands for its digest and its path.    *)
(*                                                                         *)
(* Put is five steps that other requests, and the end of the process, come *)
(* between: it reads the row, asks for the file, opens (and truncates) it, *)
(* writes it, and inserts the rows.  No code deletes a file or a blob.     *)
(***************************************************************************)
EXTENDS Integers, Sequences, FiniteSets

CONSTANTS
    Contents,      \* what clients upload
    Uploads,       \* requests that run Put
    Senders,       \* requests that send a message with attachments
    NoSender,
    MaxMedia,      \* bound: media objects
    MaxMessages    \* bound: messages with attachments

ASSUME BlobsAssumption ==
    /\ NoSender \notin Senders /\ IsFiniteSet(Senders)
    /\ MaxMedia \in Nat /\ MaxMessages \in Nat

VARIABLES
    file,         \* by content: its file is "none", "partial" or "whole"
    blobs,        \* the contents that have a row in blobs
    refCount,     \* by content: ref_count of that row
    refLock,      \* by content: the transaction that has updated the row, or NoSender
    media,        \* media_objects: the content of each, in the order of their ids
    messages,     \* the status of each message with attachments, in the order of their ids
    attachments,  \* message_attachments: [message, media]
    up,           \* by upload: where Put is
    tx,           \* by sender: the transaction of Store.Create
    interrupted   \* the contents of which some write did not end

fileVars == <<file, blobs, media, up, interrupted>>
messageVars == <<refCount, refLock, messages, attachments, tx>>
vars == <<fileVars, messageVars>>

\* row: what GetBySHA256 found.  It is not read again.
UploadsAt(pc) == [pc : {pc}, content : Contents, row : BOOLEAN]
NoUpload == [pc |-> "idle"]
NoTx == [open |-> FALSE, todo |-> {}, done |-> {}]

-----------------------------------------------------------------------------
(***************************************************************************)
(* BlobService.Put and LocalBlobStore.                                     *)
(***************************************************************************)

\* handleV1UploadMedia or resolveAttachments calls Put, which looks for the row.
GetBySHA256(u, c) ==
    /\ up[u] = NoUpload
    /\ up' = [up EXCEPT ![u] = [pc |-> "stat", content |-> c, row |-> c \in blobs]]
    /\ UNCHANGED <<file, blobs, media, interrupted, messageVars>>

AfterFile(u) == IF up[u].row THEN "media" ELSE "insert"

\* Exists, for a row that was found, and os.Stat in Write: the same question.
StatFile(u) ==
    /\ up[u].pc = "stat"
    /\ up' = [up EXCEPT ![u].pc = IF file[up[u].content] = "none" THEN "open" ELSE AfterFile(u)]
    /\ UNCHANGED <<file, blobs, media, interrupted, messageVars>>

\* os.WriteFile creates the file, or truncates the one created since os.Stat.
OpenFile(u) ==
    /\ up[u].pc = "open"
    /\ file' = [file EXCEPT ![up[u].content] = "partial"]
    /\ up' = [up EXCEPT ![u].pc = "writing"]
    /\ UNCHANGED <<blobs, media, interrupted, messageVars>>

OthersWriting(u) ==
    \E v \in Uploads \ {u} : up[v].pc = "writing" /\ up[v].content = up[u].content

\* Mutant: a short write that goes unnoticed.
FinishWriteShort(u) ==
    /\ up[u].pc = "writing"
    /\ up' = [up EXCEPT ![u].pc = AfterFile(u)]
    /\ UNCHANGED <<file, blobs, media, interrupted, messageVars>>

\* The last of the writers has filled every gap.  Before that it depends on how far the
\* writer that truncated the file has come.
FinishWrite(u) ==
    /\ up[u].pc = "writing"
    /\ \E f \in {"partial", "whole"} :
          /\ f = "partial" => OthersWriting(u) /\ file[up[u].content] = "partial"
          /\ file' = [file EXCEPT ![up[u].content] = f]
    /\ up' = [up EXCEPT ![u].pc = AfterFile(u)]
    /\ UNCHANGED <<blobs, media, interrupted, messageVars>>

\* Mutant: the row goes in before the file is written.
CreateBlobFirst(u) ==
    /\ up[u].pc \in {"stat", "insert"} /\ ~up[u].row
    /\ up[u].content \notin blobs
    /\ blobs' = blobs \cup {up[u].content}
    /\ up' = [up EXCEPT ![u].row = TRUE, ![u].pc = IF @ = "stat" THEN "stat" ELSE "media"]
    /\ UNCHANGED <<file, media, interrupted, messageVars>>

CreateBlob(u) ==
    /\ up[u].pc = "insert"
    /\ up[u].content \notin blobs
    /\ blobs' = blobs \cup {up[u].content}
    /\ up' = [up EXCEPT ![u].pc = "media"]
    /\ UNCHANGED <<file, media, interrupted, messageVars>>

\* The unique key on sha256: another upload of the same content was first.  Put fails.
CreateBlobDuplicate(u) ==
    /\ up[u].pc = "insert"
    /\ up[u].content \in blobs
    /\ up' = [up EXCEPT ![u] = NoUpload]
    /\ UNCHANGED <<file, blobs, media, interrupted, messageVars>>

\* Put returns, and the client is told the media_id.
CreateMedia(u) ==
    /\ up[u].pc = "media"
    /\ Len(media) < MaxMedia
    /\ media' = Append(media, up[u].content)
    /\ up' = [up EXCEPT ![u] = NoUpload]
    /\ UNCHANGED <<file, blobs, interrupted, messageVars>>

Interrupts(u) == IF up[u].pc = "writing" THEN {up[u].content} ELSE {}

\* A statement, os.MkdirAll, the open or the write fails.  What was written stays.
PutFails(u) ==
    /\ up[u] # NoUpload
    /\ up' = [up EXCEPT ![u] = NoUpload]
    /\ interrupted' = interrupted \cup Interrupts(u)
    /\ UNCHANGED <<file, blobs, media, messageVars>>

-----------------------------------------------------------------------------
(***************************************************************************)
(* The attachments in the transaction of Store.Create.  (How it locks the  *)
(* channel is in ChannelMessages; the transactions here may be of          *)
(* different channels.)  A list that names a media object twice violates a *)
(* unique key and is rolled back, so the list is a set.                    *)
(***************************************************************************)

\* resolveAttachments found every media object.
BeginMessage(s, M) ==
    /\ ~tx[s].open
    /\ tx' = [tx EXCEPT ![s] = [open |-> TRUE, todo |-> M, done |-> {}]]
    /\ UNCHANGED <<fileVars, refCount, refLock, messages, attachments>>

\* One turn of the loop.  The UPDATE keeps the row locked until the transaction ends.
Attach(s, m) ==
    LET c == media[m]
    IN  /\ m \in tx[s].todo
        /\ refLock[c] \in {NoSender, s}
        /\ refLock' = [refLock EXCEPT ![c] = s]
        /\ refCount' = [refCount EXCEPT ![c] = @ + 1]
        /\ tx' = [tx EXCEPT ![s].todo = @ \ {m}, ![s].done = @ \cup {m}]
        /\ UNCHANGED <<fileVars, messages, attachments>>

Unlocked(S) == [c \in Contents |-> IF refLock[c] \in S THEN NoSender ELSE refLock[c]]

CommitMessage(s) ==
    /\ tx[s].open /\ tx[s].todo = {}
    /\ Len(messages) < MaxMessages
    /\ messages' = Append(messages, "normal")
    /\ attachments' = attachments \cup [message : {Len(messages) + 1}, media : tx[s].done]
    /\ tx' = [tx EXCEPT ![s] = NoTx]
    /\ refLock' = Unlocked({s})
    /\ UNCHANGED <<fileVars, refCount>>

\* What the open transactions of S have added to the row of c.
Added(S, c) == Cardinality({p \in S \X DOMAIN media : p[2] \in tx[p[1]].done /\ media[p[2]] = c})

\* Mutant: IncRef, which is not part of the transaction, in place of the UPDATE.
RollbackMessageKeepsRefs(s) ==
    /\ tx[s].open
    /\ refLock' = Unlocked({s})
    /\ tx' = [tx EXCEPT ![s] = NoTx]
    /\ UNCHANGED <<fileVars, refCount, messages, attachments>>

\* Mutant: message_attachments is written by the pool, not by the transaction.
RollbackMessageKeepsAttachments(s) ==
    /\ tx[s].open
    /\ refCount' = [c \in Contents |-> refCount[c] - Added({s}, c)]
    /\ refLock' = Unlocked({s})
    /\ attachments' = attachments \cup [message : {Len(messages) + 1}, media : tx[s].done]
    /\ tx' = [tx EXCEPT ![s] = NoTx]
    /\ UNCHANGED <<fileVars, messages>>

\* A statement fails, also as the victim when two transactions wait for each other.
RollbackMessage(s) ==
    /\ tx[s].open
    /\ refCount' = [c \in Contents |-> refCount[c] - Added({s}, c)]
    /\ refLock' = Unlocked({s})
    /\ tx' = [tx EXCEPT ![s] = NoTx]
    /\ UNCHANGED <<fileVars, messages, attachments>>

\* CleanupExpiredMessages marks a batch (chosen by age); attachments and ref_count stay.
ExpireMessages(batch) ==
    /\ \A i \in batch : messages[i] = "normal"
    /\ messages' = [i \in DOMAIN messages |-> IF i \in batch THEN "deleted" ELSE messages[i]]
    /\ UNCHANGED <<fileVars, refCount, refLock, attachments, tx>>

\* The process ends and starts again: transactions roll back, files stay as they are.
Restart ==
    /\ up' = [u \in Uploads |-> NoUpload]
    /\ interrupted' = interrupted \cup UNION {Interrupts(u) : u \in Uploads}
    /\ refCount' = [c \in Contents |-> refCount[c] - Added(Senders, c)]
    /\ refLock' = [c \in Contents |-> NoSender]
    /\ tx' = [s \in Senders |-> NoTx]
    /\ UNCHANGED <<file, blobs, media, messages, attachments>>

-----------------------------------------------------------------------------
Init ==
    /\ file = [c \in Contents |-> "none"] /\ blobs = {} /\ media = <<>>
    /\ refCount = [c \in Contents |-> 0] /\ refLock = [c \in Contents |-> NoSender]
    /\ messages = <<>> /\ attachments = {}
    /\ up = [u \in Uploads |-> NoUpload] /\ interrupted = {}
    /\ tx = [s \in Senders |-> NoTx]

Put(u) ==
    \/ \E c \in Contents : GetBySHA256(u, c)
    \/ StatFile(u) \/ OpenFile(u) \/ FinishWrite(u)
    \/ CreateBlob(u) \/ CreateBlobDuplicate(u) \/ CreateMedia(u) \/ PutFails(u)

Create(s) ==
    \/ \E M \in SUBSET DOMAIN media : M # {} /\ BeginMessage(s, M)
    \/ \E m \in DOMAIN media : Attach(s, m)
    \/ CommitMessage(s) \/ RollbackMessage(s)

Next ==
    \/ \E u \in Uploads : Put(u)
    \/ \E s \in Senders : Create(s)
    \/ \E batch \in (SUBSET DOMAIN messages) \ {{}} : ExpireMessages(batch)
    \/ Restart

Spec == Init /\ [][Next]_vars

-----------------------------------------------------------------------------
\* The types of the state.  In particular every row of message_attachments names a message
\* and a media object that exist, although no foreign key asks for it: Store.Create inserts
\* it in the transaction of the message.
TypeOK ==
    /\ file \in [Contents -> {"none", "partial", "whole"}]
    /\ blobs \subseteq Contents /\ interrupted \subseteq Contents
    /\ refCount \in [Contents -> Nat]
    /\ media \in Seq(Contents) /\ Len(media) <= MaxMedia
    /\ messages \in Seq({"normal", "deleted"}) /\ Len(messages) <= MaxMessages
    /\ attachments \subseteq [message : DOMAIN messages, media : DOMAIN media]
    /\ up \in [Uploads -> {NoUpload} \cup
                  UNION {UploadsAt(pc) : pc \in {"stat", "open", "writing", "insert", "media"}}]
    /\ tx \in [Senders -> [open : BOOLEAN, todo : SUBSET DOMAIN media, done : SUBSET DOMAIN media]]
    /\ refLock \in [Contents -> Senders \cup {NoSender}]

\* A row never goes without its file, nor a media object without its row: Put writes the
\* file first and inserts blobs before media_objects, so failures and restarts in between
\* leave files without rows only.
RowHasFile ==
    /\ \A c \in blobs : file[c] # "none"
    /\ \A m \in DOMAIN media : media[m] \in blobs

\* Uploads of the same content that run at once do not spoil the file for good: when none
\* of them is writing and none was broken off, a content with a row is complete on disk,
\* although os.Stat and the truncating open of LocalBlobStore.Write are separate steps.
WholeAtRest ==
    \A c \in blobs \ interrupted :
        (\A u \in Uploads : up[u].pc = "writing" => up[u].content # c) => file[c] = "whole"

\* ref_count of a blob is the number of attachments of its media objects, whatever
\* messages are created at once, rolled back or expired, plus what open transactions
\* have added (Store.Create counts in the transaction that inserts the attachments).
RefCountExact ==
    \A c \in Contents :
        refCount[c] = Cardinality({a \in attachments : media[a.media] = c}) + Added(Senders, c)

\* "Put stores attachment content": a media object that Put returned can be downloaded
\* with the content that was uploaded.  Violated: Write takes any file at the path for the
\* content, also one that another upload is writing or that a broken-off write has left.
MediaIsStored == \A m \in DOMAIN media : file[media[m]] = "whole"

=============================================================================
