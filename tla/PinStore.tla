------------------------------- MODULE PinStore ------------------------------
(***************************************************************************)
(* The pins of the embedded IPFS node: the set that FileStore keeps in     *)
(* memory, and pins.json, which every change replaces by way of a          *)
(* temporary file.  An operation changes memory first, and keeps the mutex *)
(* until the file is renamed or a call has failed; a failure leaves memory *)
(* changed.  Blocks are content-addressed and never deleted, so they are   *)
(* left out, and so are requests that change no pin.                       *)
(***************************************************************************)
EXTENDS Integers, FiniteSets

CONSTANTS
    Cids,           \* root CIDs
    PinRequests,    \* HTTP requests that may run at once
    MaxPinFailures  \* bound: calls of persistLocked that fail

ASSUME PinStoreAssumption == MaxPinFailures \in Nat

VARIABLES
    pins,         \* FileStore.data.Recursive
    pinFile,      \* pins.json
    pinOp,        \* by request: what it is doing
    promise,      \* by CID: what the last answer about it said, or "open"
    pinFailures   \* number of failed calls so far

pinVars == <<pins, pinFile, pinOp, promise, pinFailures>>

\* What a file may hold.  A file that is missing or empty stands for no pins.
Whole(S) == [state |-> "whole", cids |-> S]
NoFile == [state |-> "none", cids |-> {}]
Garbled == [state |-> "garbled", cids |-> {}]
Files == {Whole(S) : S \in SUBSET Cids} \cup {NoFile, Garbled}

NoOp == [pc |-> "idle"]
Ops == [pc : {"lock", "write", "rename"}, kind : {"pin", "unpin"}, cid : Cids]

\* FileStore.mu is held while persistLocked runs.
Unlocked == \A r \in PinRequests : pinOp[r].pc \notin {"write", "rename"}

PinInit ==
    /\ pins = {} /\ pinFile = NoFile
    /\ pinOp = [r \in PinRequests |-> NoOp]
    /\ promise = [c \in Cids |-> "unpinned"]
    /\ pinFailures = 0

-----------------------------------------------------------------------------
PinRequest(r, kind, c) ==
    /\ pinOp[r] = NoOp
    /\ pinOp' = [pinOp EXCEPT ![r] = [pc |-> "lock", kind |-> kind, cid |-> c]]
    /\ UNCHANGED <<pins, pinFile, promise, pinFailures>>

Pin(r, c) == PinRequest(r, "pin", c)
Unpin(r, c) == PinRequest(r, "unpin", c)

\* The blocks are imported, and Pin is set.
AddFile(r, c) == Pin(r, c)

\* POST /api/ipfs/add, and POST /ipfs/ if the gateway is writable.
HandleIPFSAdd(r, c) == AddFile(r, c)

\* POST and DELETE /api/ipfs/pin/{cid}.
HandleIPFSPin(r, c) == Pin(r, c) \/ Unpin(r, c)

\* Mutant: PinRecursive of a CID in memory returns without saving.
ChangePinsUnlessThere(r) ==
    LET op == pinOp[r]
        there == op.kind = "pin" /\ op.cid \in pins
    IN  /\ op.pc = "lock" /\ Unlocked
        /\ pins' = IF op.kind = "pin" THEN pins \cup {op.cid} ELSE pins \ {op.cid}
        /\ promise' = [promise EXCEPT ![op.cid] = IF there THEN "pinned" ELSE "open"]
        /\ pinOp' = [pinOp EXCEPT ![r] = IF there THEN NoOp ELSE [op EXCEPT !.pc = "write"]]
        /\ UNCHANGED <<pinFile, pinFailures>>

\* PinRecursive and UnpinRecursive, up to the call of persistLocked.
ChangePins(r) ==
    LET op == pinOp[r]
    IN  /\ op.pc = "lock" /\ Unlocked
        /\ pins' = IF op.kind = "pin" THEN pins \cup {op.cid} ELSE pins \ {op.cid}
        /\ promise' = [promise EXCEPT ![op.cid] = "open"]
        /\ pinOp' = [pinOp EXCEPT ![r].pc = "write"]
        /\ UNCHANGED <<pinFile, pinFailures>>

\* Mutant: os.WriteFile on pins.json itself.
WriteInPlace(r) ==
    /\ pinOp[r].pc = "write"
    /\ pinFile' = Garbled
    /\ pinOp' = [pinOp EXCEPT ![r].pc = "rename"]
    /\ UNCHANGED <<pins, promise, pinFailures>>

\* persistLocked: os.WriteFile of the temporary file.  What it holds until the rename is
\* pins, for the mutex is held; what a call that failed has left there is never read.
WriteTmp(r) ==
    /\ pinOp[r].pc = "write"
    /\ pinOp' = [pinOp EXCEPT ![r].pc = "rename"]
    /\ UNCHANGED <<pins, pinFile, promise, pinFailures>>

\* persistLocked: os.Rename.  The request is answered with success.
RenameTmp(r) ==
    LET op == pinOp[r]
    IN  /\ op.pc = "rename"
        /\ pinFile' = Whole(pins)
        /\ promise' = [promise EXCEPT
               ![op.cid] = IF op.kind = "pin" THEN "pinned" ELSE "unpinned"]
        /\ pinOp' = [pinOp EXCEPT ![r] = NoOp]
        /\ UNCHANGED <<pins, pinFailures>>

\* The write fails, or the rename does.  The request is answered with an error.
PersistFails(r) ==
    /\ pinOp[r].pc \in {"write", "rename"} /\ pinFailures < MaxPinFailures
    /\ pinFailures' = pinFailures + 1
    /\ pinOp' = [pinOp EXCEPT ![r] = NoOp]
    /\ UNCHANGED <<pins, pinFile, promise>>

-----------------------------------------------------------------------------
\* NewFileStore: what is in the file.
LoadPins ==
    /\ pins' = pinFile.cids
    /\ UNCHANGED <<pinFile, pinOp, promise, pinFailures>>

\* The end of the process, with the requests it was serving.
LosePins ==
    /\ pins' = {}
    /\ pinOp' = [r \in PinRequests |-> NoOp]
    /\ UNCHANGED <<pinFile, promise, pinFailures>>

PinStep(r) ==
    \/ \E c \in Cids : HandleIPFSAdd(r, c) \/ HandleIPFSPin(r, c)
    \/ ChangePins(r) \/ WriteTmp(r) \/ RenameTmp(r) \/ PersistFails(r)

=============================================================================
