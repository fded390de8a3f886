-------------------------------- MODULE Server -------------------------------
(***************************************************************************)
(* The process (Startup) with the pin store of its embedded IPFS node      *)
(* (PinStore): Start loads the pins between the host and the database      *)
(* rows, requests change them while the process serves, and both go down   *)
(* together.                                                               *)
(***************************************************************************)
EXTENDS Startup, PinStore

vars == <<startupVars, pinVars>>

Init == StartupInit /\ PinInit

\* NewEmbeddedIPFS, which fails if pins.json cannot be parsed.
LoadIpfs ==
    IF pinFile = Garbled
    THEN pc = "ipfs" /\ ProcessGone /\ LosePins /\ UNCHANGED <<dbVars, keyVars, adminVars, exits>>
    ELSE IpfsLoaded /\ LoadPins

\* The steps of App.Start.
Start ==
    \/ StartStep /\ UNCHANGED pinVars
    \/ LoadIpfs
    \/ StartRejected /\ LosePins

Stop == Exit /\ LosePins

Users == Administration /\ UNCHANGED pinVars

Operator == RepairByHand /\ UNCHANGED pinVars

Ipfs == Serving /\ (\E r \in PinRequests : PinStep(r)) /\ UNCHANGED startupVars

Next == Start \/ Stop \/ Users \/ Operator \/ Ipfs

\* A started process goes on, and one that has ended is started again.  Nothing is
\* assumed of users, of the operator, of requests, or of how often processes end (MaxExits bounds it).
Spec == Init /\ [][Next]_vars /\ WF_vars(Start)

-----------------------------------------------------------------------------
\* The types of the state.  Memory that a process has lost is not used: without one
\* there is no host, no secret, no pin in memory and no request.
TypeOK ==
    /\ recorded \in 0..MigrationCount /\ halfDone \in BOOLEAN
    /\ keyFile \in -1..MaxKeys /\ identity \in 0..MaxKeys /\ secret \in 0..MaxKeys
    /\ keys \in 0..MaxKeys /\ lostKeys \in 0..MaxKeys /\ exits \in 0..MaxExits
    /\ nodeRows \subseteq 1..MaxKeys
    /\ space \in BOOLEAN
    /\ adminRow \in [role : {"none", "member", "admin", "owner"}, banned : BOOLEAN]
    /\ pins \subseteq Cids /\ pinFile \in Files
    /\ pinOp \in [PinRequests -> Ops \cup {NoOp}]
    /\ promise \in [Cids -> {"pinned", "unpinned", "open"}]
    /\ pinFailures \in 0..MaxPinFailures
    /\ pc = "down" =>
          identity = NoKey /\ secret = NoKey /\ pins = {} /\ \A r \in PinRequests : pinOp[r] = NoOp

\* Whatever earlier processes have left undone, a process serves only with every
\* migration recorded, under the key that the next one will load, with its row in nodes
\* and a secret made from that key; and when it starts to serve, the default
\* administrator has the role that BootstrapDefaultAdmin "ensures", if the space exists.
ServesPrepared ==
    /\ Serving =>
          /\ recorded = MigrationCount /\ ~halfDone
          /\ keyFile = identity /\ secret = identity /\ identity \in nodeRows
    /\ pc = "start" /\ space => AdminRole \in {"admin", "owner"}

\* The node keeps its peer id across restarts: nodes has one row, and one more for each
\* key that LoadOrCreateIdentity replaced because it could not read the file.
OneIdentity == Cardinality(nodeRows) <= 1 + lostKeys

\* What PinRecursive and UnpinRecursive have answered holds in memory and in pins.json,
\* also after failed calls about this or another CID, and after a restart.
PinsKept ==
    \A c \in Cids :
        /\ promise[c] = "pinned" => c \in pinFile.cids /\ (Serving => c \in pins)
        /\ promise[c] = "unpinned" => c \notin pinFile.cids /\ (Serving => c \notin pins)

\* What makes Start fail every time, until somebody repairs it by hand: a file that MySQL
\* does not parse and that is next, a file of column changes that is in effect but not
\* recorded, a key file cut short, or a default administrator who is banned from the
\* default space.
Wedged ==
    \/ recorded + 1 \in Malformed
    \/ halfDone /\ recorded + 1 \notin Repeatable
    \/ keyFile = ShortKey
    \/ space /\ adminRow.banned

\* Apart from these four, the server comes back from an end at any step of Start, of an
\* operation on the pins, or of Bootstrap.
ComesBack == <>[]~Wedged => []<>(pc = "ready")

=============================================================================
