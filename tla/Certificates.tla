---------------------------- MODULE Certificates ----------------------------
(***************************************************************************)
(* PKIManager.VerifyNodeCA: the certificate a node sends with a commit is  *)
(* checked against signature, key and validity, in epochs; the last        *)
(* accepted one of each node is cached and not checked again.              *)
(***************************************************************************)
EXTENDS Integers

CONSTANTS
    Holder,      \* the nodes with a key: the entries of nodeCert
    Stranger,    \* other node IDs that a commit may carry
    Master,      \* the key of the master
    Bounds,      \* validity periods <<EpochLowerBound, EpochUpperBound>>
    LastEpoch    \* bound on the epochs looked at

\* What the base64 text of a certificate decodes to: whose key is certified, who
\* signed, whether the signature is right, and how long it holds.
CA == [publicKey : Holder, decryptKey : Holder \cup {Master}, genuine : BOOLEAN,
       bounds : Bounds]

NodeID == Holder \cup Stranger

\* The empty text: what a commit without a certificate carries, and what the map
\* answers for a node it has no entry for.
NoCA == [empty |-> TRUE]

VARIABLES
    nodeCAMap,   \* the cached certificate of each node
    certEpoch,   \* the epoch of the EpochManager
    lastCheck,   \* the last call and its answer
    cachedAt,    \* history: the epoch at which the cached one was checked
    pkiPanicked  \* the process has died of a nil key

certificateVars == <<nodeCAMap, certEpoch, lastCheck, cachedAt, pkiPanicked>>

CertificateInit ==
    /\ nodeCAMap = [n \in NodeID |-> NoCA]
    /\ certEpoch = 0
    /\ lastCheck = [node |-> Master, ca |-> NoCA, accepted |-> FALSE]
    /\ cachedAt = [n \in NodeID |-> -1]
    /\ pkiPanicked = FALSE

\* CA.Verify: the signature over key and bounds is checked with the key that the
\* certificate itself names.
Verify(ca) == ca.genuine

\* CA.VerifyExpire; <<-1, -1>> holds for ever.
VerifyExpire(ca, epoch) ==
    \/ ca.bounds[1] = ca.bounds[2] /\ ca.bounds[2] = -1
    \/ ca.bounds[1] <= epoch /\ epoch <= ca.bounds[2]

\* One of the two keys is enough.
KeyMatches(node, ca) == ca.decryptKey = Master \/ ca.publicKey = node

\* (A variant, used nowhere: the validity is not looked at.)
CheckedButForExpiry(node, ca, epoch) == ca # NoCA /\ Verify(ca) /\ KeyMatches(node, ca)

\* The full check; what passes it is cached.  The empty text does not decode.
Checked(node, ca, epoch) ==
    ca # NoCA /\ Verify(ca) /\ KeyMatches(node, ca) /\ VerifyExpire(ca, epoch)

\* The second key is that of nodeCert[node], which is nil for a stranger.
MeetsNilKey(node, ca) ==
    /\ nodeCAMap[node] # ca /\ ca # NoCA
    /\ Verify(ca) /\ ca.decryptKey # Master /\ node \notin Holder

VerifyNodeCA(node, ca) ==
    LET hit == nodeCAMap[node] = ca
        passes == ~hit /\ Checked(node, ca, certEpoch)
    IN  /\ ~pkiPanicked /\ ~MeetsNilKey(node, ca)
        /\ lastCheck' = [node |-> node, ca |-> ca, accepted |-> hit \/ passes]
        /\ nodeCAMap' = IF passes THEN [nodeCAMap EXCEPT ![node] = ca] ELSE nodeCAMap
        /\ cachedAt' = IF passes THEN [cachedAt EXCEPT ![node] = certEpoch] ELSE cachedAt
        /\ UNCHANGED <<certEpoch, pkiPanicked>>

UnknownNodePanics(node, ca) ==
    /\ ~pkiPanicked /\ MeetsNilKey(node, ca)
    /\ pkiPanicked' = TRUE
    /\ UNCHANGED <<nodeCAMap, certEpoch, lastCheck, cachedAt>>

\* UpdateEpoch.
NextEpoch ==
    /\ ~pkiPanicked /\ certEpoch < LastEpoch
    /\ certEpoch' = certEpoch + 1
    /\ UNCHANGED <<nodeCAMap, lastCheck, cachedAt, pkiPanicked>>

CertificateNext ==
    \/ NextEpoch
    \/ \E n \in NodeID, ca \in CA \cup {NoCA} : VerifyNodeCA(n, ca) \/ UnknownNodePanics(n, ca)

CertificateSpec == CertificateInit /\ [][CertificateNext]_certificateVars

\* The cache prolongs a certificate, it does not let one in: what is accepted
\* outside its bounds was accepted for the same node while it was valid, was
\* signed properly, and is the last one accepted.  Only the empty text is
\* accepted without a check, and only from a node that had none accepted yet.
ExpiredOnlyIfCached ==
    LET node == lastCheck.node
        ca == lastCheck.ca
    IN  lastCheck.accepted =>
            /\ nodeCAMap[node] = ca
            /\ IF ca = NoCA
               THEN cachedAt[node] = -1
               ELSE ca.genuine /\ VerifyExpire(ca, cachedAt[node])
=============================================================================
