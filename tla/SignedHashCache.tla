--------------------------- MODULE SignedHashCache ---------------------------
(***************************************************************************)
(* The PoW-hash caches of src/signedhash.cpp: mapPoWCache (hashes this     *)
(* node computed), mapSigCache and mapInvSignedHash (hashes signed by the  *)
(* checkpoint master key), their write-through to the txdb, and their      *)
(* reload by LoadHashCache when the node starts.                           *)
(*                                                                         *)
(* Signatures are abstracted to the key that made them: a signed hash is   *)
(* a record [id, pow, signer], and CheckSignature holds exactly when the   *)
(* signer is the key whose public half is strMasterPubKey.  The node's    *)
(* own PoW of a block is TruePow(id); a peer may relay any pow.  Every     *)
(* operation is one step: the callers (message handling and RPC) hold     *)
(* cs_main, and the cache operations hold cs_caches.                       *)
(***************************************************************************)
EXTENDS Naturals, Sequences

CONSTANTS
    Ids,        \* block id hashes of the block index
    Chain,      \* the active chain from the genesis block to pindexBest
    Keys,       \* signing keys; MasterKey is the one of strMasterPubKey
    MasterKey,
    NoKey,      \* strMasterPrivKey == "" / no public key stored
    Messages    \* the signed hashes peers relay

Pows == {<<"pow", id>> : id \in Ids} \cup {<<"forged", id>> : id \in Ids}
TruePow(id) == <<"pow", id>>
SignedHashes == [id : Ids, pow : Pows, signer : Keys]
NoPow == <<"none">>
NoSig == [id |-> "none", pow |-> NoPow, signer |-> "none"]

ASSUME /\ Chain \in Seq(Ids) /\ Len(Chain) >= 1
       /\ MasterKey \in Keys /\ NoKey \notin Keys
       /\ Messages \subseteq SignedHashes

VARIABLES
    loaded,     \* LoadHashCache has run since the process started
    powCache,   \* mapPoWCache
    sigCache,   \* mapSigCache
    inv,        \* mapInvSignedHash (keyed by the signed hash itself)
    privKey,    \* CSignedHash::strMasterPrivKey
    dbPow,      \* txdb: WritePoWHash entries
    dbSig,      \* txdb: WriteSignedHash entries
    dbPubKey    \* txdb: WriteSignedHashPubKey

vars == <<loaded, powCache, sigCache, inv, privKey, dbPow, dbSig, dbPubKey>>

NoPows == [id \in Ids |-> NoPow]
NoSigs == [id \in Ids |-> NoSig]

TypeOK ==
    /\ loaded \in BOOLEAN
    /\ powCache \in [Ids -> Pows \cup {NoPow}]
    /\ sigCache \in [Ids -> SignedHashes \cup {NoSig}]
    /\ inv \subseteq SignedHashes
    /\ privKey \in Keys \cup {NoKey}
    /\ dbPow \in [Ids -> Pows \cup {NoPow}]
    /\ dbSig \in [Ids -> SignedHashes \cup {NoSig}]
    /\ dbPubKey \in Keys \cup {NoKey}

\* CSignedHash::CheckSignature against strMasterPubKey.
CheckSignature(sh) == sh.signer = MasterKey

\* The ids LoadHashCache visits: "pindex && pindex->pprev" from pindexBest,
\* i.e. the active chain without its genesis block.
LoadedIds == {Chain[i] : i \in 2 .. Len(Chain)}

-----------------------------------------------------------------------------
(***************************************************************************)
(* The node starts on a txdb left by an earlier run, possibly of a build   *)
(* with another master key: it holds this node's own PoW hashes and        *)
(* signed hashes by any key.                                               *)
(***************************************************************************)
Init ==
    /\ loaded = FALSE
    /\ powCache = NoPows
    /\ sigCache = NoSigs
    /\ inv = {}
    /\ privKey = NoKey
    /\ dbPow \in [Ids -> {NoPow} \cup {TruePow(id) : id \in Ids}]
    /\ \A id \in Ids : dbPow[id] \in {NoPow, TruePow(id)}
    /\ dbSig \in [Ids -> {NoSig} \cup Messages]
    /\ \A id \in Ids : dbSig[id] # NoSig => dbSig[id].id = id
    /\ dbPubKey \in Keys \cup {NoKey}

(***************************************************************************)
(* LoadHashCache.  A stored public key other than strMasterPubKey clears   *)
(* the signed caches and, in one txdb transaction, stores the new key and  *)
(* erases the signed hashes of the chain; any failed write returns before *)
(* the commit, leaving the txdb as it was.  Otherwise the chain's stored   *)
(* PoW hashes are loaded, and its stored signed hashes that pass           *)
(* SetSignature.                                                           *)
(***************************************************************************)
LoadHashCache ==
    /\ ~loaded
    /\ loaded' = TRUE
    /\ IF dbPubKey # MasterKey
         THEN /\ sigCache' = NoSigs
              /\ inv' = {}
              /\ \/ /\ dbPubKey' = MasterKey
                    /\ dbSig' = [id \in Ids |-> IF id \in LoadedIds THEN NoSig ELSE dbSig[id]]
                 \/ UNCHANGED <<dbPubKey, dbSig>>
              /\ UNCHANGED powCache
         ELSE LET good == {id \in LoadedIds : dbSig[id] # NoSig /\ CheckSignature(dbSig[id])}
              IN /\ powCache' = [id \in Ids |-> IF id \in LoadedIds /\ dbPow[id] # NoPow
                                                  THEN dbPow[id] ELSE powCache[id]]
                 /\ sigCache' = [id \in Ids |-> IF id \in good THEN dbSig[id] ELSE sigCache[id]]
                 /\ inv' = inv \cup {dbSig[id] : id \in good}
                 /\ UNCHANGED <<dbPubKey, dbSig>>
    /\ UNCHANGED <<privKey, dbPow>>

(***************************************************************************)
(* UncheckedAddHash: the block's PoW hash, computed by this node, goes     *)
(* into mapPoWCache and then to the txdb; the write may fail, and the map  *)
(* keeps the entry anyway.                                                 *)
(***************************************************************************)
UncheckedAddHash(id) ==
    /\ loaded
    /\ powCache' = [powCache EXCEPT ![id] = TruePow(id)]
    /\ \/ dbPow' = [dbPow EXCEPT ![id] = TruePow(id)]
       \/ UNCHANGED dbPow
    /\ UNCHANGED <<loaded, sigCache, inv, privKey, dbSig, dbPubKey>>

(***************************************************************************)
(* ProcessRelaySignedHash: CheckSignature, then UncheckedAddSignedHash     *)
(* (map first, then a txdb write that may fail), then the entry of         *)
(* mapInvSignedHash and the inventory push to every peer.                  *)
(***************************************************************************)
\* Mutant: the signature is not checked.
AcceptAny(sh) == TRUE

Acceptable(sh) == CheckSignature(sh)

RelaySignedHash(sh) ==
    /\ Acceptable(sh)
    /\ sigCache' = [sigCache EXCEPT ![sh.id] = sh]
    /\ \/ dbSig' = [dbSig EXCEPT ![sh.id] = sh]
       \/ UNCHANGED dbSig
    /\ inv' = inv \cup {sh}

\* A signed hash arriving from a peer.
ProcessRelaySignedHash(sh) ==
    /\ loaded
    /\ RelaySignedHash(sh)
    /\ UNCHANGED <<loaded, powCache, privKey, dbPow, dbPubKey>>

(***************************************************************************)
(* SetSignedHashPrivKey: the key is kept if SignHashes succeeds with it.   *)
(* SignHashes fails only for an empty key; it does not verify the         *)
(* signature, so any other key is accepted.                                *)
(***************************************************************************)
SetSignedHashPrivKey(k) ==
    /\ loaded
    /\ privKey' = IF k = NoKey THEN privKey ELSE k
    /\ UNCHANGED <<loaded, powCache, sigCache, inv, dbPow, dbSig, dbPubKey>>

(***************************************************************************)
(* SendSignedHash: the block's PoW hash from ComputeBlockPoWHash (which    *)
(* may fail), signed with strMasterPrivKey (fails if it is empty) and     *)
(* passed to ProcessRelaySignedHash, whose CheckSignature rejects a        *)
(* signature by a wrong key.                                               *)
(***************************************************************************)
SendSignedHash(id) ==
    /\ loaded
    /\ privKey # NoKey
    /\ RelaySignedHash([id |-> id, pow |-> TruePow(id), signer |-> privKey])
    /\ UNCHANGED <<loaded, powCache, privKey, dbPow, dbPubKey>>

(***************************************************************************)
(* The process stops; the maps and the private key are lost, the txdb      *)
(* keeps what was written.                                                 *)
(***************************************************************************)
Crash ==
    /\ loaded' = FALSE
    /\ powCache' = NoPows
    /\ sigCache' = NoSigs
    /\ inv' = {}
    /\ privKey' = NoKey
    /\ UNCHANGED <<dbPow, dbSig, dbPubKey>>

\* SignedHash::GetPoWHash with -usesignedhashes (the default).
GetPoWHash(id) ==
    IF sigCache[id] # NoSig THEN sigCache[id].pow ELSE powCache[id]

Next ==
    \/ LoadHashCache
    \/ \E id \in Ids : UncheckedAddHash(id) \/ SendSignedHash(id)
    \/ \E sh \in Messages : ProcessRelaySignedHash(sh)
    \/ \E k \in Keys \cup {NoKey} : SetSignedHashPrivKey(k)
    \/ Crash

Spec == Init /\ [][Next]_vars

-----------------------------------------------------------------------------
(* Properties. *)

(* Whatever peers relay and whatever an earlier build left in the txdb,    *)
(* the PoW hash GetPoWHash gives for a block is the block's true one (the  *)
(* node's own computation or one signed by the honest master key), and    *)
(* mapInvSignedHash, which the node relays, holds only master signatures.  *)
TrustedHashesOnly ==
    /\ \A id \in Ids : GetPoWHash(id) \in {NoPow, TruePow(id)}
    /\ \A sh \in inv : CheckSignature(sh)

=============================================================================
