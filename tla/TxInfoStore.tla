----------------------------- MODULE TxInfoStore -----------------------------
(***************************************************************************)
(* CTxInfoStore (src/txinfo.cpp): the SQLite table TxDbEntry of address    *)
(* infos, one row per processed record with an AUTOINCREMENT id and an     *)
(* is_latest flag, and the store's transaction (curTransaction).           *)
(*                                                                         *)
(* Every public call of the store is one step: callers hold cs_main, so    *)
(* the store is never entered by two threads at once.  A call that throws  *)
(* (BeginTransaction inside a transaction, Commit or Rollback outside one, *)
(* UniqueAddressWithValue finding two addresses) changes nothing and is    *)
(* not a step.                                                             *)
(***************************************************************************)
EXTENDS TxInfo, FiniteSets, Sequences, SequencesExt

CONSTANT MaxRows   \* bound on the AUTOINCREMENT id and on byteEstimate

ASSUME MaxRows \in Nat

Ids == 1 .. MaxRows
Row == [id : Ids, latest : BOOLEAN, rec : TxInfoRecord]
NoValue == "none"

VARIABLES
    rows,         \* the rows of TxDbEntry
    seqId,        \* sqlite_sequence: the largest id handed out
    inTx,         \* curTransaction # NULL
    savedRows,    \* table contents when the transaction began
    savedSeqId,   \* sqlite_sequence when the transaction began
    byteEstimate, \* byteEstimate, counted in processed records
    ret           \* return value of the last Process or Undo

vars == <<rows, seqId, inTx, savedRows, savedSeqId, byteEstimate, ret>>

TypeOK ==
    /\ rows \subseteq Row
    /\ seqId \in 0 .. MaxRows
    /\ inTx \in BOOLEAN
    /\ savedRows \subseteq Row
    /\ savedSeqId \in 0 .. MaxRows
    /\ byteEstimate \in 0 .. MaxRows
    /\ ret \in BOOLEAN

-----------------------------------------------------------------------------
(* Queries. *)

\* "WHERE address=? AND key_type=? AND key=?"
RowsFor(R, a, k) == {r \in R : r.rec.addr = a /\ r.rec.info.key = k}

\* "WHERE id=(SELECT MAX(id) ...)"
Newest(S) == CHOOSE r \in S : \A x \in S : x.id <= r.id

\* CTxInfoStore::Get
Get(a, k) ==
    IF RowsFor(rows, a, k) = {} THEN NoValue
    ELSE Newest(RowsFor(rows, a, k)).rec.info.value

\* The rows returned by CTxInfoStore::AddressesWithValue.
LatestWithValue(R, k, v) ==
    {r \in R : r.rec.info.key = k /\ r.rec.info.value = v /\ r.latest}

\* CTxInfoStore::UniqueAddressWithValue throws "multiple addresses".
\* (reached from IsValid only for unique-type keys)
UniqueThrows(R, k, v) == IsUniqueType(k) /\ Cardinality(LatestWithValue(R, k, v)) > 1

\* The unique-value test of CTxInfoStore::IsValid.
\* Mutant: only INFO_UNIQUE keys are tested.
UniqueValueFreeUniqueOnly(R, rec) ==
    rec.info.key.type = INFO_UNIQUE => LatestWithValue(R, rec.info.key, rec.info.value) = {}

UniqueValueFree(R, rec) ==
    IsUniqueType(rec.info.key) => LatestWithValue(R, rec.info.key, rec.info.value) = {}

\* CTxInfoStore::IsValid(record)
StoreIsValid(R, rec) ==
    /\ InfoIsValid(rec.info)
    /\ UniqueValueFree(R, rec)
    /\ IsNonOverwritable(rec.info.key) => RowsFor(R, rec.addr, rec.info.key) = {}

-----------------------------------------------------------------------------
(* Statements of _Process and _Undo on a set of rows. *)

\* _Process: "UPDATE ... SET is_latest=0" then "INSERT ... VALUES (1, ...)".
Inserted(R, rec, id) ==
    {IF r.rec.addr = rec.addr /\ r.rec.info.key = rec.info.key
       THEN [r EXCEPT !.latest = FALSE] ELSE r : r \in R}
      \cup {[id |-> id, latest |-> TRUE, rec |-> rec]}

\* _Undo: the rows "DELETE ... WHERE is_latest=1 AND <all fields>" removes.
\* Mutant: the is_latest=1 condition is missing.
VictimsAnyLatest(R, rec) == {r \in R : r.rec = rec}

Victims(R, rec) == {r \in R : r.latest /\ r.rec = rec}

\* _Undo: "UPDATE ... SET is_latest=1 WHERE id=(SELECT MAX(id) ...)".
\* Mutant: the update is missing.
MarkNewestDropped(R, a, k) == R

MarkNewest(R, a, k) ==
    IF RowsFor(R, a, k) = {} THEN R
    ELSE LET n == Newest(RowsFor(R, a, k)) IN
         (R \ {n}) \cup {[n EXCEPT !.latest = TRUE]}

-----------------------------------------------------------------------------
Init ==
    /\ rows = {}
    /\ seqId = 0
    /\ inTx = FALSE
    /\ savedRows = {}
    /\ savedSeqId = 0
    /\ byteEstimate = 0
    /\ ret = TRUE

(***************************************************************************)
(* CTxInfoStore::Process: _Process inside the open transaction, or inside *)
(* a CTxInfoView that commits on success and rolls back otherwise.         *)
(***************************************************************************)
Process(rec) ==
    /\ seqId < MaxRows
    /\ byteEstimate < MaxRows
    /\ ~UniqueThrows(rows, rec.info.key, rec.info.value)
    /\ IF StoreIsValid(rows, rec)
         THEN /\ rows' = Inserted(rows, rec, seqId + 1)
              /\ seqId' = seqId + 1
              /\ byteEstimate' = IF inTx THEN byteEstimate + 1 ELSE 0
              /\ ret' = TRUE
         ELSE /\ ret' = FALSE
              /\ UNCHANGED <<rows, seqId, byteEstimate>>
    /\ UNCHANGED <<inTx, savedRows, savedSeqId>>

(***************************************************************************)
(* CTxInfoStore::Undo: _Undo inside the open transaction or a CTxInfoView. *)
(***************************************************************************)
Undo(rec) ==
    LET victims == Victims(rows, rec) IN
    /\ IF victims # {}
         THEN /\ rows' = MarkNewest(rows \ victims, rec.addr, rec.info.key)
              /\ ret' = TRUE
         ELSE /\ ret' = FALSE
              /\ UNCHANGED rows
    /\ UNCHANGED <<seqId, inTx, savedRows, savedSeqId, byteEstimate>>

\* BeginTransaction: a new SQLite::Transaction; byteEstimate = 0.
BeginTransaction ==
    /\ ~inTx
    /\ inTx' = TRUE
    /\ savedRows' = rows
    /\ savedSeqId' = seqId
    /\ byteEstimate' = 0
    /\ UNCHANGED <<rows, seqId, ret>>

\* Commit: curTransaction->commit().
Commit ==
    /\ inTx
    /\ inTx' = FALSE
    /\ savedRows' = {}
    /\ savedSeqId' = 0
    /\ byteEstimate' = 0
    /\ UNCHANGED <<rows, seqId, ret>>

\* Rollback (also ~CTxInfoStore, and a crash inside the transaction): the
\* SQLite::Transaction is destroyed uncommitted and the table reverts.
Rollback ==
    /\ inTx
    /\ inTx' = FALSE
    /\ rows' = savedRows
    /\ seqId' = savedSeqId
    /\ savedRows' = {}
    /\ savedSeqId' = 0
    /\ byteEstimate' = 0
    /\ UNCHANGED ret

\* Reset: DROP TABLE TxDbEntry, then Initialize() creates it empty.
Reset ==
    /\ rows' = {}
    /\ seqId' = 0
    /\ UNCHANGED <<inTx, savedRows, savedSeqId, byteEstimate, ret>>

Next ==
    \/ \E rec \in Requests : Process(rec) \/ Undo(rec)
    \/ BeginTransaction \/ Commit \/ Rollback \/ Reset

Spec == Init /\ [][Next]_vars

-----------------------------------------------------------------------------
(* Properties. *)

(* For every address and key that has rows, exactly one row is flagged    *)
(* is_latest and it is the row of largest id: Get (which reads MAX(id))   *)
(* and AddressesWithValue (which reads is_latest=1) see the same current  *)
(* value, through any sequence of Process, Undo and rollback.              *)
LatestIsNewest ==
    \A a \in Addrs, k \in TxInfoKey :
        RowsFor(rows, a, k) # {} =>
            {r \in RowsFor(rows, a, k) : r.latest} = {Newest(RowsFor(rows, a, k))}

(* A unique or ID key never has one value current at two addresses, so    *)
(* UniqueAddressWithValue never throws "Unique key has multiple addresses *)
(* for one value!".                                                        *)
UniqueValueSingleHolder ==
    \A k \in TxInfoKey, v \in Strings :
        IsUniqueType(k) => Cardinality(LatestWithValue(rows, k, v)) <= 1

(* The table implements the per-key histories of TxInfoHistory: the       *)
(* history of (a, k) is its rows in id order.                              *)
HistOf(R) ==
    [p \in Addrs \X TxInfoKey |->
        LET S == SetToSortSeq(RowsFor(R, p[1], p[2]), LAMBDA x, y : x.id < y.id)
        IN [i \in DOMAIN S |-> [value |-> S[i].rec.info.value,
                                origin |-> S[i].rec.origin]]]

Hist == INSTANCE TxInfoHistory
          WITH hist <- HistOf(rows), savedHist <- HistOf(savedRows)

ImplementsHistory == Hist!Spec

=============================================================================
