---------------------------- MODULE TxInfoHistory ----------------------------
(***************************************************************************)
(* What the info store promises, independent of its SQL table: for every  *)
(* address and key a history of (value, origin) entries.  Processing a     *)
(* valid record pushes an entry; undoing a record pops the top entry only  *)
(* when it is exactly that record; the current value is the top entry.    *)
(* A transaction snapshots all histories and rollback restores them.       *)
(***************************************************************************)
EXTENDS TxInfo, Sequences

Entry == [value : Strings, origin : Origins]

VARIABLES hist, savedHist, inTx, ret

NoHistory == [p \in Addrs \X TxInfoKey |-> <<>>]

EntryOf(rec) == [value |-> rec.info.value, origin |-> rec.origin]

Top(a, k) == hist[a, k][Len(hist[a, k])]

\* The addresses whose current value for key k is v.
Holders(k, v) == {a \in Addrs : hist[a, k] # <<>> /\ Top(a, k).value = v}

Acceptable(rec) ==
    LET a == rec.addr  k == rec.info.key IN
    /\ InfoIsValid(rec.info)
    /\ IsUniqueType(k) => Holders(k, rec.info.value) = {}
    /\ IsNonOverwritable(k) => hist[a, k] = <<>>

Init ==
    /\ hist = NoHistory
    /\ savedHist = NoHistory
    /\ inTx = FALSE
    /\ ret = TRUE

Process(rec) ==
    LET p == <<rec.addr, rec.info.key>> IN
    /\ IF Acceptable(rec)
         THEN /\ hist' = [hist EXCEPT ![p] = Append(@, EntryOf(rec))]
              /\ ret' = TRUE
         ELSE /\ ret' = FALSE
              /\ UNCHANGED hist
    /\ UNCHANGED <<savedHist, inTx>>

Undo(rec) ==
    LET p == <<rec.addr, rec.info.key>> IN
    /\ IF hist[p] # <<>> /\ Top(rec.addr, rec.info.key) = EntryOf(rec)
         THEN /\ hist' = [hist EXCEPT ![p] = SubSeq(@, 1, Len(@) - 1)]
              /\ ret' = TRUE
         ELSE /\ ret' = FALSE
              /\ UNCHANGED hist
    /\ UNCHANGED <<savedHist, inTx>>

Begin ==
    /\ ~inTx
    /\ inTx' = TRUE
    /\ savedHist' = hist
    /\ UNCHANGED <<hist, ret>>

Commit ==
    /\ inTx
    /\ inTx' = FALSE
    /\ savedHist' = NoHistory
    /\ UNCHANGED <<hist, ret>>

Rollback ==
    /\ inTx
    /\ inTx' = FALSE
    /\ hist' = savedHist
    /\ savedHist' = NoHistory
    /\ UNCHANGED ret

Reset ==
    /\ hist' = NoHistory
    /\ UNCHANGED <<savedHist, inTx, ret>>

Next ==
    \/ \E rec \in Requests : Process(rec) \/ Undo(rec)
    \/ Begin \/ Commit \/ Rollback \/ Reset

Spec == Init /\ [][Next]_<<hist, savedHist, inTx, ret>>

=============================================================================
