---------------------------- MODULE WalletSetInfos ----------------------------
(***************************************************************************)
(* AddInfosDialog's submit (src/qt/addinfosdialog.cpp) and the           *)
(* WalletModel::setInfos it calls (src/qt/walletmodel.cpp), composed with *)
(* the info store they consult.  The dialog validates the entries, asks   *)
(* the user to confirm (with a warning for infos that cannot be changed)  *)
(* and to unlock the wallet.  setInfos checks its arguments, then, holding*)
(* cs_main, runs every info through CTxInfoStore::Process inside a         *)
(* CTxInfoView that is never committed (a dry run), then releases cs_main  *)
(* and, in a second locked section, creates, prices and commits the        *)
(* wallet transaction.  The node (block connection and disconnection,     *)
(* outside src/) uses the store between and around those sections; its    *)
(* calls are the actions of TxInfoStore.                                   *)
(*                                                                         *)
(* The wallet (HaveKey, requestUnlock's dialog, CreateTransaction,        *)
(* ThreadSafeAskFee, CommitTransaction) and the user's answers are outside *)
(* the modelled code; they are free choices.                               *)
(***************************************************************************)
EXTENDS TxInfoStore

CONSTANTS
    BadAddr,    \* an address string CBitcoinAddress::IsValid rejects
    OwnAddrs,   \* the addresses whose key the wallet holds (HaveKey)
    NoOrigin,   \* the origin TxInfoRecord(address, info) defaults to
    Batches     \* the entry lists the user submits

(***************************************************************************)
(* An AddInfoEntry (src/qt/addinfoentry.cpp): the text of its key-type    *)
(* combo box, of its key string field and of its value field.  The dialog *)
(* always holds at least one entry (a remove button is enabled only when  *)
(* there are two or more).                                                 *)
(***************************************************************************)
EntryTypes == {"Name", "Normal", "Write-Once", "Unique", "Id"}
Entry == [type : EntryTypes, keyString : KeyStrings \cup {Empty}, value : Strings]

ASSUME /\ BadAddr \notin Addrs
       /\ OwnAddrs \subseteq Addrs
       /\ NoOrigin \in Origins
       /\ Batches \subseteq Seq(Entry) \ {<<>>}

VARIABLES
    wpc,     \* "idle", "confirm" (the question is shown), "send" (between
             \* setInfos's two locked sections)
    wAddr,   \* the address of the call in progress
    wBatch,  \* its infos
    wret,    \* SetInfosReturn of the last call ("pass": dry run succeeded)
    warning  \* warningLevel of the confirmation question

wvars == <<wpc, wAddr, wBatch, wret, warning>>
allVars == <<vars, wvars>>

SubmitAddrs == Addrs \cup {BadAddr}

\* TxInfoRecord(address, info): the record setInfos asks the store about.
RecordsOf(a, batch) ==
    [i \in DOMAIN batch |-> [addr |-> a, info |-> batch[i], origin |-> NoOrigin]]

\* AddInfoEntry::currentKeyType: the combo box text as a key type.
CurrentKeyType(e) ==
    LET of == [t \in EntryTypes |->
                 CASE t \in {"Name", "Id"} -> INFO_ID
                   [] t = "Normal"        -> INFO_NORMAL
                   [] t = "Write-Once"    -> INFO_WRITE_ONCE
                   [] t = "Unique"        -> INFO_UNIQUE]
    IN of[e.type]

\* AddInfoEntry::getValue: a "Name" entry sets the ID key "n" whatever its
\* (disabled) key string field holds.
GetValue(e) ==
    [key   |-> IF e.type = "Name" THEN [type |-> INFO_ID, keyString |-> "n"]
               ELSE [type |-> CurrentKeyType(e), keyString |-> e.keyString],
     value |-> e.value]

\* AddInfoEntry::validate: TxInfoKey::IsValid, then CTxInfo::IsValid.
Validate(e) == KeyIsValid(GetValue(e).key) /\ InfoIsValid(GetValue(e))

(***************************************************************************)
(* AddInfosDialog::on_submitButton_clicked up to the question: the        *)
(* address must be valid and the wallet's own (ownValidAddress), every    *)
(* entry must validate (TxInfoKey::IsValid, CTxInfo::IsValid) and there   *)
(* must be at least one; the question carries the strongest warning.       *)
(***************************************************************************)
EntryWarning(info) ==
    IF info.key.type = INFO_ID /\ info.key.keyString = "n" THEN 3
    ELSE IF info.key.type = INFO_UNIQUE THEN 2
    ELSE IF info.key.type = INFO_WRITE_ONCE THEN 1
    ELSE 0

WarningLevel(batch) ==
    FoldLeft(LAMBDA lvl, info : IF EntryWarning(info) > lvl THEN EntryWarning(info) ELSE lvl,
             0, batch)

Submit(a, entries) ==
    LET infos == [i \in DOMAIN entries |-> GetValue(entries[i])] IN
    /\ wpc = "idle"
    /\ IF a \in OwnAddrs /\ (\A i \in DOMAIN entries : Validate(entries[i])) /\ infos # <<>>
         THEN /\ wpc' = "confirm"
              /\ wAddr' = a
              /\ wBatch' = infos
              /\ warning' = WarningLevel(infos)
              /\ UNCHANGED wret
         ELSE /\ wret' = "NotSubmitted"
              /\ UNCHANGED <<wpc, wAddr, wBatch, warning>>
    /\ UNCHANGED vars

\* The user answers Cancel, or cancels the unlock (ctx.isValid() false).
Cancel ==
    /\ wpc = "confirm"
    /\ wpc' = "idle"
    /\ wret' = "Cancelled"
    /\ UNCHANGED <<wAddr, wBatch, warning, vars>>

\* The checks before the dry run, in the order of their early returns.
PreCheck(a, batch) ==
    IF batch = <<>> THEN "OK"
    ELSE IF a \notin Addrs THEN "InvalidAddress"
    ELSE IF a \notin OwnAddrs THEN "NotOwnAddress"
    ELSE IF \E i \in DOMAIN batch : ~InfoIsValid(batch[i]) THEN "InvalidInfo"
    ELSE "pass"

(***************************************************************************)
(* One iteration of the dry-run loop: CTxInfoStore::Process inside the    *)
(* view's transaction, i.e. _Process on the uncommitted table t.  A false *)
(* return ends the loop ("fail"); UniqueAddressWithValue may throw.        *)
(***************************************************************************)
\* Mutant: each info is checked against the table as the loop found it.
DryRunProcessAlone(t, rec) ==
    IF t.res # "ok" THEN t
    ELSE IF UniqueThrows(t.rows, rec.info.key, rec.info.value) THEN [t EXCEPT !.res = "throw"]
    ELSE IF StoreIsValid(t.rows, rec) THEN t
    ELSE [t EXCEPT !.res = "fail"]

DryRunProcess(t, rec) ==
    IF t.res # "ok" THEN t
    ELSE IF UniqueThrows(t.rows, rec.info.key, rec.info.value) THEN [t EXCEPT !.res = "throw"]
    ELSE IF StoreIsValid(t.rows, rec)
      THEN [rows |-> Inserted(t.rows, rec, t.seqId + 1), seqId |-> t.seqId + 1, res |-> "ok"]
    ELSE [t EXCEPT !.res = "fail"]

DryRun(a, batch) ==
    FoldLeft(DryRunProcess, [rows |-> rows, seqId |-> seqId, res |-> "ok"], RecordsOf(a, batch))

\* ~CTxInfoView: the view was never committed, so the table reverts to the
\* contents it had when the view began.
ViewEnd(before, after) == before

(***************************************************************************)
(* The user answers Yes and the wallet is unlocked: setInfos(wAddr,       *)
(* wBatch) up to the end of its first locked section.  BeginTransaction   *)
(* throws if the store already has a transaction; the exception, like one *)
(* from UniqueAddressWithValue, leaves setInfos ("exception").             *)
(***************************************************************************)
SetInfosDryRun ==
    LET pre == PreCheck(wAddr, wBatch)
        run == DryRun(wAddr, wBatch)
        table == ViewEnd([rows |-> rows, seqId |-> seqId], [rows |-> run.rows, seqId |-> run.seqId])
    IN
    /\ wpc = "confirm"
    /\ UNCHANGED <<wAddr, wBatch, warning>>
    /\ IF pre # "pass"
         THEN /\ wret' = pre
              /\ wpc' = "idle"
              /\ UNCHANGED vars
       ELSE IF inTx
         THEN /\ wret' = "exception"
              /\ wpc' = "idle"
              /\ UNCHANGED vars
       ELSE /\ rows' = table.rows
            /\ seqId' = table.seqId
            /\ wret' = CASE run.res = "ok" -> "pass"
                         [] run.res = "fail" -> "FailedProcessInfo"
                         [] run.res = "throw" -> "exception"
            /\ wpc' = IF run.res = "ok" THEN "send" ELSE "idle"
            /\ UNCHANGED <<inTx, savedRows, savedSeqId, byteEstimate, ret>>

(***************************************************************************)
(* The second locked section: CreateTransaction (its failure is reported  *)
(* by fee against balance), ThreadSafeAskFee, CommitTransaction.  The     *)
(* store is not touched.                                                   *)
(***************************************************************************)
SetInfosSend ==
    /\ wpc = "send"
    /\ wpc' = "idle"
    /\ wret' \in {"AmountWithFeeExceedsBalance", "TransactionCreationFailed",
                  "Aborted", "TransactionCommitFailed", "OK"}
    /\ UNCHANGED <<wAddr, wBatch, warning, vars>>

WInit ==
    /\ Init
    /\ wpc = "idle"
    /\ wAddr = BadAddr
    /\ wBatch = <<>>
    /\ wret = "OK"
    /\ warning = 0

WNext ==
    \/ Next /\ UNCHANGED wvars
    \/ \E a \in SubmitAddrs, b \in Batches : Submit(a, b)
    \/ Cancel
    \/ SetInfosDryRun
    \/ SetInfosSend

WSpec == WInit /\ [][WNext]_allVars

-----------------------------------------------------------------------------
(* Properties. *)

\* The reference: the abstract history accepts the records one after the
\* other, each against the histories the previous ones left.
H(h) == INSTANCE TxInfoHistory WITH hist <- h, savedHist <- h, inTx <- FALSE, ret <- TRUE

HistStep(acc, rec) ==
    LET p == <<rec.addr, rec.info.key>> IN
    IF acc.ok /\ H(acc.h)!Acceptable(rec)
      THEN [h |-> [acc.h EXCEPT ![p] = Append(@, H(acc.h)!EntryOf(rec))], ok |-> TRUE]
      ELSE [acc EXCEPT !.ok = FALSE]

HistAccepts(h, recs) == FoldLeft(HistStep, [h |-> h, ok |-> TRUE], recs).ok

(* A dry run that gets past the argument checks lets the transaction be   *)
(* sent exactly when the abstract history, in the store's current state,  *)
(* accepts the batch's infos in their order: a later info of the batch is *)
(* judged with the earlier ones already set (a second write-once value,   *)
(* a unique value claimed twice).                                          *)
DryRunAgreesWithHistory ==
    [][SetInfosDryRun /\ wret' \in {"pass", "FailedProcessInfo"}
         => (wret' = "pass" <=> HistAccepts(HistOf(rows), RecordsOf(wAddr, wBatch)))]_allVars

(* Before the user confirms, the question warns about every info that    *)
(* cannot be changed once set: if the batch has a unique, ID or          *)
(* write-once key, the warning level is above zero.                       *)
IrreversibleInfosWarned ==
    wpc = "confirm" /\ (\E i \in DOMAIN wBatch : IsNonOverwritable(wBatch[i].key))
      => warning > 0

=============================================================================
