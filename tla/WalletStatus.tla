------------------------------ MODULE WalletStatus ------------------------------
(***************************************************************************)
(* The status side of WalletModel (src/qt/walletmodel.cpp): the figures  *)
(* and encryption status it caches and signals to the GUI (update,        *)
(* getEncryptionStatus), the lock operations it forwards to the wallet,   *)
(* and the UnlockContext that requestUnlock returns to a sending dialog,  *)
(* which relocks the wallet when the dialog's scope ends.                  *)
(*                                                                         *)
(* CWallet (EncryptWallet, Lock, Unlock, ChangeWalletPassphrase), the    *)
(* passphrase dialog that answers requireUnlock, and the setting of        *)
(* fWalletUnlockMintOnly are outside the modelled code: their outcomes   *)
(* are free choices.  All of it runs on the GUI thread, one step at a    *)
(* time; while a dialog holds a context, the GUI thread is in that        *)
(* dialog, so the user's lock operations wait for it to return.           *)
(*                                                                         *)
(* A dialog in scope with a valid context may call sendCoins.  Its checks  *)
(* of the recipients and of the balance run without a lock; then, holding  *)
(* cs_main and cs_wallet, CWallet creates the transaction, the user is    *)
(* asked about the fee and the wallet commits it.  The wallet's figures   *)
(* may change between these steps (blocks arrive on other threads).       *)
(***************************************************************************)
EXTENDS Naturals, FiniteSets, SequencesExt

CONSTANTS
    Dests,        \* addresses CBitcoinAddress::IsValid accepts
    BadDest,      \* an address text it rejects
    SendLists,    \* the recipient lists the dialog passes to sendCoins
    TxFee,        \* nTransactionFee
    FeesRequired, \* the nFeeRequired CreateTransaction may report
    MaxBalance    \* bound on the wallet's balance

ASSUME /\ BadDest \notin Dests
       /\ SendLists \subseteq Seq([address : Dests \cup {BadDest}, amount : Nat])
       /\ TxFee \in Nat /\ FeesRequired \subseteq Nat /\ MaxBalance \in Nat

Statuses == {"Unencrypted", "Locked", "Unlocked"}

\* getBalance, getStake, getUnconfirmedBalance, getGenerated,
\* getNumTransactions, abstracted to a few values each.  update() caches
\* all of them but the stake.
Figures == [balance : 0 .. MaxBalance, stake : 0 .. 1, unconfirmed : 0 .. 1, generated : 0 .. 1, numTx : 0 .. 1]
CachedFigures == [balance : 0 .. MaxBalance, unconfirmed : 0 .. 1, generated : 0 .. 1, numTx : 0 .. 1]
Zero == [balance |-> 0, stake |-> 0, unconfirmed |-> 0, generated |-> 0, numTx |-> 0]
ZeroCache == [balance |-> 0, unconfirmed |-> 0, generated |-> 0, numTx |-> 0]
Context == [live : BOOLEAN, valid : BOOLEAN, relock : BOOLEAN]
NoContext == [live |-> FALSE, valid |-> FALSE, relock |-> FALSE]
SendReturns == {"OK", "InvalidAddress", "DuplicateAddress", "AmountExceedsBalance",
                "AmountWithFeeExceedsBalance", "TransactionCreationFailed",
                "Aborted", "TransactionCommitFailed"}

VARIABLES
    fig,         \* the wallet's current figures
    cachedFig,   \* cachedBalance, cachedUnconfirmedBalance, cachedGenerated,
                 \* cachedNumTransactions
    shownFig,    \* the figures last signalled by balanceChanged and
                 \* numTransactionsChanged (zero, as the caches, before any)
    crypted,     \* wallet->IsCrypted()
    locked,      \* wallet->IsLocked()
    mintOnly,    \* fWalletUnlockMintOnly
    cachedEnc,   \* cachedEncryptionStatus
    shown,       \* the status the GUI was last told by encryptionStatusChanged
    emitted,     \* the last update() emitted encryptionStatusChanged
    pc,          \* the sending dialog: "idle", "returned" (requestUnlock has
                 \* built its result), "inscope" (the dialog holds ctx)
    temp,        \* the UnlockContext requestUnlock returns
    ctx,         \* the dialog's UnlockContext
    relocked,    \* contexts' relocks during the current request
    found,       \* locked and fWalletUnlockMintOnly when the request began
                 \* (a history variable)
    spc,         \* sendCoins: "none", "fee" (before the fee check),
                 \* "create" (before the locked section)
    rcps,        \* its recipients, while it runs
    sret         \* the status it last returned in the dialog's scope (a
                 \* local of the dialog, gone when the scope ends)

figVars == <<fig, cachedFig, shownFig>>
vars == <<fig, cachedFig, shownFig, crypted, locked, mintOnly, cachedEnc, shown, emitted, pc, temp, ctx, relocked, found, spc, rcps, sret>>
sendVars == <<spc, rcps, sret>>

TypeOK ==
    /\ fig \in Figures /\ cachedFig \in CachedFigures /\ shownFig \in Figures
    /\ crypted \in BOOLEAN /\ locked \in BOOLEAN /\ mintOnly \in BOOLEAN
    /\ cachedEnc \in Statuses /\ shown \in Statuses /\ emitted \in BOOLEAN
    /\ pc \in {"idle", "returned", "inscope"}
    /\ temp \in Context /\ ctx \in Context
    /\ relocked \in 0 .. 2
    /\ found \in [locked : BOOLEAN, mintOnly : BOOLEAN]
    /\ spc \in {"none", "fee", "create"}
    /\ rcps \in SendLists \cup {<<>>}
    /\ sret \in SendReturns

\* WalletModel::getEncryptionStatus
EncryptionStatus ==
    IF ~crypted THEN "Unencrypted" ELSE IF locked THEN "Locked" ELSE "Unlocked"

\* wallet->Lock(): fails (and changes nothing) on an unencrypted wallet.
LockWallet == locked' = crypted

\* ~UnlockContext on context c: relock if valid and responsible.
Destroy(c) ==
    /\ locked' = IF c.valid /\ c.relock THEN crypted ELSE locked
    /\ relocked' = IF c.valid /\ c.relock THEN relocked + 1 ELSE relocked

-----------------------------------------------------------------------------
Init ==
    /\ fig \in Figures
    /\ cachedFig = ZeroCache
    /\ shownFig = Zero
    /\ crypted \in BOOLEAN
    /\ locked = crypted
    /\ mintOnly = FALSE
    /\ cachedEnc = "Unencrypted"
    /\ shown = EncryptionStatus
    /\ emitted = FALSE
    /\ pc = "idle"
    /\ temp = NoContext /\ ctx = NoContext
    /\ relocked = 0
    /\ found = [locked |-> locked, mintOnly |-> mintOnly]
    /\ spc = "none"
    /\ rcps = <<>>
    /\ sret = "OK"

\* The balanceChanged test of update().
BalanceDiffers(old, new) ==
    old.balance # new.balance \/ old.unconfirmed # new.unconfirmed \/ old.generated # new.generated

\* The figures a signal of update() carries: balanceChanged carries the
\* balance, getStake(), the generated and the unconfirmed amounts;
\* numTransactionsChanged the transaction count.
Signalled(k) ==
    IF k = "numTx" THEN cachedFig.numTx # fig.numTx ELSE BalanceDiffers(cachedFig, fig)

\* WalletModel::update, as the GUI's timer calls it.
Update ==
    /\ shownFig' = [k \in DOMAIN shownFig |-> IF Signalled(k) THEN fig[k] ELSE shownFig[k]]
    /\ cachedFig' = [k \in DOMAIN cachedFig |-> fig[k]]
    /\ emitted' = (cachedEnc # EncryptionStatus)
    /\ shown' = IF cachedEnc # EncryptionStatus THEN EncryptionStatus ELSE shown
    /\ UNCHANGED <<sendVars, fig, crypted, locked, mintOnly, cachedEnc, pc, temp, ctx, relocked, found>>

\* Blocks and transactions change the wallet's figures.
WalletChanges(f) ==
    /\ fig' = f
    /\ UNCHANGED <<sendVars, cachedFig, shownFig, crypted, locked, mintOnly, cachedEnc, shown, emitted, pc, temp, ctx, relocked, found>>

\* setWalletEncrypted(true): EncryptWallet, after which the wallet is locked.
Encrypt ==
    /\ pc = "idle" /\ ~crypted
    /\ crypted' = TRUE /\ locked' = TRUE
    /\ UNCHANGED <<sendVars, fig, cachedFig, shownFig, mintOnly, cachedEnc, shown, emitted, pc, temp, ctx, relocked, found>>

\* setWalletLocked(true), and changePassphrase, which locks first and
\* leaves the wallet locked.
Lock ==
    /\ pc = "idle"
    /\ LockWallet
    /\ UNCHANGED <<sendVars, fig, cachedFig, shownFig, crypted, mintOnly, cachedEnc, shown, emitted, pc, temp, ctx, relocked, found>>

\* setWalletLocked(false, pass) from the passphrase dialog, for sending or
\* for minting only (which the dialog records in fWalletUnlockMintOnly).
Unlock(forMinting) ==
    /\ pc = "idle" /\ crypted
    /\ locked' = FALSE
    /\ mintOnly' = forMinting
    /\ UNCHANGED <<sendVars, fig, cachedFig, shownFig, crypted, cachedEnc, shown, emitted, pc, temp, ctx, relocked, found>>

(***************************************************************************)
(* requestUnlock: a wallet unlocked for minting only is locked first;     *)
(* a locked wallet raises requireUnlock, whose dialog may unlock it or    *)
(* be cancelled; the context is valid if the wallet is not locked, and    *)
(* relocks if the wallet was locked and fWalletUnlockMintOnly, as the     *)
(* passphrase dialog left it (the dialog sets it when it unlocks), is off. *)
(***************************************************************************)
\* "return UnlockContext(this, valid, was_locked && !fWalletUnlockMintOnly)"
\* Mutant: the mint-only exception is missing (relock whenever was_locked).
ReturnedRelockAlways(wasLocked, lockedAfter, mintFlag) ==
    [live |-> TRUE, valid |-> ~(crypted /\ lockedAfter), relock |-> wasLocked]

Returned(wasLocked, lockedAfter, mintFlag) ==
    [live |-> TRUE, valid |-> ~(crypted /\ lockedAfter), relock |-> wasLocked /\ ~mintFlag]

RequestUnlock(dialogUnlocks, dialogMintOnly) ==
    LET lockedFirst == ~locked /\ mintOnly
        wasLocked == (crypted /\ locked) \/ (lockedFirst /\ crypted)
        lockedAfter == IF wasLocked THEN ~dialogUnlocks ELSE locked
        mintAfter == IF wasLocked /\ dialogUnlocks THEN dialogMintOnly ELSE mintOnly
    IN
    /\ pc = "idle"
    /\ locked' = lockedAfter
    /\ mintOnly' = mintAfter
    /\ temp' = Returned(wasLocked, lockedAfter, mintAfter)
    /\ pc' = "returned"
    /\ relocked' = 0
    /\ found' = [locked |-> locked, mintOnly |-> mintOnly]
    /\ UNCHANGED <<sendVars, fig, cachedFig, shownFig, crypted, cachedEnc, shown, emitted, ctx>>

\* UnlockContext::CopyFrom: "old object no longer relocks wallet".
\* Mutant: the source keeps its relock flag.
CopyFromKeepingRelock(dst, src) == [dst |-> src, src |-> src]

CopyFrom(dst, src) == [dst |-> src, src |-> [src EXCEPT !.relock = FALSE]]

(***************************************************************************)
(* The dialog's "UnlockContext ctx(model->requestUnlock())": the copy is  *)
(* elided, or ctx is copied from the returned temporary through CopyFrom  *)
(* and the temporary is destroyed.                                         *)
(***************************************************************************)
TakeContext ==
    /\ pc = "returned"
    /\ pc' = "inscope"
    /\ temp' = NoContext
    /\ \/ /\ ctx' = temp
          /\ UNCHANGED <<locked, relocked>>
       \/ LET cp == CopyFrom(ctx, temp) IN
          /\ ctx' = cp.dst
          /\ Destroy(cp.src)
    /\ UNCHANGED <<sendVars, fig, cachedFig, shownFig, crypted, mintOnly, cachedEnc, shown, emitted, found>>

\* The dialog's scope ends: ~UnlockContext on ctx.
EndScope ==
    /\ pc = "inscope" /\ spc = "none"
    /\ pc' = "idle"
    /\ ctx' = NoContext
    /\ Destroy(ctx)
    /\ sret' = "OK"
    /\ UNCHANGED <<spc, rcps, fig, cachedFig, shownFig, crypted, mintOnly, cachedEnc, shown, emitted, temp, found>>

-----------------------------------------------------------------------------
(***************************************************************************)
(* WalletModel::sendCoins, in three steps between which the wallet's      *)
(* figures may change: the unlocked checks up to the first getBalance(),  *)
(* the fee check with a second getBalance(), and the section under        *)
(* LOCK2(cs_main, cs_wallet).  The address-book labels written after the  *)
(* commit are left out.                                                    *)
(***************************************************************************)
Total(l) == FoldLeft(LAMBDA t, r : t + r.amount, 0, l)

\* getBalance() reads wallet->GetBalance(), not update()'s cache.
BalanceRead == fig.balance

\* The checks before the fee check; "pass" when none returns.
PreCheck(l) ==
    IF l = <<>> THEN "OK"
    ELSE IF \E i \in DOMAIN l : l[i].address \notin Dests THEN "InvalidAddress"
    ELSE IF Len(l) > Cardinality({l[i].address : i \in DOMAIN l}) THEN "DuplicateAddress"
    ELSE IF Total(l) > BalanceRead THEN "AmountExceedsBalance"
    ELSE "pass"

\* sendCoins(l).  Nothing in src/ calls it; it is called as AddInfosDialog
\* calls setInfos, by a dialog in scope holding a valid context.
SendCheck(l) ==
    /\ pc = "inscope" /\ ctx.valid /\ spc = "none"
    /\ IF PreCheck(l) = "pass"
         THEN spc' = "fee" /\ rcps' = l /\ UNCHANGED sret
         ELSE spc' = "none" /\ sret' = PreCheck(l) /\ UNCHANGED rcps
    /\ UNCHANGED <<figVars, crypted, locked, mintOnly, cachedEnc, shown, emitted, pc, temp, ctx, relocked, found>>

\* "if((total + nTransactionFee) > getBalance())"
SendFeeCheck ==
    /\ spc = "fee"
    /\ IF Total(rcps) + TxFee > BalanceRead
         THEN spc' = "none" /\ rcps' = <<>> /\ sret' = "AmountWithFeeExceedsBalance"
         ELSE spc' = "create" /\ UNCHANGED <<rcps, sret>>
    /\ UNCHANGED <<figVars, crypted, locked, mintOnly, cachedEnc, shown, emitted, pc, temp, ctx, relocked, found>>

(***************************************************************************)
(* Under the locks: CreateTransaction, which reports nFeeRequired and      *)
(* succeeds only on an unlocked wallet whose balance covers the total and *)
(* that fee; ThreadSafeAskFee; CommitTransaction, which spends the total  *)
(* and the fee.                                                            *)
(***************************************************************************)
SendCreate(created, feeReq, asked, committed) ==
    /\ spc = "create"
    /\ created => ~(crypted /\ locked) /\ Total(rcps) + feeReq <= fig.balance
    /\ spc' = "none" /\ rcps' = <<>>
    /\ sret' = CASE ~created /\ Total(rcps) + feeReq > fig.balance -> "AmountWithFeeExceedsBalance"
                  [] ~created -> "TransactionCreationFailed"
                  [] ~asked -> "Aborted"
                  [] ~committed -> "TransactionCommitFailed"
                  [] OTHER -> "OK"
    /\ fig' = IF created /\ asked /\ committed
                THEN [fig EXCEPT !.balance = @ - (Total(rcps) + feeReq)]
                ELSE fig
    /\ UNCHANGED <<cachedFig, shownFig, crypted, locked, mintOnly, cachedEnc, shown, emitted, pc, temp, ctx, relocked, found>>

Next ==
    \/ Update \/ Encrypt \/ Lock
    \/ \E f \in Figures : WalletChanges(f)
    \/ \E m \in BOOLEAN : Unlock(m)
    \/ \E d, m \in BOOLEAN : RequestUnlock(d, m)
    \/ TakeContext \/ EndScope
    \/ \E l \in SendLists : SendCheck(l)
    \/ SendFeeCheck
    \/ \E c, a, m \in BOOLEAN, f \in FeesRequired : SendCreate(c, f, a, m)

Spec == Init /\ [][Next]_vars

-----------------------------------------------------------------------------
(* Properties. *)

(* While the sending dialog holds a valid context the wallet is unlocked, *)
(* and a request's contexts relock the wallet at most once, when the      *)
(* dialog's scope ends: the temporary that requestUnlock returned never   *)
(* relocks the wallet under the dialog, whether or not its copy is        *)
(* elided.                                                                 *)
ContextRelocksOnlyAtScopeEnd ==
    /\ pc = "inscope" /\ ctx.valid => ~(crypted /\ locked)
    /\ pc = "inscope" => relocked = 0
    /\ pc = "idle" => relocked <= 1

(* A send's unlock leaves an encrypted wallet as the user chose it: when  *)
(* the dialog's scope ends the wallet is unlocked for sending only if it  *)
(* was so before the request; and a wallet that was unlocked for minting  *)
(* only, and that the passphrase dialog left in mint-only mode, is still  *)
(* unlocked, so minting goes on after the send.  This takes requestUnlock *)
(* locking the wallet first, the dialog, the context's copy and its       *)
(* destruction.                                                            *)
SendScopeRestoresLock ==
    [][EndScope /\ crypted =>
         /\ (~locked' /\ ~mintOnly') => (~found.locked /\ ~found.mintOnly)
         /\ (ctx.valid /\ ~found.locked /\ found.mintOnly /\ mintOnly') => ~locked'
      ]_vars

=============================================================================
