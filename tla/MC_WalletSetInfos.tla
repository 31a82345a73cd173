--------------------------- MODULE MC_WalletSetInfos ---------------------------
(* Model values and bounds for checking WalletSetInfos. *)
EXTENDS WalletSetInfos, TLC

CONSTANTS a1, a2, bad, o0, o1

MCAddrs == {a1, a2}
MCOwnAddrs == {a1}
MCOrigins == {o0, o1}
MCKeyStrings == {"n"}
MCStrings == {"", "n", "N"}
MCIDStrings == {"n"}
MCEmpty == ""

Info(t, v) == [key |-> [type |-> t, keyString |-> "n"], value |-> v]
Rec(a, t, v) == [addr |-> a, origin |-> o1, info |-> Info(t, v)]

\* What the node processes from blocks: another address claims the unique
\* value, and the wallet's own address gets a write-once and a normal value.
MCRequests ==
    {Rec(a2, INFO_UNIQUE, "n"), Rec(a1, INFO_WRITE_ONCE, "n"), Rec(a1, INFO_NORMAL, "n")}

\* An AddInfoEntry: combo box text, key string, value.
E(t, k, v) == [type |-> t, keyString |-> k, value |-> v]

\* What the user submits: an entry left clear; one entry of each kind, a
\* name that is not an ID string among them; and lists whose second info
\* is judged with the first already set.
MCBatches ==
    {<<E("Name", "", "")>>, <<E("Normal", "n", "N")>>, <<E("Name", "", "N")>>,
     <<E("Unique", "n", "n")>>,
     <<E("Write-Once", "n", "n"), E("Write-Once", "n", "N")>>,
     <<E("Normal", "n", "n"), E("Normal", "n", "N")>>}

\* For the confirmation warning: a second key string, so that an ID key
\* other than the name key "n" can be submitted.
MCKeyStringsW == {"n", "k"}
MCIDStringsW == {"n", "k"}
MCBatchesW ==
    {<<E("Name", "", "n")>>, <<E("Id", "k", "n")>>, <<E("Normal", "n", "n")>>}

=============================================================================
