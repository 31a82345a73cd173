-------------------------------- MODULE Alerts --------------------------------
(***************************************************************************)
(* The alert map of src/alert.cpp: CAlert::ProcessAlert, which stores a   *)
(* signed alert in mapAlerts after erasing the alerts it cancels and the  *)
(* expired ones, and GetWarnings, which picks the status-bar and RPC      *)
(* warnings from the node's own conditions and the stored alerts.         *)
(*                                                                         *)
(* CUnsignedAlert (nID, nCancel, setCancel, versions, nExpiration) and    *)
(* its IsInEffect, Cancels and AppliesToMe live in alert.h, which is not  *)
(* in this repository: an alert is its hash, a number so that the map's  *)
(* order is the numbers' order, and those predicates are constants.  The  *)
(* node's own warning conditions (strMintWarning, strMiscWarning, the     *)
(* checkpoint checks, the protocol deadline, -testsafemode) are set by    *)
(* code outside src/ and change freely.  Both functions hold              *)
(* cs_mapAlerts throughout, so each is one step.                           *)
(***************************************************************************)
EXTENDS Integers, SequencesExt

CONSTANTS
    AlertHashes, \* the alerts peers may send, by GetHash()
    Priority,    \* nPriority of each alert
    Expiration,  \* IsInEffect() == GetAdjustedTime() < Expiration[x]
    Signed,      \* the alerts whose vchSig verifies under strAlertMasterPubKey
    ForMe,       \* the alerts whose version ranges include this node
    CancelsRel,  \* <<x, y>>: x's nCancel or setCancel covers y's nID
    MaxTime      \* bound on GetAdjustedTime()

ASSUME /\ AlertHashes \subseteq Nat
       /\ Priority \in [AlertHashes -> Nat]
       /\ Expiration \in [AlertHashes -> Nat]
       /\ Signed \subseteq AlertHashes /\ ForMe \subseteq AlertHashes
       /\ CancelsRel \subseteq AlertHashes \X AlertHashes
       /\ MaxTime \in Nat

\* The node's own warning conditions, each with the priority GetWarnings
\* gives it and whether it also becomes the RPC warning, in code order.
Conditions == {"mint", "misc", "oldcheckpoint", "invalidcheckpoint", "upgrade", "testsafemode"}
FixedWarnings ==
    << [cond |-> "mint",              prio |-> 0,    rpc |-> FALSE],
       [cond |-> "misc",              prio |-> 1000, rpc |-> FALSE],
       [cond |-> "oldcheckpoint",     prio |-> 100,  rpc |-> FALSE],
       [cond |-> "invalidcheckpoint", prio |-> 3000, rpc |-> TRUE],
       [cond |-> "upgrade",           prio |-> 5000, rpc |-> TRUE] >>

\* A warning GetWarnings returns: an alert's strStatusBar or a condition's text.
AlertMsg(x) == <<"alert", x>>
CondMsg(c) == <<"cond", c>>
None == <<"none">>

VARIABLES
    mapAlerts,  \* the hashes stored in mapAlerts
    now,        \* GetAdjustedTime()
    conds       \* the node's warning conditions that currently hold

vars == <<mapAlerts, now, conds>>

TypeOK ==
    /\ mapAlerts \subseteq AlertHashes
    /\ now \in 0 .. MaxTime
    /\ conds \subseteq Conditions

IsInEffect(x) == now < Expiration[x]
Cancels(x, y) == <<x, y>> \in CancelsRel
AppliesToMe(x) == IsInEffect(x) /\ x \in ForMe

-----------------------------------------------------------------------------
(***************************************************************************)
(* GetWarnings: the fixed conditions in code order, each overwriting the  *)
(* warning so far, then the stored alerts in hash order, each taking over *)
(* if it applies and outranks the priority so far; above 1000 it is also  *)
(* the RPC warning ("safe mode").                                          *)
(***************************************************************************)
FixedStep(acc, w) ==
    IF w.cond \in conds
      THEN [prio |-> w.prio, bar |-> CondMsg(w.cond), rpc |-> IF w.rpc THEN CondMsg(w.cond) ELSE acc.rpc]
      ELSE acc

\* Mutant: an alert of priority exactly 1000 also becomes the RPC warning.
AlertStepAtLeast(acc, x) ==
    IF AppliesToMe(x) /\ Priority[x] > acc.prio
      THEN [prio |-> Priority[x], bar |-> AlertMsg(x), rpc |-> IF Priority[x] >= 1000 THEN AlertMsg(x) ELSE acc.rpc]
      ELSE acc

AlertStep(acc, x) ==
    IF AppliesToMe(x) /\ Priority[x] > acc.prio
      THEN [prio |-> Priority[x], bar |-> AlertMsg(x), rpc |-> IF Priority[x] > 1000 THEN AlertMsg(x) ELSE acc.rpc]
      ELSE acc

Warnings ==
    LET start == [prio |-> 0, bar |-> None,
                  rpc |-> IF "testsafemode" \in conds THEN CondMsg("testsafemode") ELSE None]
        fixed == FoldLeft(FixedStep, start, FixedWarnings)
    IN FoldLeft(AlertStep, fixed, SetToSortSeq(mapAlerts, LAMBDA x, y : x < y))

GetWarnings(strFor) == IF strFor = "statusbar" THEN Warnings.bar ELSE Warnings.rpc

-----------------------------------------------------------------------------
Init ==
    /\ mapAlerts = {}
    /\ now = 0
    /\ conds \in SUBSET Conditions

(***************************************************************************)
(* ProcessAlert.  An alert whose signature fails, or that is no longer in *)
(* effect, returns false at once and changes nothing.  Otherwise the map  *)
(* loses the alerts the new one cancels and the expired ones; then the    *)
(* new alert is refused if a remaining alert cancels it, and is inserted  *)
(* otherwise (insert keeps an entry already stored under its hash).       *)
(***************************************************************************)
\* Mutant: the erase loop keeps the alerts the new one cancels.
KeptIgnoringCancels(x) == {y \in mapAlerts : IsInEffect(y)}

Kept(x) == {y \in mapAlerts : ~Cancels(x, y) /\ IsInEffect(y)}

\* Mutant: the "already cancelled" loop is missing.
AlreadyCancelledNever(x, S) == FALSE

AlreadyCancelled(x, S) == \E y \in S : Cancels(y, x)

ProcessAlert(x) ==
    /\ x \in Signed
    /\ IsInEffect(x)
    /\ mapAlerts' = IF AlreadyCancelled(x, Kept(x)) THEN Kept(x) ELSE Kept(x) \cup {x}
    /\ UNCHANGED <<now, conds>>

\* Time passes.
Tick ==
    /\ now < MaxTime
    /\ now' = now + 1
    /\ UNCHANGED <<mapAlerts, conds>>

\* The node's own conditions change (disk space, clock, checkpoints).
SetConditions(c) ==
    /\ conds' = c
    /\ UNCHANGED <<mapAlerts, now>>

Next ==
    \/ \E x \in AlertHashes : ProcessAlert(x)
    \/ Tick
    \/ \E c \in SUBSET Conditions : SetConditions(c)

Spec == Init /\ [][Next]_vars

-----------------------------------------------------------------------------
(* Properties. *)

(* No stored alert cancels another stored alert, whatever order the       *)
(* alerts arrive in: ProcessAlert's erase loop removes what a new alert   *)
(* cancels, and its second loop refuses an alert a stored one cancels.    *)
NoStoredAlertCancelsAnother ==
    \A x, y \in mapAlerts : ~Cancels(x, y)

(* GetWarnings("rpc") is non-empty (the node is in safe mode) exactly     *)
(* when -testsafemode is set, an invalid checkpoint or the upgrade        *)
(* deadline holds, or a stored alert that applies has priority above      *)
(* 1000, however the priorities of the conditions and alerts interleave.  *)
SafeModeExactly ==
    (GetWarnings("rpc") # None)
      <=> \/ conds \cap {"testsafemode", "invalidcheckpoint", "upgrade"} # {}
          \/ \E x \in mapAlerts : AppliesToMe(x) /\ Priority[x] > 1000

(* The status bar shows a warning of the highest priority among the       *)
(* conditions that hold and the stored alerts that apply: GetWarnings    *)
(* lets an alert take over only if it outranks what it has so far.        *)
StatusBarShowsHighestPriority ==
    LET fixed == {i \in DOMAIN FixedWarnings : FixedWarnings[i].cond \in conds}
        top == {FixedWarnings[i].prio : i \in fixed}
               \cup {Priority[x] : x \in {y \in mapAlerts : AppliesToMe(y)}}
        shown == GetWarnings("statusbar")
        shownPrio == CASE shown = None -> 0
                       [] shown[1] = "alert" -> Priority[shown[2]]
                       [] shown[1] = "cond" ->
                            FixedWarnings[CHOOSE i \in fixed : FixedWarnings[i].cond = shown[2]].prio
    IN \A p \in top : p <= shownPrio

=============================================================================
