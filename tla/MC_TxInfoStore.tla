---------------------------- MODULE MC_TxInfoStore ----------------------------
(* Model values and bounds for checking TxInfoStore. *)
EXTENDS TxInfoStore, TLC

CONSTANTS a1, a2, o1, o2

MCAddrs == {a1, a2}
MCOrigins == {o1, o2}

\* "n" is made of ID characters, "N" is not (upper case), "" is empty.
\* Keys are told apart by their type; one key string suffices.
MCKeyStrings == {"n"}
MCStrings == {"", "n", "N"}
MCIDStrings == {"n"}
MCEmpty == ""

Rec(a, t, v, o) ==
    [addr |-> a, origin |-> o,
     info |-> [key |-> [type |-> t, keyString |-> "n"], value |-> v]]

\* One request per path of CTxInfoStore::IsValid, and enough of them on
\* one overwritable key to stack and unwind a history:
\*  - normal key: two addresses, two origins, and a second value;
\*  - write-once key: one address;
\*  - unique and ID keys: the same value at both addresses;
\*  - rejected by CTxInfo::IsValid: non-ID value of an ID key, key type
\*    above TX_INFO_MAX_VALID_TYPE, empty value.
MCRequests ==
    {Rec(a, INFO_NORMAL, "n", o) : a \in MCAddrs, o \in MCOrigins}
    \cup {Rec(a1, INFO_NORMAL, "N", o1), Rec(a1, INFO_WRITE_ONCE, "n", o1)}
    \cup {Rec(a, t, "n", o1) : a \in MCAddrs, t \in {INFO_UNIQUE, INFO_ID}}
    \cup {Rec(a1, INFO_ID, "N", o1), Rec(a1, 4, "n", o1),
           Rec(a1, INFO_NORMAL, "", o1)}

=============================================================================
