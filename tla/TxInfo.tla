------------------------------- MODULE TxInfo -------------------------------
(***************************************************************************)
(* The data of the address-info subsystem (src/txinfo.h, src/txinfo.cpp): *)
(* keys, infos and records, and their validity checks TxInfoKey::IsValid   *)
(* and CTxInfo::IsValid.                                                   *)
(*                                                                         *)
(* Strings are abstracted to small sets.  IDStrings are the strings each   *)
(* of whose characters passes TxInfoKey::IsValidIDCharacter (a-z, 0-9,     *)
(* '-'); Empty is the empty string.                                        *)
(***************************************************************************)
EXTENDS Integers

CONSTANTS
    Addrs,      \* CBitcoinAddress values
    KeyStrings, \* key strings
    Strings,    \* values
    IDStrings,  \* the strings made of ID characters only
    Empty,      \* the empty string
    Origins,    \* (blockHash, indexTx, indexTxIn, indexInfo) of a record
    MaxKeyType, \* largest key type a deserialized TxInfoKey may carry
    Requests    \* the records the node is asked to process or undo

ASSUME /\ Empty \in Strings
       /\ MaxKeyType \in Nat

\* enum TxInfoType and TX_INFO_MAX_VALID_TYPE
INFO_NORMAL     == 0
INFO_WRITE_ONCE == 1
INFO_UNIQUE     == 2
INFO_ID         == 3
TX_INFO_MAX_VALID_TYPE == 3

KeyTypes == 0 .. MaxKeyType
TxInfoKey == [type : KeyTypes, keyString : KeyStrings]
CTxInfo   == [key : TxInfoKey, value : Strings]
TxInfoRecord == [addr : Addrs, info : CTxInfo, origin : Origins]

ASSUME Requests \subseteq TxInfoRecord

\* The character loop of TxInfoKey::IsValid and CTxInfo::IsValid.
AllIDCharacters(str) == str = Empty \/ str \in IDStrings

KeyIsValid(key) ==
    /\ key.type <= TX_INFO_MAX_VALID_TYPE
    /\ key.keyString # Empty
    /\ AllIDCharacters(key.keyString)

InfoIsValid(info) ==
    /\ KeyIsValid(info.key)
    /\ info.value # Empty
    /\ info.key.type = INFO_ID => AllIDCharacters(info.value)

\* Key types whose value must be unique among addresses.
IsUniqueType(key) == key.type \in {INFO_UNIQUE, INFO_ID}

\* Key types that an address may set only once.
IsNonOverwritable(key) == key.type \in {INFO_UNIQUE, INFO_ID, INFO_WRITE_ONCE}

=============================================================================
