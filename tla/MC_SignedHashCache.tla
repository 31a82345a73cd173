-------------------------- MODULE MC_SignedHashCache --------------------------
(* Model values for checking SignedHashCache. *)
EXTENDS SignedHashCache

CONSTANTS g, b1, b2, km, ko, nk

MCIds == {g, b1, b2}

\* The active chain is genesis then b1; b2 is a block off the chain.
MCChain == <<g, b1>>

MCKeys == {km, ko}

\* Peers relay a master-signed hash of b1 and of b2, and hashes of b1 signed
\* by another key, one of them with a forged PoW.  The master key signs only
\* PoW hashes it computed.
MCMessages ==
    {[id |-> b1, pow |-> TruePow(b1), signer |-> km],
     [id |-> b2, pow |-> TruePow(b2), signer |-> km],
     [id |-> b1, pow |-> TruePow(b1), signer |-> ko],
     [id |-> b1, pow |-> <<"forged", b1>>, signer |-> ko]}

=============================================================================
