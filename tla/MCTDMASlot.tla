----------------------------- MODULE MCTDMASlot -----------------------------
(* Small instances of TDMASlot for TLC.                                    *)
EXTENDS TDMASlot

CONSTANTS ana, bob, secret, open, odd, plain

\* A call that can be decrypted and one in the clear by the same talker, and one with a
\* key that is not ADP's and one in the clear by another.
Talks    == (secret :> ana) @@ (open :> ana) @@ (odd :> bob) @@ (plain :> bob)
KeyKinds == (secret :> "short") @@ (open :> "none") @@ (odd :> "long") @@ (plain :> "none")
OneBlock == (ana :> 1) @@ (bob :> 1)

\* Keys and lost voice without aliases, and aliases in the clear without lost voice.
Keyed   == [calls |-> {secret, open, odd}, kinds |-> {"none"}, lossy |-> TRUE]
Aliased == [calls |-> {open, plain}, kinds |-> PDUKinds \ {"identity", "other"}, lossy |-> FALSE]

Both == {Keyed, Aliased}
=============================================================================
