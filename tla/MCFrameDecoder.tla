--------------------------- MODULE MCFrameDecoder ---------------------------
(* Small instances of FrameDecoder for TLC.                                *)
EXTENDS FrameDecoder

CONSTANTS ana, bob, cat

\* The third is only among those with a Motorola.
ByMake == ("Motorola" :> Talkers) @@ ("Harris" :> {ana, bob})

\* As many for each, so that one's blocks could complete the other's set; and the third
\* has the number of the first, so that nothing but the CRC tells their blocks apart.
Blocks == (ana :> 2) @@ (bob :> 2) @@ (cat :> 2)
Seqs   == (ana :> 1) @@ (bob :> 2) @@ (cat :> 1)

\* Blocks 3 and 4 of the second say again what 1 and 2 said.
Texts  == (ana :> <<1, 2, 3, 4>>) @@ (bob :> <<1, 2, 1, 2>>) @@ (cat :> <<1, 2, 3, 4>>)
=============================================================================
