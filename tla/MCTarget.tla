------------------------------ MODULE MCTarget ------------------------------
(***************************************************************************)
(* Target with the three keys of the example program at the end of aes.c   *)
(* and two of the blocks whose encryptions NIST SP 800-38A gives for them. *)
(***************************************************************************)
EXTENDS Target

Key128 ==
    <<43, 126, 21, 22, 40, 174, 210, 166, 171, 247, 21, 136, 9, 207, 79, 60>>
Key192 ==
    <<142, 115, 176, 247, 218, 14, 100, 82, 200, 16, 243, 43, 128, 144, 121, 229, 98, 248,
      234, 210, 82, 44, 107, 123>>
Key256 ==
    <<96, 61, 235, 16, 21, 202, 113, 190, 43, 115, 174, 240, 133, 125, 119, 129, 31, 53,
      44, 7, 59, 97, 8, 215, 45, 152, 16, 163, 9, 20, 223, 244>>
Block1 == <<107, 193, 190, 226, 46, 64, 159, 150, 233, 61, 126, 17, 115, 147, 23, 42>>
Block2 == <<174, 45, 138, 87, 30, 3, 172, 156, 158, 183, 111, 172, 69, 175, 142, 81>>

MCKeys == {Key128, Key192, Key256}
MCInputs == {Block1, Block2}
MCMissing == {0, 14, 16}

MCKnown(k, in) ==
    CASE k = Key128 /\ in = Block1 ->
           <<58, 215, 123, 180, 13, 122, 54, 96, 168, 158, 202, 243, 36, 102, 239, 151>>
      [] k = Key128 /\ in = Block2 ->
           <<245, 211, 213, 133, 3, 185, 105, 157, 231, 133, 137, 90, 150, 253, 186, 175>>
      [] k = Key192 /\ in = Block1 ->
           <<189, 51, 79, 29, 110, 69, 242, 95, 247, 18, 162, 20, 87, 31, 165, 204>>
      [] k = Key192 /\ in = Block2 ->
           <<151, 65, 4, 132, 109, 10, 211, 173, 119, 52, 236, 179, 236, 238, 78, 239>>
      [] k = Key256 /\ in = Block1 ->
           <<243, 238, 209, 189, 181, 210, 160, 60, 6, 75, 90, 126, 61, 177, 129, 248>>
      [] k = Key256 /\ in = Block2 ->
           <<89, 28, 203, 16, 212, 16, 237, 38, 220, 91, 167, 74, 49, 54, 40, 112>>
=============================================================================
