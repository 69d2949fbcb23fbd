------------------------------ MODULE MCLightLink ------------------------------
(***************************************************************************)
(* LightLink over four byte values: 0 and 1 are plain, 2 is the escape     *)
(* character, 3 the flag, and the escape bit turns 3 into 1 and 2 into 0.  *)
(* The checksum is one byte, as HdlcCrc8's: the complement of the sum.     *)
(***************************************************************************)
EXTENDS LightLink

Complement(data) == <<(ByteMod - 1) - FoldLeft(LAMBDA sum, byte : (sum + byte) % ByteMod, 0, data)>>

(* Plain and special payloads and checksums, an empty payload, and one     *)
(* that does not fit into the receiver's buffer.                           *)
AllPayloads == {<<>>, <<0>>, <<3, 2>>, <<0, 0, 1>>}

===============================================================================
