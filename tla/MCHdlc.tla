-------------------------------- MODULE MCHdlc --------------------------------
(***************************************************************************)
(* Hdlc with HdlcCrcOff over four byte values, of which 2 is the escape    *)
(* character and 3 the flag; one plain frame and one that needs escapes.   *)
(***************************************************************************)
EXTENDS Hdlc

NoCrc(data) == <<>>

AllPayloads == {<<0>>, <<3>>}

===============================================================================
