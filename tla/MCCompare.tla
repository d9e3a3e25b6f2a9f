------------------------------ MODULE MCCompare ------------------------------
(* All texts of up to four characters and a buffer that is shorter.        *)
EXTENDS Compare

MCLetters == {"x"}
MCDigit == ("1" :> 1) @@ ("2" :> 2)
=============================================================================
