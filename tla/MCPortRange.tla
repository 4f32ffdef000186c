----------------------------- MODULE MCPortRange -----------------------------
(* Arguments of up to five characters over 0, 1, 6, 9, '-' and 'x', with  *)
(* 4-bit ports, so that "16" and "19" overflow as "65536" does a u16.     *)
EXTENDS PortRange

MCChars == {"0", "1", "6", "9", "-", "x"}

=============================================================================
