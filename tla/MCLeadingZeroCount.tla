------------------------- MODULE MCLeadingZeroCount -------------------------
(***************************************************************************)
(* Model-checking instance of LeadingZeroCount: every non-zero word of     *)
(* Width bits (zero never leaves the loop: see README).                    *)
(***************************************************************************)
EXTENDS LeadingZeroCount

MCNonZero == 1..2^Width - 1
====
