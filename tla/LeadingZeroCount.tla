--------------------------- MODULE LeadingZeroCount ---------------------------
(***************************************************************************)
(* leading_zero_count_c of src/asm_lab04/x86/lzcnt/main.c, step by step:    *)
(* mask32 starts at the top bit and moves right, count grows, until the    *)
(* mask meets a set bit of value.  The code is for 32-bit words; the model *)
(* takes the word width as the constant Width so that every input of a     *)
(* smaller word can be enumerated (TLC integers stop at 2^31 - 1); the loop *)
(* does not depend on the width otherwise.                                 *)
(***************************************************************************)
EXTENDS Integers, Bitwise

CONSTANTS
    Width,    \* bits of uint32_t (32 in the code)
    Inputs,   \* the values passed to leading_zero_count_c
    MaxCount  \* bound on count: the model stops iterating there

ASSUME Width \in 1..30 /\ Inputs \subseteq 0..2^Width - 1 /\ MaxCount \in Nat

VARIABLES
    value,    \* the argument
    mask32,   \* uint32_t mask32
    count,    \* int count
    pc        \* "loop" while in the while loop, "done" after return

vars == <<value, mask32, count, pc>>

Word(n) == n % 2^Width

\* Faulty initial mask one bit too low.
MaskInitLow == 2^(Width - 2)

\* uint32_t mask32 = 1 << 31;
MaskInit == 2^(Width - 1)

\* Faulty shift to the left.
ShiftLeft(m) == Word(m * 2)

\* mask32 = mask32 >> 1;
ShiftRight(m) == m \div 2

Init ==
    /\ value \in Inputs
    /\ mask32 = MaskInit
    /\ count = 0
    /\ pc = "loop"

\* while (!(value & mask32)) { mask32 >>= 1; count++; }
Iterate ==
    /\ pc = "loop"
    /\ (value & mask32) = 0
    /\ count < MaxCount
    /\ mask32' = ShiftRight(mask32)
    /\ count' = count + 1
    /\ UNCHANGED <<value, pc>>

\* The loop test finds a set bit: return count.
Return ==
    /\ pc = "loop"
    /\ (value & mask32) # 0
    /\ pc' = "done"
    /\ UNCHANGED <<value, mask32, count>>

Next == Iterate \/ Return

\* One thread: the loop runs without interruption.
Spec == Init /\ [][Next]_vars /\ WF_vars(Next)

(***************************************************************************)
(* Properties                                                              *)
(***************************************************************************)
\* The number of leading zero bits of v in a Width-bit word, as the lzcnt
\* instruction defines it (Width for 0).
RECURSIVE Lzcnt(_, _)
Lzcnt(v, w) == IF w = 0 \/ v \div 2^(w - 1) = 1 THEN 0 ELSE 1 + Lzcnt(v, w - 1)

\* leading_zero_count: the inline lzcnt instruction on the word.
leading_zero_count(v) == Lzcnt(v, Width)

\* A returned count agrees with leading_zero_count, the lzcnt instruction
\* (main() checks both against 24 for 0x87).
ResultIsLzcnt == pc = "done" => count = leading_zero_count(value)

\* The loop ends: leading_zero_count_c returns for every input.
Returns == <>(pc = "done")
====
