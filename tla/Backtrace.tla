------------------------------ MODULE Backtrace ------------------------------
(***************************************************************************)
(* The random jumper of src/asm_lab06/arm/backtrace/backtrace.c: main()     *)
(* seeds a 12-bit Fibonacci LFSR with the key read by getc(), then each of  *)
(* main, function_A..function_D draws r = _rand() & 0xF and either prints  *)
(* the backtrace (r = 0) or calls function_A..D chosen by r & 3.  The      *)
(* calls only return once show_backtrace has run, so the call stack grows  *)
(* by one frame per draw.                                                  *)
(***************************************************************************)
EXTENDS Integers, Sequences, Bitwise

CONSTANTS
    Seeds,      \* the values getc() may return
    MaxDepth,   \* the number of stack frames the jumper may use
    StackFrames \* the frames the stack can hold: one more call overflows

ASSUME Seeds \subseteq 0..65535 /\ MaxDepth \in Nat /\ StackFrames \in Nat

VARIABLES
    lfsr_state,  \* static uint16_t lfsr_state
    stack,       \* the call stack, innermost frame last
    phase        \* "jumping", then "backtrace" once show_backtrace runs,
                 \* or "overflow" when a call finds the stack full

vars == <<lfsr_state, stack, phase>>

\* lfsr_taps12: mask, then the tap bits 11, 5, 3, 0, then a 0 terminator.
lfsr_taps12 == <<4095, 2048, 32, 8, 1, 0>>

\* tap ^= !!(taps[i] & lfsr) for i = 1 while taps[i] # 0.
RECURSIVE Feedback(_, _, _)
Feedback(taps, lfsr, i) ==
    IF taps[i] = 0 THEN 0
    ELSE (IF (taps[i] & lfsr) # 0 THEN 1 ELSE 0) ^^ Feedback(taps, lfsr, i + 1)

\* lfsr_inc_16: shift left, or in the feedback bit, mask with taps[0].
lfsr_inc_16(taps, lfsr) == ((lfsr * 2 + Feedback(taps, lfsr, 2)) % 65536) & taps[1]

\* Faulty seeding that forgets to replace a zero seed.
_srand_nofix(seed) == seed % 65536

\* _srand: a zero seed would lock the LFSR at 0, so it becomes 1.
_srand(seed) == IF seed = 0 THEN 1 ELSE seed % 65536

\* _rand() for a given LFSR state after the increment: state - 1 as uint16.
_rand(next) == (next - 1) % 65536

\* Faulty draw that keeps five bits (& 0x1F) instead of four.
JumpDrawWide(r) == r % 32

\* r = _rand() & 0xF of JUMP_TO_RANDOM_FUNCTION_OR_PRINT_BT.
JumpDraw(r) == r % 16

Callees == <<"function_A", "function_B", "function_C", "function_D">>

\* One JUMP_TO_RANDOM_FUNCTION_OR_PRINT_BT in the innermost frame.
Jump ==
    /\ phase = "jumping"
    /\ LET next == lfsr_inc_16(lfsr_taps12, lfsr_state)
           r    == JumpDraw(_rand(next))
       IN  /\ lfsr_state' = next
           /\ CASE r = 0 ->
                     phase' = "backtrace" /\ stack' = stack
                 [] Len(stack) = StackFrames ->
                     phase' = "overflow" /\ stack' = stack
                 [] OTHER ->
                     phase' = "jumping" /\ stack' = Append(stack, Callees[(r % 4) + 1])

\* main(): seed = getc(); _srand(seed); then the first jump.
Init ==
    /\ \E seed \in Seeds : lfsr_state = _srand(seed)
    /\ stack = <<"main">>
    /\ phase = "jumping"

Next == Jump

\* Jump is enabled exactly while the jumper is jumping (its CASE defines
\* every primed variable), so CanStep is ENABLED <<Next>>_vars.
CanStep == phase = "jumping"

\* One sequential thread: a possible jump is taken.  This is WF_vars(Next)
\* with CanStep for ENABLED <<Next>>_vars, which spares TLC evaluating the
\* LFSR inside ENABLED.
Fairness == <>[]CanStep => []<><<Next>>_vars

Spec == Init /\ [][Next]_vars /\ Fairness

(***************************************************************************)
(* Properties                                                              *)
(***************************************************************************)
\* Whatever key seeds the LFSR, the jumping ends with show_backtrace: the
\* draws reach a state with r & 0xF = 0 (the LFSR never locks at 0).
BacktraceEventuallyShown == <>(phase = "backtrace")

\* The recursion never nests deeper than MaxDepth frames, main included,
\* for any key: the stack needed by the jumper is bounded.
StackBounded == Len(stack) <= MaxDepth
====
