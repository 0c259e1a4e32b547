------------------------------ MODULE Distances ------------------------------
(***************************************************************************)
(* The distance heuristics of the A* lab.  The C wrappers of path_finding.c *)
(* (discrete_distance, hamming_distance, manhattan_distance,               *)
(* ssd_semi_distance) pack both coordinates with P_AS_UINT32_T and call     *)
(* student assembly routines that are not part of the repository; those    *)
(* routines (the *_asm operators) are modelled from the specification       *)
(* (section 4.2) and from the expected values main() prints for            *)
(* (2,2)-(6,5): 1, 2, 7 and 25.  They unpack x from the upper and y from the *)
(* lower half-word.                                                         *)
(***************************************************************************)
EXTENDS Integers

LOCAL AbsDiff(a, b) == IF a > b THEN a - b ELSE b - a

\* P_AS_UINT32_T(P): ((uint32_t) P.x << 16) | P.y, both fields uint16_t.
\* The 32-bit word is kept as its two half-words <<hi, lo>>: TLC integers
\* stop at 2^31 - 1, below the word of a wrapped coordinate x = 65535.
P_AS_UINT32_T(p) == <<p.x % 2^16, p.y % 2^16>>

\* The half-words the assembly routines read back from a packed argument.
LOCAL HiHalf(w) == w[1]
LOCAL LoHalf(w) == w[2]

\* 0 on the same cell, else the constant 1.
discrete_distance_asm(pa, pb) == IF pa = pb THEN 0 ELSE 1

\* Number of differing coordinates.
hamming_distance_asm(pa, pb) ==
    (IF HiHalf(pa) # HiHalf(pb) THEN 1 ELSE 0) + (IF LoHalf(pa) # LoHalf(pb) THEN 1 ELSE 0)

manhattan_distance_asm(pa, pb) ==
    AbsDiff(HiHalf(pa), HiHalf(pb)) + AbsDiff(LoHalf(pa), LoHalf(pb))

ssd_semi_distance_asm(pa, pb) ==
    AbsDiff(HiHalf(pa), HiHalf(pb))^2 + AbsDiff(LoHalf(pa), LoHalf(pb))^2

\* The C wrappers.
discrete_distance(a, b)  == discrete_distance_asm(P_AS_UINT32_T(a), P_AS_UINT32_T(b))
hamming_distance(a, b)   == hamming_distance_asm(P_AS_UINT32_T(a), P_AS_UINT32_T(b))
manhattan_distance(a, b) == manhattan_distance_asm(P_AS_UINT32_T(a), P_AS_UINT32_T(b))
ssd_semi_distance(a, b)  == ssd_semi_distance_asm(P_AS_UINT32_T(a), P_AS_UINT32_T(b))

\* The functions main() installs, in turn, into the global distance_function.
DistanceNames == {"discrete", "hamming", "manhattan", "ssd"}
distance_function(d, a, b) ==
    CASE d = "discrete"  -> discrete_distance(a, b)
      [] d = "hamming"   -> hamming_distance(a, b)
      [] d = "manhattan" -> manhattan_distance(a, b)
      [] d = "ssd"       -> ssd_semi_distance(a, b)
=============================================================================
