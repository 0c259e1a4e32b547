--------------------------- MODULE ImageProcessing ---------------------------
(***************************************************************************)
(* The image filter exercise, src/asm_lab05/x86/image_processing/          *)
(* image_processing.c: main() loads a picture, converts it to grayscale    *)
(* unless it already is, filters it with the C reference filter and with   *)
(* the student's asm_filter, saves both, compares them with                *)
(* show_differences and frees the four containers.                         *)
(*                                                                         *)
(* Containers live in an arena: heap[i] is the i-th container allocated,   *)
(* the four pointers of main() are indices into it (0 before assignment)   *)
(* and frees counts the free_container calls made on it.  Pixel data is a  *)
(* function from byte offsets to bytes, in the code's row-major layout.    *)
(* The assembly routine is not in the repository: the student's image is  *)
(* the reference filter's image, or that image with one pixel wrong.       *)
(***************************************************************************)
EXTENDS Integers, Sequences, FiniteSets, FiniteSetsExt, TLC

CONSTANTS
    Images,             \* the pictures stbi_load may return: [width, height, comp, data]
    Filters,            \* the FILTER_TO_USE the program may be built with
    LUMINOSITY_R,       \* the luminosity weights of image_processing.h,
    LUMINOSITY_G,       \* in thousandths (the header is not in the repository)
    LUMINOSITY_B,
    FreedFieldGarbage   \* what the allocator may leave in the comp field of a freed struct

ASSUME /\ Filters \subseteq {"conv_filter_x_y", "median_filter_x_y"} /\ Filters # {}
       /\ LUMINOSITY_R + LUMINOSITY_G + LUMINOSITY_B <= 1000
       /\ FreedFieldGarbage \in Int \ 1..4

VARIABLES
    heap,                \* the arena: <<[width, height, comp, data, frees]>>
    img, img_grayscale,  \* main()'s container pointers
    img_result, img_result_student,
    pc,                  \* the statement of main() about to run
    verdict,             \* what show_differences returned
    filter,              \* FILTER_TO_USE of this build (never changes)
    comp_read            \* the value img->comp had when read after the free (0: not yet)

vars == <<heap, img, img_grayscale, img_result, img_result_student, pc, verdict, filter,
          comp_read>>

COMPONENT_GRAYSCALE == 1
COMPONENT_RGB       == 3
COMPONENT_RGBA      == 4
R_OFFSET == 0
G_OFFSET == 1
B_OFFSET == 2
KERNEL_SIZE == 3
UCHAR_MAX == 255
SAME == "SAME"
DIFFERENT == "DIFFERENT"

\* kernels.c: edge_detection_3x3, row by row (index k is element k + 1).
edge_detection_3x3 == << 1,  1, 1,
                         1, -8, 1,
                         1,  1, 1 >>
KERNEL_3X3_TO_USE == edge_detection_3x3

Abs(n) == IF n < 0 THEN -n ELSE n

\* The byte of the one-component image im at column x, row y.
Pixel(im, x, y) == im.data[y * im.width + x]

\* allocate_container: a struct and width * height * comp zeroed bytes
\* (calloc).  Its NULL return for comp 0 or comp > RGBA is never taken:
\* every caller passes COMPONENT_GRAYSCALE.
allocate_container(w, h, c) ==
    [width |-> w, height |-> h, comp |-> c,
     data |-> [k \in 0..w * h * c - 1 |-> 0], frees |-> 0]

\* grayscale_conversion: the luminosity of each pixel; index advances by
\* comp bytes per pixel, so the alpha byte of RGBA is skipped.  The float
\* sum is truncated to uint8_t.
grayscale_conversion(im) ==
    [allocate_container(im.width, im.height, COMPONENT_GRAYSCALE) EXCEPT
       !.data = [k \in DOMAIN @ |->
                   LET index == k * im.comp IN
                   (LUMINOSITY_R * im.data[index + R_OFFSET]
                    + LUMINOSITY_G * im.data[index + G_OFFSET]
                    + LUMINOSITY_B * im.data[index + B_OFFSET]) \div 1000]]

\* _conv_filter_x_y: edge pixels are kept; elsewhere the kernel is applied
\* to the 3x3 neighbourhood, pixel (x - i, y - j) weighted by kernel entry
\* (1 + j, 1 + i), and the absolute sum is saturated at UCHAR_MAX.
_conv_filter_x_y(im, kernel_3x3, x, y) ==
    IF \/ x - KERNEL_SIZE \div 2 < 0
       \/ y - KERNEL_SIZE \div 2 < 0
       \/ x + KERNEL_SIZE \div 2 >= im.width
       \/ y + KERNEL_SIZE \div 2 >= im.height
      THEN Pixel(im, x, y)
      ELSE LET result ==
                 Abs(MapThenSumSet(
                       LAMBDA ji : Pixel(im, x - ji[2], y - ji[1])
                                   * kernel_3x3[(KERNEL_SIZE \div 2 + ji[1]) * KERNEL_SIZE
                                                + KERNEL_SIZE \div 2 + ji[2] + 1],
                       (-1..1) \X (-1..1)))
           IN  IF result > UCHAR_MAX THEN UCHAR_MAX ELSE result

\* conv_filter_x_y has no return statement (undefined behaviour); the x86-64
\* builds of the lab leave _conv_filter_x_y's result in eax, which is what
\* the caller reads.
conv_filter_x_y(im, x, y) == _conv_filter_x_y(im, KERNEL_3X3_TO_USE, x, y)

\* compare_uint8_t: the difference of the two bytes as an int, so qsort
\* sorts in ascending order.
compare_uint8_t(a, b) == a - b

\* median_filter_x_y: edge pixels are kept; elsewhere the pixel and its four
\* direct neighbours are sorted with qsort and the centre entry returned.
median_filter_x_y(im, x, y) ==
    IF \/ x - KERNEL_SIZE \div 2 < 0
       \/ y - KERNEL_SIZE \div 2 < 0
       \/ x + KERNEL_SIZE \div 2 >= im.width
       \/ y + KERNEL_SIZE \div 2 >= im.height
      THEN Pixel(im, x, y)
      ELSE LET array == << Pixel(im, x, y), Pixel(im, x + 1, y), Pixel(im, x - 1, y),
                           Pixel(im, x, y + 1), Pixel(im, x, y - 1) >>
           IN  SortSeq(array, LAMBDA a, b : compare_uint8_t(a, b) < 0)[3]

\* The function pointer filter_x_y, set to FILTER_TO_USE.
filter_x_y(im, x, y) ==
    IF filter = "median_filter_x_y" THEN median_filter_x_y(im, x, y)
    ELSE conv_filter_x_y(im, x, y)

\* apply_filter: NULL (0) unless grayscale, else filter_x_y at every pixel.
apply_filter(im) ==
    [allocate_container(im.width, im.height, im.comp) EXCEPT
       !.data = [k \in DOMAIN @ |-> filter_x_y(im, k % im.width, k \div im.width)]]

\* apply_filter_student: asm_filter writes every pixel of a fresh grayscale
\* container; the pixel at offset bad (none if bad < 0) comes out wrong.
apply_filter_student(im, bad) ==
    [allocate_container(im.width, im.height, COMPONENT_GRAYSCALE) EXCEPT
       !.data = [k \in DOMAIN @ |->
                   LET v == filter_x_y(im, k % im.width, k \div im.width)
                   IN  IF k = bad THEN (v + 1) % 256 ELSE v]]

\* Faulty comparison whose loops both run to width.
show_differences_square(a, b) ==
    IF a.height # b.height \/ a.width # b.width \/ a.comp # b.comp THEN DIFFERENT
    ELSE IF \E k \in 0..a.width * a.width - 1 : a.data[k] # b.data[k]
           THEN DIFFERENT ELSE SAME

\* show_differences: DIFFERENT on a height, width or comp mismatch; else the
\* two byte pointers advance together through width * height bytes (the
\* loops run y below width and x below height) and any unequal byte makes
\* the result DIFFERENT, at once or, in list mode, after printing them all.
show_differences(a, b) ==
    IF a.height # b.height \/ a.width # b.width \/ a.comp # b.comp THEN DIFFERENT
    ELSE IF \E k \in 0..a.width * a.height - 1 : a.data[k] # b.data[k]
           THEN DIFFERENT ELSE SAME

\* free_container(heap[i]): the data and then the struct are freed.
free_container(h, i) == [h EXCEPT ![i].frees = @ + 1]

\* img->comp read after free_container(img): the freed struct still holds
\* the old value, or the allocator has written its own data over it (glibc
\* 2.29 and later store the tcache key in bytes 8 to 15, where comp is).
ReadAfterFree(c) == {c, FreedFieldGarbage}

(***************************************************************************)
(* main(), one action per statement group                                  *)
(***************************************************************************)
\* img = load_image(image_path).
load_image ==
    /\ pc = "load"
    /\ \E im \in Images :
         heap' = <<[width |-> im.width, height |-> im.height, comp |-> im.comp,
                    data |-> im.data, frees |-> 0]>>
    /\ img' = 1
    /\ pc' = "gray"
    /\ UNCHANGED <<img_grayscale, img_result, img_result_student, verdict, filter, comp_read>>

\* A grayscale picture is used as is: img_grayscale aliases img.
KeepGrayscale ==
    /\ pc = "gray"
    /\ heap[img].comp = COMPONENT_GRAYSCALE
    /\ img_grayscale' = img
    /\ pc' = "filter"
    /\ UNCHANGED <<heap, img, img_result, img_result_student, verdict, filter, comp_read>>

\* Any other picture goes through grayscale_conversion, which exits unless
\* the picture is RGB or RGBA (a grey-and-alpha picture, comp 2, exits).
ConvertToGrayscale ==
    /\ pc = "gray"
    /\ heap[img].comp # COMPONENT_GRAYSCALE
    /\ IF heap[img].comp \in {COMPONENT_RGB, COMPONENT_RGBA}
         THEN /\ heap' = Append(heap, grayscale_conversion(heap[img]))
              /\ img_grayscale' = Len(heap')
              /\ pc' = "filter"
         ELSE /\ pc' = "exit"
              /\ UNCHANGED <<heap, img_grayscale>>
    /\ UNCHANGED <<img, img_result, img_result_student, verdict, filter, comp_read>>

\* img_result = apply_filter(img_grayscale).
Filter ==
    /\ pc = "filter"
    /\ heap[img_grayscale].comp = COMPONENT_GRAYSCALE
    /\ heap' = Append(heap, apply_filter(heap[img_grayscale]))
    /\ img_result' = Len(heap')
    /\ pc' = "student"
    /\ UNCHANGED <<img, img_grayscale, img_result_student, verdict, filter, comp_read>>

\* img_result_student = apply_filter_student(img_grayscale).
FilterStudent ==
    /\ pc = "student"
    /\ \E bad \in {-1} \cup DOMAIN heap[img_grayscale].data :
         heap' = Append(heap, apply_filter_student(heap[img_grayscale], bad))
    /\ img_result_student' = Len(heap')
    /\ pc' = "save"
    /\ UNCHANGED <<img, img_grayscale, img_result, verdict, filter, comp_read>>

\* save_image of both results (the PNG writing itself is left out).
save_image ==
    /\ pc = "save"
    /\ pc' = "diff"
    /\ UNCHANGED <<heap, img, img_grayscale, img_result, img_result_student, verdict, filter, comp_read>>

\* show_differences(img_result, img_result_student, show_error); the
\* messages and the compare/display commands are left out.
ShowDifferences ==
    /\ pc = "diff"
    /\ verdict' = show_differences(heap[img_result], heap[img_result_student])
    /\ pc' = "free"
    /\ UNCHANGED <<heap, img, img_grayscale, img_result, img_result_student, filter, comp_read>>

\* Faulty release that frees img_grayscale without testing for the alias.
FreeContainersNoAliasCheck ==
    /\ pc = "free"
    /\ \E comp \in ReadAfterFree(heap[img].comp) :
         /\ comp_read' = comp
         /\ heap' = free_container(free_container(free_container(
                      free_container(heap, img), img_grayscale), img_result), img_result_student)
    /\ pc' = "done"
    /\ UNCHANGED <<img, img_grayscale, img_result, img_result_student, verdict, filter>>

\* free_container(img); then img->comp is read from the freed struct to
\* decide whether img_grayscale is a separate container; then the results.
FreeContainers ==
    /\ pc = "free"
    /\ \E comp \in ReadAfterFree(heap[img].comp) :
         LET h1 == free_container(heap, img)
             h2 == IF comp # COMPONENT_GRAYSCALE THEN free_container(h1, img_grayscale) ELSE h1
         IN  /\ comp_read' = comp
             /\ heap' = free_container(free_container(h2, img_result), img_result_student)
    /\ pc' = "done"
    /\ UNCHANGED <<img, img_grayscale, img_result, img_result_student, verdict, filter>>

\* exit(EXIT_FAILURE) from fopen, stbi_load, malloc, calloc or
\* stbi_write_png failing: the process ends with its memory.
Fail ==
    /\ pc \in {"load", "filter", "student", "save"}
    /\ pc' = "exit"
    /\ UNCHANGED <<heap, img, img_grayscale, img_result, img_result_student, verdict, filter, comp_read>>

Init ==
    /\ heap = <<>>
    /\ img = 0 /\ img_grayscale = 0 /\ img_result = 0 /\ img_result_student = 0
    /\ pc = "load"
    /\ verdict = "none"
    /\ filter \in Filters
    /\ comp_read = 0

Next ==
    \/ load_image \/ KeepGrayscale \/ ConvertToGrayscale \/ Filter
    \/ FilterStudent \/ save_image \/ ShowDifferences \/ FreeContainers \/ Fail

Spec == Init /\ [][Next]_vars

(***************************************************************************)
(* Properties                                                              *)
(***************************************************************************)
\* image_container: width, height, comp and a data buffer of
\* width * height * comp bytes.
is_image_container(c) ==
    /\ c.width \in Nat /\ c.height \in Nat /\ c.comp \in 1..4
    /\ DOMAIN c.data = 0..c.width * c.height * c.comp - 1
    /\ \A k \in DOMAIN c.data : c.data[k] \in 0..255

\* Types; every container holds width * height * comp bytes.
TypeOK ==
    /\ \A i \in DOMAIN heap : is_image_container(heap[i]) /\ heap[i].frees \in Nat
    /\ {img, img_grayscale, img_result, img_result_student} \subseteq 0..Len(heap)
    /\ pc \in {"load", "gray", "filter", "student", "save", "diff", "free", "done", "exit"}
    /\ verdict \in {"none", SAME, DIFFERENT}
    /\ filter \in Filters
    /\ comp_read \in {0, FreedFieldGarbage} \cup 1..4

\* The luminance of the loaded picture, pixel by pixel (the picture itself
\* when it has one component).
Luminance(im) ==
    IF im.comp = COMPONENT_GRAYSCALE THEN im.data
    ELSE [k \in 0..im.width * im.height - 1 |->
            (LUMINOSITY_R * im.data[k * im.comp] + LUMINOSITY_G * im.data[k * im.comp + 1]
             + LUMINOSITY_B * im.data[k * im.comp + 2]) \div 1000]

\* The edge response of a w x h luminance map g: border pixels unchanged,
\* inner ones the saturated magnitude of eight neighbours minus eight
\* times the centre.
EdgeResponse(g, w, h) ==
    [k \in DOMAIN g |->
       LET x == k % w
           y == k \div w
           around == {(y + dy) * w + x + dx : dx, dy \in -1..1} \ {k}
       IN  IF x = 0 \/ y = 0 \/ x = w - 1 \/ y = h - 1 THEN g[k]
           ELSE LET s == Abs(MapThenSumSet(LAMBDA n : g[n], around) - 8 * g[k])
                IN  IF s > 255 THEN 255 ELSE s]

\* The median of a w x h luminance map g over each inner pixel and its four
\* direct neighbours: the value that at most two of the five lie below and
\* at most two above.  Border pixels are unchanged.
MedianResponse(g, w, h) ==
    [k \in DOMAIN g |->
       LET x == k % w
           y == k \div w
           cross == <<k, k - 1, k + 1, k - w, k + w>>
           vals == {g[cross[i]] : i \in 1..5}
       IN  IF x = 0 \/ y = 0 \/ x = w - 1 \/ y = h - 1 THEN g[k]
           ELSE CHOOSE v \in vals :
                  /\ Cardinality({i \in 1..5 : g[cross[i]] < v}) <= 2
                  /\ Cardinality({i \in 1..5 : g[cross[i]] > v}) <= 2]

\* What the build's filter should make of the picture.
Expected(im) ==
    IF filter = "median_filter_x_y"
      THEN MedianResponse(Luminance(im), im.width, im.height)
      ELSE EdgeResponse(Luminance(im), im.width, im.height)

\* main() prints "Good job ! The result is as expected." exactly when the
\* student's image is the build's filter (edge response or 5-point median)
\* of the loaded picture's luminance, whatever its size, shape and number
\* of components.
VerdictMatchesReference ==
    pc \in {"free", "done"} =>
      ((verdict = SAME) <=> (heap[img_result_student].data = Expected(heap[img])))

\* As long as the read of img->comp after free_container(img) still finds
\* the picture's component count, main() frees every container it allocated
\* exactly once: the alias test keeps a grayscale picture, which is its own
\* img_grayscale, from being freed twice.
FreedOnceIfFieldIntact ==
    pc = "done" /\ comp_read = heap[img].comp =>
      \A i \in DOMAIN heap : heap[i].frees = 1

\* Every container main() allocated is freed exactly once by the time it
\* returns: none leaks, and none is freed twice.
EachContainerFreedOnce ==
    pc = "done" => \A i \in DOMAIN heap : heap[i].frees = 1
=============================================================================
