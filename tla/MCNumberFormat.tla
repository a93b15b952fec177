--------------------------- MODULE MCNumberFormat ---------------------------
(***************************************************************************)
(* TLC instances of NumberFormat: the numbers around every power of 2 and  *)
(* of 10, where the counts of digits change, and the styles.               *)
(***************************************************************************)
EXTENDS NumberFormat

Max31 == 2147483647

Near(b, exponents) == UNION {{b ^ k - 1, b ^ k} : k \in exponents}
MCInts ==
  [neg : {FALSE}, val : Near(2, 0 .. 30) \cup Near(10, 0 .. 9) \cup {15, 99, 12345, Max31 - 1, Max31}]
    \cup [neg : {TRUE}, val : {1, 7, 12, 255, 1000}]

MCFloats == [neg : BOOLEAN, whole : {0, 9, 12, 99}, frac : {0, 4, 5, 49, 50, 345, 500, 949, 950, 996, 999}]

MCStyles ==
  [width : {0, 1, 5, 8}, align : {"none", "<", ">", "^", "="}, sign : {"-", "+"}, prefix : BOOLEAN]
    \cup [width : {6}, align : {"none"}, sign : {" "}, prefix : {FALSE}]
=============================================================================
