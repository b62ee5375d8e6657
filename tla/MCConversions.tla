--------------------------- MODULE MCConversions ---------------------------
(* Up to four bytes in each place of a group, and texts of up to eight     *)
(* characters; numbers of 3, 4, 5 and 6 bits for 24, 32, 53 and 64.        *)
EXTENDS Conversions

MCDatas == UNION {[1 .. n -> {0, 1, 167, 255}] : n \in 0 .. 4}

MCTexts == UNION {[1 .. n -> {0, 1, 16, 63, Pad, Other, High}] : n \in 0 .. 4}
           \cup {t \o u : t \in [1 .. 4 -> {63}],
                          u \in UNION {[1 .. n -> {0, 4, 16, Pad, High}] : n \in 2 .. 4}}

MCLengths == UNION {{k - 1, k, k + 1} : k \in {128, 128 ^ 2, 128 ^ 3, 128 ^ 4}}
             \cup {0, 1, 12, 13, 14, 1073741824, 2147483640}

=============================================================================
