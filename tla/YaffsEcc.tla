------------------------------- MODULE YaffsEcc -------------------------------
(***************************************************************************)
(* The error correction of data and tags: the parities of the columns and  *)
(* of the lines of a run of bytes, which tell where one flipped bit is.    *)
(*                                                                         *)
(* Bytes are the set of their bits that are 1, each a pair <<byte, bit>>.  *)
(* The table that gives the column parities of a byte and the interleaving *)
(* of the parities in three bytes are modelled by what they stand for.     *)
(***************************************************************************)
EXTENDS Integers, FiniteSets

BitOf(n, k) == k < 16 /\ (n \div 2^k) % 2 = 1     \* of numbers below 2^16
Odd(S) == Cardinality(S) % 2 = 1
Differ(A, B) == (A \ B) \cup (B \ A)

\* The word whose bits are the parities of the numbers of a set: their exclusive or.
XorOf(S, width) == {k \in 0 .. width - 1 : Odd({n \in S : BitOf(n, k)})}

\* Columns 2k and 2k+1: the bits whose number has bit k clear, and set.
col_parity(bits) ==
    {c \in 0 .. 5 : Odd({b \in bits : BitOf(b[2], c \div 2) = (c % 2 = 1)})}

\* Lines: a byte counts as often as it has bits that are 1.
line_parity(bits, width) == {k \in 0 .. width - 1 : Odd({b \in bits : BitOf(b[1], k)})}
line_parity_prime(bits, width) == {k \in 0 .. width - 1 : Odd({b \in bits : ~BitOf(b[1], k)})}

Parities(bits, width) ==
    [col |-> col_parity(bits), line |-> line_parity(bits, width),
     prime |-> line_parity_prime(bits, width), rest |-> {}]

\* yaffs_ecc_calc(): 256 bytes; yaffs_ecc_calc_other(): up to as many as 32 bits count.
ecc_calc(bits) == Parities(bits, 8)
ecc_calc_other(bits) == Parities(bits, 32)

NumberOfSet(k) == CASE k = {} -> 0 [] k = {0} -> 1 [] k = {1} -> 2 [] k = {0, 1} -> 3
                    [] k = {2} -> 4 [] k = {0, 2} -> 5 [] k = {1, 2} -> 6 [] OTHER -> 7

\* [bits, result] from what was read and the parities read with it: the data is taken,
\* corrected, or given up with -1.
Correct(bits, width, n_bytes, read, test) ==
    LET d == [f \in DOMAIN read |-> Differ(read[f], test[f])]
        inData == /\ d.line = (0 .. width - 1) \ d.prime
                  /\ \A k \in 0 .. 2 : (2 * k \in d.col) # (2 * k + 1 \in d.col)
        bit == NumberOfSet({k \in 0 .. 2 : 2 * k + 1 \in d.col})
        bytes == {i \in 0 .. n_bytes - 1 :
                    \A k \in 0 .. width - 1 : BitOf(i, k) = (k \in d.line)}
        weight == Cardinality(d.col) + Cardinality(d.line) + Cardinality(d.prime)
                    + Cardinality(d.rest)
    IN IF weight = 0 THEN [bits |-> bits, result |-> 0]
       ELSE IF inData /\ bytes # {}
              THEN [bits |-> Differ(bits, {<<i, bit>> : i \in bytes}), result |-> 1]
       ELSE IF ~inData /\ weight = 1 THEN [bits |-> bits, result |-> 1]
       ELSE [bits |-> bits, result |-> -1]

ecc_correct(bits, read, test) == Correct(bits, 8, 256, read, test)
ecc_correct_other(bits, n_bytes, read, test) == Correct(bits, 32, n_bytes, read, test)

(***************************************************************************)
(* The tags of yaffs1: the numbers, from 1, of their bits that are 1.  The *)
(* exclusive or of these numbers is kept within the tags.                  *)
(***************************************************************************)
EccField == 51 .. 62

\* yaffs_calc_tags_ecc(): the tags with their own ecc.
calc_tags_ecc(tags) ==
    LET data == tags \ EccField
    IN data \cup {51 + k : k \in XorOf(data, 7)}

\* yaffs_check_tags_ecc()
check_tags_ecc(tags) ==
    LET read == {k \in 0 .. 11 : 51 + k \in tags}
        delta == Differ(read, XorOf(tags \ EccField, 7))
        hit == {n \in 1 .. 64 : \A k \in 0 .. 11 : BitOf(n, k) = (k \in delta)}
    IN IF delta = {} THEN [tags |-> calc_tags_ecc(tags), result |-> 0]
       ELSE IF hit # {} THEN [tags |-> calc_tags_ecc(Differ(calc_tags_ecc(tags), hit)), result |-> 1]
       ELSE [tags |-> calc_tags_ecc(tags), result |-> -1]
=============================================================================
