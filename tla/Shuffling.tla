------------------------------ MODULE Shuffling ------------------------------
(* One round of the loops that shuffle posters and terminals                  *)
(* (src/src/MrWright.cpp:114, src/src/Wife.cpp:83).                           *)
EXTENDS Integers, Sequences

(* The sequence with its i-th and j-th elements exchanged.                    *)
Swapped(s, i, j) == [s EXCEPT ![i] = s[j], ![j] = s[i]]
=============================================================================
