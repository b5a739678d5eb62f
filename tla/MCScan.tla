------------------------------- MODULE MCScan -------------------------------
(* Every short C file, every short CMakeLists.txt, and every way to go on with  *)
(* a bracket comment, with a call, a list of sources and a set() over lines.      *)
EXTENDS Scan

MCAlphabet ==
    "c" :> {"/", "*", "\"", "'", "\\", "\n", "\r", "I"} @@
    "cmake" :> {"#", "\"", "\\", "\n", " ", "[", "]", "=", "(", ")", "H", "N", "M"}

Beginning(l, t, n) == [lang |-> l, text |-> t, more |-> n]

MCBeginnings ==
    {Beginning("c", <<>>, 5),
     Beginning("c", <<"/", "/">>, 4),
     Beginning("c", <<"/", "*">>, 4),
     Beginning("c", <<"\"">>, 5),
     Beginning("cmake", <<>>, 4),
     Beginning("cmake", <<"#", "[", "=", "[">>, 4),
     Beginning("cmake", <<"N", "(", ")">>, 4),
     Beginning("cmake", <<"N", "(", "M">>, 4),
     Beginning("cmake", <<"N", "(", "N", "\n", " ", "M">>, 4)}
=============================================================================
