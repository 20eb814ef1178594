-------------------------------- MODULE MCParson -------------------------------
(* Capacities that double twice, from 1 to 4, or, cut to 3, cannot; names   *)
(* for half of an object and more; texts of five chunks; code points, units *)
(* and bytes at both sides of every boundary of UTF-8 and UTF-16.           *)
EXTENDS Parson, TLC

Interchangeable == Permutations(Value)

MCIntMin == -1

One == <<"num", 10000000>>
OneWithDecimals == <<"float", 10000000>>

MCChunk ==
  {<<token>> : token \in {<<"{">>, <<"}">>, <<"[">>, <<"]">>, <<",">>,
                          <<" ">>, <<"null">>, <<"-">>, <<"broken">>}}
  \cup { << <<"str", "a">>, <<":">>, OneWithDecimals >>,
        << <<"str", "b">>, <<":">> >> }

(* 0.9999999, which is rounded to an integer; 1.7 millionths; 2, which is   *)
(* more than UIntMax; a string; an array that is empty.                     *)
MCLeaf == {<<"num", 9999999>>, <<"num", 17>>, <<"num", 20000000>>,
           <<"str", "x">>, Array(<<>>)}

MCSchemas ==
  {<<"null">>, Object(<<>>), Object(<< <<"a", One>> >>),
   Array(<<One, <<"null">> >>),
   Object(<< <<"b", Object(<< <<"a", <<"null">> >> >>)>> >>)}

MCUnit == {1, 127, 128, 2047, 2048, 55295, 55296, 56319, 56320, 57343, 57344,
           65535}

MCByte == {1, 127, 128, 143, 144, 159, 160, 191, 192, 193, 194, 223, 224, 237,
           239, 240, 244, 245}
===============================================================================
