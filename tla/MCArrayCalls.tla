---------------------------- MODULE MCArrayCalls ----------------------------
(* A small instance of ArrayCalls for TLC: values of the types that compare *)
(* in different ways, and the keys they make.                               *)
EXTENDS ArrayCalls

MCCode == "a" :> 97 @@ "1" :> 49 @@ "0" :> 48 @@ "2" :> 50
MCScalars == {Null, Num(0), Str("a")}
MCKeys == {Str("1"), Str("a")}
=============================================================================
