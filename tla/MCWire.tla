------------------------------- MODULE MCWire -------------------------------
(* Two clients, one of them koheron.py, and a driver with three operations,   *)
(* one of each way to pass arguments and results, on bytes of one bit.        *)
EXTENDS Wire

CONSTANTS c1, c2

MCMaxCalls == (c1 :> 2) @@ (c2 :> 1)

MCOps == {"set", "get", "add"}
MCClass(op) == 2
MCFunc(op) == CASE op = "set" -> 0 [] op = "get" -> 1 [] op = "add" -> 2
MCArgs(op) == CASE op = "set" -> <<Scalar("uint8_t"), Scalar("int16_t")>>
                [] op = "get" -> <<>>
                [] op = "add" -> <<Scalar("uint8_t"), Vector("uint8_t")>>
MCRet(op) == CASE op = "set" -> <<>>
               [] op = "get" -> <<Scalar("uint8_t"), Scalar("int16_t")>>
               [] op = "add" -> <<Vector("int16_t")>>
MCValues(c, op) == CASE op = "set" -> IF c = c1 THEN {<<1, -1>>} ELSE {<<0, 1>>}
                     [] op = "get" -> IF c = c1 THEN {<<>>} ELSE {}
                     [] op = "add" -> IF c = c2 THEN {<<1, <<1>>>>} ELSE {}
MCAnyValues(op) == CASE op = "set" -> {<<1,-1>>, <<0,1>>} [] op = "get" -> {<<>>}
                     [] op = "add" -> {1, 0} \X {<<1>>, <<>>}
MCObjects == (0..1) \X (-2..1)
MCObject0 == <<0, 0>>
MCEffect(o, op, a) == CASE op = "set" -> a [] op = "get" -> o
                        [] op = "add" -> <<(o[1] + a[1] + Len(a[2])) % 2, -1 - o[2]>>
MCResult(o, op, a) == CASE op = "add" -> <<<<o[2], a[1]>>>> [] OTHER -> o
=============================================================================
