---------------------------- MODULE MCSingleRate ----------------------------
(***************************************************************************)
(* "top": A feeds the hierarchical S through a delay, S feeds B.  S has an *)
(* actor C, whose delay to D is set and read by the graph outside: its     *)
(* setter is an input interface and its getter an output one.  "flat" is a *)
(* producer, a fork, a join and consumers, with a loop and a delay; "loop" *)
(* a loop whose delay may be too short.  "dyn" is a dynamic graph after    *)
(* separateRunGraphFromInit: its actor sets the parameters of "run", where *)
(* a feeds the graph "sub" through a delay, and sub feeds b.  "lost" is    *)
(* another one, three graphs deep: x, which runs before the graphs "g" and *)
(* "h" are transformed, together, sets the delay of the edge from k to h.  *)
(***************************************************************************)
EXTENDS SRDAGRuntime

MCVerticesOf ==
    "top" :> <<"A", "S", "B", "X", "Y", "dI", "dV", "dE">>
    @@ "S" :> <<"C", "D", "sV">>
    @@ "flat" :> <<"P", "F", "G", "J", "Q", "fI", "fV", "fE">>
    @@ "twice" :> <<"K", "R">>
    @@ "R" :> <<"U", "V", "W">>
    @@ "dyn" :> <<"cfg", "run">>
    @@ "run" :> <<"a", "sub", "b", "aI", "aV", "aE">>
    @@ "sub" :> <<"c">>
    @@ "lost" :> <<"cfg2", "run2">>
    @@ "run2" :> <<"x", "g">>
    @@ "g" :> <<"k", "h", "gV", "gE">>
    @@ "h" :> <<"m">>
    @@ "loop" :> <<"L", "N", "lI", "lV", "lE">>

MCKind ==
    [v \in {"S", "R", "run", "sub", "run2", "g", "h"} |-> "GRAPH"]
    @@ [v \in {"A", "B", "C", "D", "X", "Y", "P", "Q", "L", "N", "K", "V", "W",
              "cfg", "a", "b", "c", "cfg2", "x", "k", "m"} |-> "NORMAL"]
    @@ [v \in {"F", "G"} |-> "FORK"]
    @@ [v \in {"J"} |-> "JOIN"]
    @@ [v \in {"U"} |-> "DUPLICATE"]
    @@ [v \in {"dI", "fI", "lI", "aI"} |-> "INIT"]
    @@ [v \in {"dV", "sV", "fV", "lV", "aV", "gV"} |-> "DELAY"]
    @@ [v \in {"dE", "fE", "lE", "aE", "gE"} |-> "END"]
    @@ [v \in {"in", "inX", "inK", "inRun", "inSub",
              "inRun2", "inG", "inH"} |-> "INPUT"]
    @@ [v \in {"out", "outY", "outSub"} |-> "OUTPUT"]

\* Every edge, with its ends; the ports are in the order of the names.
Ends ==
    "AS" :> <<"A", "S">> @@ "SB" :> <<"S", "B">> @@ "XS" :> <<"X", "S">> @@ "SY" :> <<"S", "Y">>
    @@ "set" :> <<"dI", "dV">> @@ "get" :> <<"dV", "dE">>
    @@ "inC" :> <<"in", "C">> @@ "CD" :> <<"C", "D">> @@ "Dout" :> <<"D", "out">>
    @@ "setS" :> <<"inX", "sV">> @@ "getS" :> <<"sV", "outY">>
    @@ "PF" :> <<"P", "F">> @@ "FG" :> <<"F", "G">> @@ "FJ" :> <<"F", "J">>
    @@ "GJ" :> <<"G", "J">> @@ "GQ" :> <<"G", "Q">> @@ "JQ" :> <<"J", "Q">>
    @@ "setF" :> <<"fI", "fV">> @@ "getF" :> <<"fV", "fE">>
    @@ "LL" :> <<"L", "L">> @@ "setL" :> <<"lI", "lV">> @@ "getL" :> <<"lV", "lE">>
    @@ "LN" :> <<"L", "N">>
    @@ "toRun" :> <<"cfg", "run">> @@ "toA" :> <<"inRun", "a">> @@ "toSub" :> <<"a", "sub">>
    @@ "toB" :> <<"sub", "b">> @@ "toC" :> <<"inSub", "c">> @@ "ofC" :> <<"c", "outSub">>
    @@ "toRun2" :> <<"cfg2", "run2">> @@ "toX" :> <<"inRun2", "x">> @@ "toG" :> <<"x", "g">>
    @@ "setG" :> <<"inG", "gV">> @@ "getG" :> <<"gV", "gE">> @@ "toH" :> <<"k", "h">>
    @@ "toM" :> <<"inH", "m">>
    @@ "setA" :> <<"aI", "aV">> @@ "getA" :> <<"aV", "aE">>
    @@ "KR" :> <<"K", "R">> @@ "inU" :> <<"inK", "U">> @@ "UV" :> <<"U", "V">> @@ "UW" :> <<"U", "W">>

MCSrc == [e \in DOMAIN Ends |-> Ends[e][1]]
MCSnk == [e \in DOMAIN Ends |-> Ends[e][2]]
MCOutEdges == [v \in DOMAIN MCKind |-> SetToSeq({e \in DOMAIN Ends : Ends[e][1] = v})]
MCInEdges == [v \in DOMAIN MCKind |-> SetToSeq({e \in DOMAIN Ends : Ends[e][2] = v})]
MCOuter == "in" :> "AS" @@ "out" :> "SB" @@ "inX" :> "XS" @@ "outY" :> "SY" @@ "inK" :> "KR"
          @@ "inRun" :> "toRun" @@ "inSub" :> "toSub" @@ "outSub" :> "toB"
          @@ "inRun2" :> "toRun2" @@ "inG" :> "toG" @@ "inH" :> "toH"

AllRoots == {"top", "flat", "loop", "twice", "dyn"}
Dyn == {"dyn"}
Lost == {"lost"}

MCDelayedEdge == "dV" :> "AS" @@ "sV" :> "CD" @@ "fV" :> "JQ" @@ "lV" :> "LL" @@ "aV" :> "toSub" @@ "gV" :> "toH"
MCDelaysOf == "dV" :> {1, 3} @@ "sV" :> {2} @@ "fV" :> {1, 4} @@ "lV" :> {1, 2} @@ "aV" :> {1} @@ "gV" :> {2}

MCRatesOf ==
    [e \in DOMAIN Ends |->
        CASE e \in {"set", "get", "setS", "getS", "setF", "getF", "setL", "getL", "setA", "getA", "getG"} ->
                {<<n, n>> : n \in 1 .. 4}
          [] e = "AS" -> {<<2, 2>>, <<4, 2>>, <<1, 2>>}
          [] e = "SB" -> {<<2, 1>>, <<1, 2>>}
          [] e \in {"XS", "SY"} -> {<<2, 2>>}
          [] e = "inC" -> {<<2, 1>>, <<2, 3>>}
          [] e = "CD" -> {<<3, 2>>, <<2, 1>>}
          [] e = "Dout" -> {<<1, 2>>, <<1, 1>>}
          [] e = "PF" -> {<<4, 4>>, <<2, 4>>, <<6, 4>>}
          [] e \in {"FG", "FJ"} -> {<<2, 2>>}
          [] e = "GJ" -> {<<1, 1>>}
          [] e = "GQ" -> {<<1, 1>>}
          [] e = "JQ" -> {<<3, 3>>}
          [] e = "LL" -> {<<2, 2>>, <<0, 0>>}
          [] e \in {"KR", "inU", "UW"} -> {<<1, 1>>}
          [] e = "UV" -> {<<1, 2>>, <<1, 1>>}
          [] e \in {"toG", "setG"} -> {<<2, 2>>}
          [] e \in {"toRun2", "toX"} -> {<<1, 1>>}
          [] e = "toH" -> {<<4, 4>>}
          [] e = "toM" -> {<<4, 2>>}
          [] e = "toRun" -> {<<2, 2>>}
          [] e = "toA" -> {<<2, 1>>, <<2, 3>>}
          [] e = "toSub" -> {<<1, 2>>, <<3, 2>>}
          [] e = "toB" -> {<<2, 1>>}
          [] e = "toC" -> {<<2, 1>>}
          [] e = "ofC" -> {<<1, 1>>, <<1, 2>>}
          [] e = "LN" -> {<<0, 0>>, <<1, 2>>, <<2, 1>>}]

MCPersistent == {"fV", "aV", "lV"}

Both == {"LIST", "GREEDY"}
MCMinExecTime ==
    "NORMAL" :> 2 @@ [t \in {"FORK", "JOIN", "DUPLICATE", "REPEAT", "TAIL", "INIT", "END"} |-> 1]
=============================================================================
