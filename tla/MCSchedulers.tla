---------------------------- MODULE MCSchedulers ----------------------------
(***************************************************************************)
(* "top": A feeds the hierarchical S (through a delay), S feeds B, and B a *)
(* graph T that is listed before S.  S contains C and D, with a delay in   *)
(* between.  "chain" has the graphs U and W listed in the order of the     *)
(* data; "late" has a delay on the edge of an output interface.  "twin" is *)
(* two actors with two edges, and a third.                                 *)
(***************************************************************************)
EXTENDS PiSDFFifos

MCVerticesOf ==
    "top" :> <<"A", "T", "S", "B", "dI", "dV", "dE">>
    @@ "S" :> <<"C", "D", "sI", "sV", "sE">>
    @@ "T" :> <<"E">>
    @@ "twin" :> <<"P", "Q", "R">>
    @@ "chain" :> <<"U", "W">>
    @@ "U" :> <<"F">> @@ "W" :> <<"G">>
    @@ "late" :> <<"L", "H">>
    @@ "L" :> <<"J", "lI", "lV", "lE">>
    @@ "forks" :> <<"M", "N", "K", "V", "O">>

MCKind ==
    [v \in {"S", "T", "U", "W", "L"} |-> "GRAPH"]
    @@ [v \in {"A", "B", "C", "D", "E", "F", "G", "H", "J", "P", "Q", "R", "M", "N", "O"} |-> "NORMAL"]
    @@ "K" :> "FORK" @@ "V" :> "DUPLICATE"
    @@ [v \in {"dI", "sI", "lI"} |-> "INIT"]
    @@ [v \in {"dV", "sV", "lV"} |-> "DELAY"]
    @@ [v \in {"dE", "sE", "lE"} |-> "END"]
    @@ [v \in {"in", "inT", "inW"} |-> "INPUT"]
    @@ [v \in {"out", "outU", "outL"} |-> "OUTPUT"]

\* Every edge, with its ends.
Ends ==
    "AS" :> <<"A", "S">> @@ "SB" :> <<"S", "B">> @@ "BT" :> <<"B", "T">>
    @@ "set" :> <<"dI", "dV">> @@ "get" :> <<"dV", "dE">>
    @@ "inC" :> <<"in", "C">> @@ "CD" :> <<"C", "D">> @@ "Dout" :> <<"D", "out">>
    @@ "setS" :> <<"sI", "sV">> @@ "getS" :> <<"sV", "sE">>
    @@ "inE" :> <<"inT", "E">>
    @@ "PQ" :> <<"P", "Q">> @@ "PQ2" :> <<"P", "Q">> @@ "QR" :> <<"Q", "R">>
    @@ "UW" :> <<"U", "W">> @@ "Fout" :> <<"F", "outU">> @@ "inG" :> <<"inW", "G">>
    @@ "LH" :> <<"L", "H">> @@ "Jout" :> <<"J", "outL">>
    @@ "MK" :> <<"M", "K">> @@ "KN" :> <<"K", "N">> @@ "KV" :> <<"K", "V">>
    @@ "VN" :> <<"V", "N">> @@ "VO" :> <<"V", "O">>
    @@ "setL" :> <<"lI", "lV">> @@ "getL" :> <<"lV", "lE">>

MCSrc == [e \in DOMAIN Ends |-> Ends[e][1]]
MCSnk == [e \in DOMAIN Ends |-> Ends[e][2]]
MCOutEdges == [v \in DOMAIN MCKind |-> SetToSeq({e \in DOMAIN Ends : Ends[e][1] = v})]
MCInEdges == [v \in DOMAIN MCKind |-> SetToSeq({e \in DOMAIN Ends : Ends[e][2] = v})]
MCOuter ==
    "in" :> "AS" @@ "out" :> "SB" @@ "inT" :> "BT" @@ "outU" :> "UW" @@ "inW" :> "UW"
    @@ "outL" :> "LH"

TopTwinForks == {"top", "twin", "forks"}
Forks == {"forks"}
Top == {"top"}
Chain == {"chain"}
Late == {"late"}
Both == {"LIST", "GREEDY"}
List == {"LIST"}

MCDelayedEdge == "dV" :> "AS" @@ "sV" :> "CD" @@ "lV" :> "Jout"
MCDelaysOf == "dV" :> {3} @@ "sV" :> {3} @@ "lV" :> {1}

MCRatesOf ==
    [e \in DOMAIN Ends |->
        CASE e \in {"set", "get", "setS", "getS", "setL", "getL"} -> {<<n, n>> : n \in 1 .. 3}
          [] e = "AS" -> {<<4, 2>>}
          [] e = "SB" -> {<<2, 1>>}
          [] e = "inC" -> {<<2, 1>>, <<2, 3>>}
          [] e = "Dout" -> {<<1, 2>>}
          [] e = "CD" -> {<<3, 2>>}
          [] e = "BT" -> {<<1, 4>>}
          [] e = "inE" -> {<<4, 2>>, <<4, 1>>}
          [] e = "QR" -> {<<1, 2>>, <<3, 2>>}
          [] e = "LH" -> {<<2, 1>>}
          [] e = "MK" -> {<<2, 3>>, <<3, 3>>, <<6, 3>>}
          [] e = "KN" -> {<<1, 2>>}
          [] e = "KV" -> {<<2, 2>>}
          [] e = "VN" -> {<<2, 4>>}
          [] e = "VO" -> {<<2, 1>>}
          [] e = "Jout" -> {<<4, 2>>}
          [] e \in {"PQ", "PQ2"} -> (1 .. 3) \X (2 .. 3)
          [] OTHER -> {<<1, 1>>}]

MCMinExecTime == [v \in DOMAIN MCKind |-> IF v \in {"A", "D"} THEN 2 ELSE 1]
=============================================================================
