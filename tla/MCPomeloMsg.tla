----------------------------- MODULE MCPomeloMsg ------------------------------
(***************************************************************************)
(* PomeloMsg for TLC: two definitions with a field of every kind, some     *)
(* nested; bodies of up to two members; routes of all the lengths, ids and *)
(* codes at which something changes.                                       *)
(***************************************************************************)
EXTENDS PomeloMsg

Field(name, option, type, tag) ==
    [name |-> name, option |-> option, type |-> type, tag |-> tag]

MCProtos ==
    [player |-> {Field("n", "required", "uInt32", 1), Field("i", "optional", "int32", 2),
                 Field("s", "optional", "string", 3), Field("f", "optional", "float", 16),
                 Field("p", "optional", "place", 17), Field("u", "repeated", "uInt32", 4),
                 Field("w", "repeated", "string", 5), Field("q", "repeated", "place", 6),
                 Field("d", "repeated", "double", 15)},
     place |-> {Field("x", "required", "sInt32", 1), Field("in", "optional", "place", 2),
                Field("y", "optional", "double", 3)}]

Route(n) == [k \in 1 .. n |-> 7]
MCProtoOf == Route(2) :> "player"
MCRouteToCode ==
    Route(3) :> 0 @@ Route(4) :> 1 @@ Route(5) :> 256 @@ Route(6) :> 65535
      @@ Route(7) :> 65536

X(n) == Member("x", Number(n))
At(members) == Object(members)

\* The values of each field of a player.
Fields ==
    <<{Member("n", Number(n)) : n \in {0, 300, -1}},
      {Member("i", Number(n)) : n \in {-1, -64, -65, 64}},
      {Member("s", Text(s)) : s \in {<<>>, <<9, 8>>}},
      {Member("f", Number(5))},
      {Member("p", v) :
         v \in {At(<<>>), At(<<X(-3)>>),
                At(<<X(1), Member("in", At(<<X(2)>>)), Member("y", Number(3))>>)}},
      {Member("u", Array(v)) : v \in {<<>>, <<Number(1), Number(128)>>}},
      {Member("w", Array(v)) : v \in {<<>>, <<Text(<<>>), Text(<<9>>)>>}},
      {Member("q", Array(v)) : v \in {<<>>, <<At(<<X(1)>>), At(<<>>)>>}},
      {Member("d", Array([k \in 1 .. n |-> Number(k)])) : n \in {0, 3, 4}}>>

\* One member, or two of different fields.
Players ==
    LET Pairs == UNION {{Object(<<a, b>>) : a \in Fields[j], b \in Fields[k]} :
                          j, k \in DOMAIN Fields}
    IN  {Object(<<>>)} \cup {Object(<<a>>) : a \in UNION ToSet(Fields)}
          \cup {p \in Pairs : p.members[1].key # p.members[2].key}

MCMessages ==
    [type : {"push", "notify"}, id : {0}, route : {Route(2)}, body : Players]
      \cup [type : {"request", "response"}, id : {1, 127, 128, 16383, 16384, UInt - 2},
            route : {Route(1), Route(2), Route(5)},
            body : {Object(<<Member("n", Number(1))>>)}]
      \cup [type : {"push", "notify"}, id : {0},
            route : {Route(n) : n \in {1, 3, 4, 5, 6, 7, 127, 128, 255, 256}},
            body : {Object(<<X(1)>>)}]

===============================================================================
