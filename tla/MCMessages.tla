----------------------------- MODULE MCMessages -----------------------------
(* The package app has the message A and the service S, which use the type *)
(* B of the package lib; B uses C, and D in one of its versions. Next to   *)
(* the builds stand the cases of Generators, picked in the first state.    *)
EXTENDS MessageBuild, Generators

F(parts, dims, name) == Field(parts, dims, name)
A1 == <<F(<<"lib", "B">>, <<>>, "b"), F(<<"int8">>, <<>>, "x")>>
A2 == <<F(<<"lib", "B">>, <<-1>>, "b"), F(<<"lib", "D">>, <<>>, "d")>>
B1 == <<F(<<"C">>, <<>>, "c")>>
B2 == <<F(<<"C">>, <<>>, "c"), F(<<"D">>, <<>>, "d")>>
B3 == <<F(<<"Missing">>, <<>>, "m")>>
C1 == <<F(<<"int8">>, <<>>, "y")>>
C2 == <<F(<<"int8">>, <<>>, "y"), F(<<"time">>, <<>>, "t")>>
D1 == <<F(<<"string">>, <<>>, "s")>>
D2 == <<F(<<"C">>, <<2>>, "s")>>
S1 == <<F(<<"lib", "B">>, <<>>, "b"), Delimiter, F(<<"bool">>, <<>>, "ok")>>

MCKindOf == [A |-> "msg", S |-> "srv"]
MCJobs == {<<"S", "cpp">>, <<"A", "py">>, <<"A", "nodejs">>, <<"S", "nodejs">>}
MCPath == [app |-> <<"app">>, lib |-> <<"lib">>]
MCInitial == (<<"app", "A">> :> A1) @@ (<<"app", "S">> :> S1) @@ (<<"lib", "B">> :> B1)
             @@ (<<"lib", "C">> :> C1) @@ (<<"lib", "D">> :> D1)
MCVariants == (<<"app", "A">> :> {A1, A2}) @@ (<<"app", "S">> :> {S1})
              @@ (<<"lib", "B">> :> {B1, B3})
              @@ (<<"lib", "C">> :> {C1, C2}) @@ (<<"lib", "D">> :> {D1})
MCDeepVariants == (<<"app", "A">> :> {A1}) @@ (<<"app", "S">> :> {S1})
                  @@ (<<"lib", "B">> :> {B1, B2})
                  @@ (<<"lib", "C">> :> {C1}) @@ (<<"lib", "D">> :> {D1, D2})
MCOneJob == {<<"A", "py">>}
-----------------------------------------------------------------------------
(* The messages of the cases: pairs of packages p and q, with every kind   *)
(* of field, keywords, empty arrays and what is hidden from a digest.      *)
Pt == <<F(<<"int32">>, <<>>, "x"), F(<<"int16">>, <<>>, "y")>>
MCLibrary ==
    (<<"q", "Point">> :> Pt) @@ (<<"p", "Point">> :> Pt)
    @@ (<<"p", "Empty">> :> <<>>)
    @@ (<<"std_msgs", "Header">> :> <<F(<<"uint32">>, <<>>, "seq"), F(<<"time">>, <<>>, "stamp"),
            F(<<"string">>, <<>>, "frame_id")>>)
    @@ (<<"p", "Stamped">> :> <<F(<<"Header">>, <<>>, "header"), F(<<"int8">>, <<>>, "x"),
            Const("int16", "LOW", Int2(TRUE, 3, 0)), Const("string", "NAME", <<"x", "">>),
            Const("bool", "YES", TRUE)>>)
    @@ (<<"p", "Key">> :> <<F(<<"int64">>, <<>>, "class")>>)
    @@ (<<"p", "Keyed">> :> <<F(<<"Key">>, <<>>, "k")>>)
    @@ (<<"p", "Flat">> :> <<F(<<"int8">>, <<>>, "a"), F(<<"uint16">>, <<>>, "b"),
            F(<<"bool">>, <<>>, "c"), F(<<"float64">>, <<>>, "d"), F(<<"char">>, <<>>, "e"),
            F(<<"byte">>, <<>>, "f"), F(<<"uint64">>, <<>>, "g")>>)
    @@ (<<"p", "Text">> :> <<F(<<"int8">>, <<>>, "n"), F(<<"string">>, <<>>, "s")>>)
    @@ (<<"p", "Arrays">> :> <<F(<<"int16">>, <<-1>>, "a"), F(<<"bool">>, <<2>>, "b"),
            F(<<"string">>, <<-1>>, "c"), F(<<"uint8">>, <<-1>>, "d"), F(<<"uint8">>, <<3>>, "e"),
            F(<<"int32">>, <<11>>, "f")>>)
    @@ (<<"p", "Times">> :> <<F(<<"time">>, <<>>, "t"), F(<<"duration">>, <<>>, "d"),
            F(<<"time">>, <<2>>, "ts"), F(<<"duration">>, <<-1>>, "ds")>>)
    @@ (<<"q", "Named">> :> <<F(<<"string">>, <<>>, "name"), F(<<"Point">>, <<>>, "at")>>)
    @@ (<<"q", "Deep">> :> <<F(<<"p", "Times">>, <<>>, "t"), F(<<"r", "Leaf">>, <<-1>>, "l")>>)
    @@ (<<"r", "Leaf">> :> <<F(<<"int64">>, <<>>, "v")>>)
    @@ (<<"p", "Nested">> :> <<F(<<"q", "Point">>, <<>>, "a"), F(<<"q", "Point">>, <<-1>>, "b"),
            F(<<"q", "Named">>, <<2>>, "c"), F(<<"q", "Named">>, <<>>, "d")>>)
    @@ (<<"p", "Deeper">> :> <<F(<<"q", "Deep">>, <<-1>>, "d"), F(<<"bool">>, <<>>, "b")>>)
    @@ (<<"p", "Block">> :> <<F(<<"q", "Point">>, <<2>>, "a"), F(<<"int8">>, <<>>, "b")>>)
    @@ (<<"p", "Blocks">> :> <<F(<<"Block">>, <<-1>>, "a")>>)
    @@ (<<"p", "Zero">> :> <<F(<<"int8">>, <<0>>, "z"), F(<<"int8">>, <<>>, "x")>>)
    @@ (<<"p", "Words">> :> <<F(<<"string">>, <<2>>, "w"), F(<<"int8">>, <<>>, "x")>>)
    @@ (<<"p", "Pages">> :> <<F(<<"Words">>, <<-1>>, "p")>>)
    @@ (<<"q", "Key">> :> <<F(<<"int8">>, <<>>, "class")>>)
    @@ (<<"q", "Keys">> :> <<F(<<"Key">>, <<>>, "lambda")>>)
    @@ (<<"p", "Names">> :> <<F(<<"int8">>, <<>>, "from"), F(<<"q", "Key">>, <<>>, "k"),
            F(<<"q", "Key">>, <<>>, "in"), F(<<"q", "Keys">>, <<>>, "h")>>)
    @@ (<<"p", "One">> :> <<F(<<"q", "Point">>, <<>>, "m")>>)
    @@ (<<"p", "Own">> :> <<F(<<"Point">>, <<>>, "m")>>)
    @@ (<<"p", "Many">> :> <<F(<<"q", "Point">>, <<-1>>, "m")>>)

HalfTypes == {Type(<<"p", m>>, <<>>): m \in {"Point", "Empty", "One", "Own", "Many", "Nested", "Keyed", "Names"}}
MCRosDepends == [p |-> {"q", "r", "std_msgs"}, q |-> {"p", "r", "std_msgs"}, r |-> {}]
MCHalves == HalfTypes \X HalfTypes
MCLines ==
    [k: {"field"}, type: [parts: {<<"int8">>, <<"time">>, <<"Header">>, <<"std_msgs", "Header">>, <<"Point">>,
                                  <<"q", "Point">>, <<"a", "b", "c">>, <<"2x">>},
                          dims: {<<>>, <<-1>>, <<0>>, <<2>>, <<-1, -1>>, <<3, -1>>}],
     name: {"header", "x", "2x"}]
    \cup {Const(t, "C", Int2(FALSE, 3, 0)): t \in {"int8", "Point", "time"}}
    \cup {Const("string", "C", <<"x", "y">>), Blank, Malformed, Delimiter}
MCTexts == UNION {[1..n -> {"x", "sq", "dq", "bs"}]: n \in 0..4}
           \cup UNION {[1..n -> {"x", "dq", "tilde"}]: n \in 0..5}
           \cup UNION {[1..n -> {"x", "nl", "dq", "bs", "tilde"}]: n \in 0..3}
           \cup UNION {[1..n -> {"x", "nl", "bq", "dollar", "brace"}]: n \in 0..3}
MCPatterns ==
    {Py!Decimal(n) \o <<c>>: n \in 0..130, c \in {"i", "s", "B"}}
    \cup UNION {[1..n -> {"b", "H", "d"}]: n \in 1..5}
    \cup {[i \in 1..n |-> "q"]: n \in 8..12}
Words(chars, upTo) == UNION {[1..n -> chars]: n \in 0..upTo}
Sides == {<<"a">>, <<"n">>, <<"/", "a">>, <<"~", "a">>, <<"~", "/", "a">>, <<"a", "/", "n">>, <<"/", "s", "/", "n">>}
MCGraphNames == Words({"/", "~", "a", "n", "_"}, 2) \cup Words({"/", "~", "a"}, 4) \cup Sides
MCArgv == {<<>>, <<<<<<"a">>>>, <<<<"a">>, <<"n">>, <<"a">>>>>>,
           <<<<Nm!NameKey, <<"b">>>>, <<<<"_", "a">>, <<"n">>>>>>}
          \cup {<<<<l, r>>>>: l \in Sides, r \in Sides}
          \cup {<<<<Nm!NsKey, ns>>, <<<<"~", "a">>, <<"b">>>>>>: ns \in {<<"a">>, <<"/", "b", "/">>, <<"~", "a">>}}
MCNodes == [env: {<<>>, <<"/">>, <<"s">>, <<"/", "s">>, <<"s", "/", "a", "/">>, <<"/", "/", "s">>, <<"~", "s">>},
            argv: MCArgv, anonymous: BOOLEAN]
MCPairs == (-2..2) \X (-6..6)
MCNumbers == {Int2(neg, pow, off): neg \in BOOLEAN, pow \in {7, 8, 15, 16, 31, 32, 63, 64}, off \in -1..1}

Unconfigured == [t \in Targets |-> [types |-> {}, files |-> {}, configured |-> FALSE]]
MCInit == Init /\ CaseInit
MCNext ==
    \/ Next /\ input = NoCase /\ UNCHANGED input
    \/ edits = 0 /\ phase = "idle" /\ rules = Unconfigured /\ PickCase /\ UNCHANGED vars
MCSpec == MCInit /\ [][MCNext]_<<vars, input>>
=============================================================================
