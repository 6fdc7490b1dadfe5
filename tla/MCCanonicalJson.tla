---------------------------- MODULE MCCanonicalJson ----------------------------
(***************************************************************************)
(* Two containers of a caller that share a third one.                      *)
(***************************************************************************)
EXTENDS CanonicalJson

CONSTANTS left, right, inner      \* addresses

KeysDef   == {"a", "b"}
SortedDef == [S \in SUBSET KeysDef |-> SelectSeq(<<"a", "b">>, LAMBDA k : k \in S)]

\* 1, 1.0, True and "1" look alike (three of them are equal in Python) and are
\* four different values.
One  == <<"int", 1>>
Flag == <<"bool", 1>>
Null == <<"null", 0>>
Real == <<"float", 1>>
Text == <<"string", "1">>

ScalarsDef == {One, Flag, Null, Real, Text}

List(items)        == <<"list", items, <<>>>>
Dict(items, order) == <<"dict", items, order>>

ListsOf(values) == {List(items) : items \in UNION {[1..n -> values] : n \in 0..2}}
DictsOf(values) ==
    {Dict(<<>>, <<>>)}
        \cup {Dict("a" :> v, <<"a">>) : v \in values}
        \cup {Dict("a" :> v @@ "b" :> w, order) :
                 v, w \in values, order \in {<<"a", "b">>, <<"b", "a">>}}

Inner == {List(<<>>), List(<<One>>), List(<<Null>>), Dict("a" :> Real, <<"a">>)}
Outer == ListsOf({One, Real, Text, <<"ref", inner>>})
            \cup DictsOf({One, Flag, <<"ref", inner>>})

ContentsDef == left :> Outer @@ right :> Outer @@ inner :> Inner
EditedDef   == inner :> Inner @@ left :> {List(<<Text>>), Dict(<<>>, <<>>)}
NestingDef  == left :> 1 @@ right :> 1 @@ inner :> 0
=============================================================================
