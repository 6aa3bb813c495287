------------------------------- MODULE MCHttp -------------------------------
(***************************************************************************)
(* Http on a small instance.                                               *)
(***************************************************************************)
EXTENDS Http, TLC

Text(t) == [type |-> "string", text |-> t]
Null == [type |-> "null", text |-> <<>>]
Number(t) == [type |-> "number", text |-> t]

MCBody == {
    [name |-> Text(<<"a">>), id |-> Number(<<"1">>)],
    [name |-> Text(<<"A", ".">>), size |-> Number(<<"1">>)],
    [name |-> Text(<<"a", "\n">>), size |-> Null]}

Eq(field, arg) == [field |-> field, kind |-> "eq", arg |-> arg]
LikeArg(field, arg) == [field |-> field, kind |-> "like", arg |-> arg]

List(filters, ci, limit, offset) ==
    [filters |-> filters, ci |-> ci, limit |-> limit, offset |-> offset]

MCQueries ==
    {List({}, TRUE, limit, Absent) : limit \in {Absent, -1}}
    \union {List({}, TRUE, 1, 0), List({LikeArg("name", <<"a", "%">>)}, FALSE, 1, 0)}
    \union {List({}, TRUE, 0, offset) : offset \in {-1, 1, 9}}
    \union {List({LikeArg("name", <<"a", "_">>)}, ci, 0, Absent) : ci \in BOOLEAN}
    \union
    {List({LikeArg("name", <<"%", "A", "%">>), Eq("size", <<"1">>)}, TRUE, 0, Absent),
     List({LikeArg("name", <<"_", ".">>)}, TRUE, 0, Absent),
     List({LikeArg("name", <<"%", "a">>), Eq("", <<"a">>)}, TRUE, Absent, 1),
     List({Eq("name", <<"A">>)}, TRUE, 2, Absent),
     List({Eq("name", <<"A">>)}, FALSE, 2, Absent),
     List({Eq("size", <<>>)}, TRUE, 0, Absent),
     List({Eq("id", <<"1">>)}, TRUE, 0, Absent)}

\* The goroutines that create are alike.
Symmetry == Permutations(Creator)
=============================================================================
