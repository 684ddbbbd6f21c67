------------------------------ MODULE MCAdmission ------------------------------
(* Instances of Admission for TLC.                                          *)
EXTENDS Admission, SequencesExt

Node(id) ==
    [id |-> id, globals |-> IF id = "a" THEN {"model"} ELSE {}, prompt |-> id = "a",
     subagents |-> <<>>, tools |-> <<>>, skills |-> <<>>, settings |-> {"user"}]

Mounting(id, refs) == [Node(id) EXCEPT !.subagents = refs]

Of(nodes) == [root |-> "a", agents |-> nodes]

(* Every graph of three agents with up to two references each, and those   *)
(* of four where the root mounts two.                                      *)
Three == LET refs == BoundedSeq({"a", "b", "c"}, 2) IN
    {Of(<<Mounting("a", p), Mounting("b", q), Mounting("c", r)>>) : p, q, r \in refs}

RefsOf(id) == {s \in BoundedSeq({"a", "b", "c", "d"} \ {id}, 2) : IsInjective(s)}
Four == {Of(<<Mounting("a", <<"b", "c">>), Mounting("b", p), Mounting("c", q), Mounting("d", r)>>) :
            p \in RefsOf("b"), q \in RefsOf("c"), r \in RefsOf("d")}

(* Malformed otherwise.                                                    *)
Odd == {Of(<<Node("b")>>), Of(<<Node("a"), Node("a")>>),
        Of(<<[Node("a") EXCEPT !.globals = {}]>>), Of(<<[Node("a") EXCEPT !.prompt = FALSE]>>),
        Of(<<Mounting("a", <<"x">>)>>),
        Of(<<Node("a"), [Node("b") EXCEPT !.globals = {"effort"}]>>)}

Declarations == [name : {"n"}, url : {"u", "v"}, hash : {<<"h", "h">>, <<"h", "sha256:h">>, <<"k", "k">>}]
Lists == {<<>>} \cup {<<d>> : d \in Declarations}
         \cup {<<[name |-> "m", url |-> "u", hash |-> <<"k", "k">>], d>> : d \in Declarations}

Sharing ==
    {Of(<<[Node("a") EXCEPT !.tools = p], [Node("b") EXCEPT !.tools = q]>>) : p, q \in Lists}
    \cup {Of(<<[Node("a") EXCEPT !.skills = p, !.settings = s], [Node("b") EXCEPT !.skills = q]>>) :
            p, q \in Lists, s \in {{}, {"user"}}}

Keyed == {Of(<<[Node("a") EXCEPT !.globals = {"model"} \cup g], Node("b")>>) :
            g \in SUBSET {"maxSessionQueries", "effort", "thinking"}}

Latest == [tag |-> NoTag, assume |-> TRUE]
Tags == {<<2, n>> : n \in {3, 4, 5, 6, 8, 9, 10}} \cup {<<1, 9>>, <<3, 0>>, NoTag, BadTag}

MCCalls ==
    [req : Three \cup Four \cup Odd \cup Sharing, image : {Latest}]
    \cup [req : Keyed, image : [tag : Tags, assume : BOOLEAN]]
================================================================================
