-------------------------- MODULE MCArtifactClosure --------------------------
(* Instances of ArtifactClosure for TLC.  Sizes are in reads.               *)
EXTENDS ArtifactClosure, TLC

File(path, n)  == [path |-> path, escapes |-> FALSE, dotted |-> FALSE,
                   dir |-> FALSE, broken |-> FALSE, bytes |-> n]
Folder(path)   == [File(path, 0) EXCEPT !.dir = TRUE]
Up(path)       == [File(path, 1) EXCEPT !.escapes = TRUE]
TwoDots(path)  == [File(path, 1) EXCEPT !.dotted = TRUE]
Corrupt(path)  == [File(path, 1) EXCEPT !.broken = TRUE]
ZipOf(n, es)     == [zip |-> TRUE, bytes |-> n, entries |-> es]

One == [id |-> 1, bytes |-> 1]
Two == [id |-> 2, bytes |-> 1]

(* As the CLI packs it, with a marker of its own inside.                    *)
Packed == ZipOf(1, <<Folder(<<"s">>), File(<<"s", "f">>, 1), File(<<"s", ".sha256">>, 1)>>)
(* At the limits, a name twice.                                             *)
Flat == ZipOf(1, <<File(<<"f">>, 1), File(<<"f">>, 1)>>)
Colliding == ZipOf(1, <<File(<<"s", "s">>, 1), File(<<"s", "f">>, 1)>>)
Escaping == ZipOf(1, <<File(<<"f">>, 1), Up(<<"f">>)>>)
DottedName == ZipOf(1, <<TwoDots(<<"..f">>)>>)
Damaged == ZipOf(1, <<File(<<"f">>, 1), Corrupt(<<"g">>)>>)
Garbage == [zip |-> FALSE, bytes |-> 2, entries |-> <<>>]
Empty == [zip |-> FALSE, bytes |-> 0, entries |-> <<>>]

MCToolFiles == {One, Two}
MCArchives == {Packed, Flat, Colliding, Escaping, DottedName, Damaged, Garbage, Empty}
MCStrays == {Garbage, Empty, Flat}

Tool(ext, file) == [name |-> "t", ext |-> ext, hash |-> file]
Skill(zip) == [name |-> "s", hash |-> zip]

Agent(name, ts, ss) == [name |-> name, tools |-> ts, skills |-> ss]

(* A shared tool with two file names, and updates of both artifacts.        *)
MCGraphs == {
    <<Agent("a", <<Tool(".ts", One)>>, <<Skill(Packed)>>), Agent("b", <<Tool(".mjs", One)>>, <<>>)>>,
    <<Agent("a", <<Tool(".ts", Two)>>, <<Skill(Flat)>>)>>,
    <<Agent("a", <<>>, <<Skill(Colliding)>>)>>,
    <<Agent("a", <<>>, <<Skill(Escaping)>>)>>,
    <<Agent("a", <<>>, <<Skill(Damaged)>>)>>}

MCDefault == [kind \in Kinds |->
    [min |-> IF kind = "tool" THEN 1 ELSE 0, max |-> 1, timeout |-> 1]]
MCGiven == [kind \in Kinds |-> [MCDefault[kind] EXCEPT !.timeout = 0]]

(* What UnpackIsRight proves of every archive, evaluated for the instance's *)
(* and for every archive of up to three entries with these names, and of   *)
(* entries that are too large, leave, begin with two dots or are broken.    *)
ASSUME InstanceUnpacks == \A z \in Archives, name \in SkillNames : UnpacksRight(z, name)

SmallPaths == {<<>>, <<"f">>, <<"s">>, <<"s", "f">>, <<"s", "s">>, Marker,
               <<"s">> \o Marker, <<"s">> \o Marker \o <<"f">>}
SmallEntries ==
    {File(q, 1) : q \in SmallPaths} \cup {Folder(q) : q \in SmallPaths}
    \cup {File(<<"f">>, 2), Up(<<"f">>), TwoDots(<<"..f">>), Corrupt(<<"f">>)}

ASSUME SmallArchivesUnpack ==
    \A n \in 0..3 : \A es \in [1..n -> SmallEntries] :
       UnpacksRight(ZipOf(1, es), "s")
=============================================================================
