----------------------------- MODULE SkillArchive -----------------------------
(***************************************************************************)
(* What the skill installer makes of a zip: extraction entry by entry      *)
(* under three limits, then the collapse of a redundant wrapper directory. *)
(* It happens in a staging directory of its own, so it is a function of    *)
(* the archive and of the skill's name.                                    *)
(***************************************************************************)
EXTENDS Naturals, Sequences, FiniteSets, SequencesExt

CONSTANTS
    MaxFiles,     \* ExtractMaxFiles
    MaxEntry,     \* ZipEntryMaxBytes
    MaxTotal      \* ExtractMaxBytes

ASSUME ExtractLimitsAssumption == {MaxFiles, MaxEntry, MaxTotal} \subseteq Nat \ {0}

(* An archive is [zip, bytes, entries]: whether it is a zip at all, its    *)
(* size, and its entries in order.  Of an entry:                           *)
(*   path     the segments of its cleaned name;                            *)
(*   escapes  that name is absolute, has a drive letter or goes up out of  *)
(*            the destination;                                             *)
(*   dotted   it only begins with two dots, as "..foo" does;               *)
(*   dir      it is a directory, with nothing to copy;                     *)
(*   broken   no file can be made under its name (too long, a NUL), or its *)
(*            data cannot be opened or read to the end;                    *)
(*   bytes    what is read of it before it ends or breaks.                 *)
Entry == {e \in [path : Seq(STRING), escapes : BOOLEAN, dotted : BOOLEAN,
                 dir : BOOLEAN, broken : BOOLEAN, bytes : Nat] :
             e.dir => e.bytes = 0}

WellFormed(z) == z.zip \in BOOLEAN /\ z.entries \in Seq(Entry)

Marker == <<".sha256">>

Dir == 0          \* what a tree has at a directory; at a file, the entry's index

EmptyTree == [q \in {<<>>} |-> Dir]

(* MkdirAll finds a file on the way, or a file and a directory share a     *)
(* name.                                                                   *)
Blocked(tree, e) ==
    \/ \E q \in DOMAIN tree : tree[q] # Dir /\ IsStrictPrefix(q, e.path)
    \/ e.path \in DOMAIN tree /\ (tree[e.path] = Dir) # e.dir

(* The checks of one entry, in their order (an entry that cannot be opened *)
(* counts as blocked if its name is: both are plain errors).  The test on  *)
(* the joined path is HasPrefix(rel, ".."), which a dotted name meets too. *)
EntryError(s, e) ==
    IF s.count >= MaxFiles THEN "size"
    ELSE IF e.escapes \/ e.path = Marker \/ e.dotted THEN "slip"
    ELSE IF Blocked(s.tree, e) THEN "layout"
    ELSE IF e.bytes > MaxEntry \/ s.bytes + e.bytes > MaxTotal THEN "size"
    ELSE IF e.broken THEN "broken"
    ELSE "none"

(* Directories on the way are made; a file of the same name is truncated.  *)
WithEntry(tree, e, i) ==
    [q \in DOMAIN tree \cup Prefixes(e.path) |->
        IF q = e.path /\ ~e.dir THEN i
        ELSE IF q \in DOMAIN tree THEN tree[q] ELSE Dir]

ExtractEntry(s, e, i) ==
    IF s.error # "none" THEN s
    ELSE IF EntryError(s, e) # "none" THEN [s EXCEPT !.error = EntryError(s, e)]
    ELSE [error |-> "none", count |-> s.count + 1, bytes |-> s.bytes + e.bytes,
          tree  |-> WithEntry(s.tree, e, i)]

(* What extraction has come to after each entry.                           *)
Extraction(z) ==
    LET state[i \in 0..Len(z.entries)] ==
          IF i = 0
          THEN [error |-> IF z.zip THEN "none" ELSE "layout",
                count |-> 0, bytes |-> 0, tree |-> EmptyTree]
          ELSE ExtractEntry(state[i - 1], z.entries[i], i)
    IN state

ExtractZip(z) == Extraction(z)[Len(z.entries)]

-----------------------------------------------------------------------------
(* stripRedundantTopLevelDir.                                              *)

Wrapped(tree, name) ==
    {q \in DOMAIN tree : Len(q) = 1} = {<<name>>} /\ tree[<<name>>] = Dir

Stripped(tree) ==
    [q \in {Tail(p) : p \in DOMAIN tree \ {<<>>}} |->
        tree[CHOOSE p \in DOMAIN tree \ {<<>>} : Tail(p) = q]]

(* An inner entry with the wrapper's own name cannot be moved onto it.     *)
Collapse(tree, name) ==
    IF ~Wrapped(tree, name) THEN [error |-> "none", tree |-> tree]
    ELSE IF <<name, name>> \in DOMAIN tree THEN [error |-> "layout", tree |-> tree]
    ELSE [error |-> "none", tree |-> Stripped(tree)]

(* The hash marker is written over an entry that the collapse has moved to *)
(* its name; it cannot be written over a directory.                        *)
Unpack(z, name) ==
    LET x == ExtractZip(z)  c == Collapse(x.tree, name) IN
    IF x.error # "none" THEN [error |-> x.error, files |-> {}]
    ELSE IF c.error # "none" THEN [error |-> c.error, files |-> {}]
    ELSE IF Marker \in DOMAIN c.tree /\ c.tree[Marker] = Dir
         THEN [error |-> "layout", files |-> {}]
    ELSE [error |-> "none",
          files |-> {<<q, c.tree[q]>> : q \in {p \in DOMAIN c.tree \ {Marker} : c.tree[p] # Dir}}]

-----------------------------------------------------------------------------
(* The same said of the archive as a whole, for the properties.            *)

Sums(z) ==
    LET sum[i \in 0..Len(z.entries)] ==
          IF i = 0 THEN 0 ELSE sum[i - 1] + z.entries[i].bytes
    IN sum

Total(z) == Sums(z)[Len(z.entries)]

(* Within the limits.                                                      *)
Fits(z) ==
    /\ Len(z.entries) <= MaxFiles
    /\ Total(z) <= MaxTotal
    /\ \A i \in DOMAIN z.entries : z.entries[i].bytes <= MaxEntry

(* Every name inside, and none the marker's.                               *)
Inside(z) == \A i \in DOMAIN z.entries : ~z.entries[i].escapes /\ z.entries[i].path # Marker

Dotted(z) == \E i \in DOMAIN z.entries : z.entries[i].dotted

Broken(z) == \E i \in DOMAIN z.entries : z.entries[i].broken

(* No name is both a file's and a directory's.                             *)
Consistent(z) ==
    /\ z.zip
    /\ \A i, j \in DOMAIN z.entries :
          LET e == z.entries[i]  f == z.entries[j] IN
          ~e.dir => /\ e.path # <<>>
                    /\ ~IsStrictPrefix(e.path, f.path)
                    /\ e.path = f.path => ~f.dir

(* Everything is below a directory of the skill's name.                    *)
InWrapper(z, name) ==
    LET inner == {i \in DOMAIN z.entries : z.entries[i].path # <<>>} IN
    /\ inner # {}
    /\ \A i \in inner : LET e == z.entries[i] IN
          Head(e.path) = name /\ (Len(e.path) > 1 \/ e.dir)

Below(z, q) == \E i \in DOMAIN z.entries : IsPrefix(q, z.entries[i].path)

(* The wrapper holds an entry of its own name, or something is below a     *)
(* directory of the marker's name.                                         *)
NameTaken(z, name) ==
    IF InWrapper(z, name)
    THEN \/ Below(z, <<name, name>>)
         \/ \E i \in DOMAIN z.entries : LET e == z.entries[i] IN
               /\ IsPrefix(<<name>> \o Marker, e.path)
               /\ e.dir \/ Len(e.path) > 2
    ELSE Below(z, Marker)

(* The files an install is to leave, by the installer's own comment: of    *)
(* each name the last entry, a wrapper of the skill's name collapsed       *)
(* (the repository's README says "verbatim", which this is not).           *)
FilesOf(z, name) ==
    LET files == {i \in DOMAIN z.entries :
                     /\ ~z.entries[i].dir
                     /\ \A j \in DOMAIN z.entries :
                           j > i => z.entries[j].path # z.entries[i].path}
        at(i) == IF InWrapper(z, name) THEN Tail(z.entries[i].path)
                                       ELSE z.entries[i].path
    IN {<<at(i), i>> : i \in {k \in files : at(k) # Marker}}

(* Extraction leaves the files it should, of an archive that it can read   *)
(* and that keeps to the limits and to its directory, or blames what is    *)
(* wrong with it; of the names that stay inside it refuses the dotted.     *)
UnpacksRight(z, name) ==
    LET u == Unpack(z, name) IN
    /\ u.error \in {"none", "slip", "size", "layout", "broken"}
    /\ u.error = "none" =>
          Fits(z) /\ Inside(z) /\ ~Broken(z) /\ u.files = FilesOf(z, name)
    /\ u.error = "slip" => ~Inside(z) \/ Dotted(z)
    /\ u.error = "size" => ~Fits(z)
    /\ u.error = "layout" => ~Consistent(z) \/ NameTaken(z, name)
    /\ u.error = "broken" => Broken(z)
=============================================================================
