--------------------------- MODULE SkillArchiveProofs ---------------------------
(***************************************************************************)
(* Extraction is right for every archive and every limit: it refuses an    *)
(* archive for what is wrong with it, or leaves just the files it should.  *)
(***************************************************************************)
EXTENDS SkillArchive, SequenceTheorems, WellFoundedInduction, TLAPS

LEMMA LeastNat ==
    ASSUME NEW T, T \subseteq Nat, T # {}
    PROVE  \E x \in T : \A y \in T : ~(y < x)
<1>1. PICK x \in T : \A y \in T : ~(<<y, x>> \in OpToRel(<, Nat))
    BY WFMin, NatLessThanWellFounded
<1>2. \A y \in T : y < x => <<y, x>> \in OpToRel(<, Nat)
    BY DEF OpToRel
<1> QED BY <1>1, <1>2

(* Induction along the entries, with a set for the property.               *)
LEMMA EntryInduction ==
    ASSUME NEW n \in Nat, NEW S, 0 \in S, \A i \in 1..n : i - 1 \in S => i \in S
    PROVE  0..n \subseteq S
<1> SUFFICES ASSUME (0..n) \ S # {} PROVE FALSE
    OBVIOUS
<1> DEFINE T == (0..n) \ S
<1>1. T \subseteq Nat /\ T # {}
    OBVIOUS
<1> HIDE DEF T
<1>2. PICK m \in T : \A y \in T : ~(y < m)
    BY <1>1, LeastNat
<1>3. m \in 1..n /\ m \notin S
    BY <1>2 DEF T
<1>4. m - 1 \in S
    BY <1>2, <1>3 DEF T
<1> QED BY <1>3, <1>4

-----------------------------------------------------------------------------
(* The two loops are what they say.                                        *)

LEMMA SumsUnroll ==
    ASSUME NEW z, z.entries \in Seq(Entry)
    PROVE  Sums(z) = [i \in 0..Len(z.entries) |->
                        IF i = 0 THEN 0 ELSE Sums(z)[i - 1] + z.entries[i].bytes]
<1> DEFINE n == Len(z.entries)
           Rec(g, m) == g = [i \in 0..m |-> IF i = 0 THEN 0 ELSE g[i - 1] + z.entries[i].bytes]
           S == {m \in 0..n : \E g : Rec(g, m)}
<1>1. n \in Nat
    OBVIOUS
<1>2. 0 \in S
  <2>1. Rec([i \in 0..0 |-> 0], 0)
      OBVIOUS
  <2> HIDE DEF Rec
  <2> QED BY <1>1, <2>1
<1>3. ASSUME NEW m \in 1..n, m - 1 \in S PROVE m \in S
  <2>1. PICK g : Rec(g, m - 1)
      BY <1>3
  <2> DEFINE h == [i \in 0..m |-> IF i < m THEN g[i] ELSE g[m - 1] + z.entries[m].bytes]
  <2>2. ASSUME NEW i \in 0..m
        PROVE  h[i] = IF i = 0 THEN 0 ELSE h[i - 1] + z.entries[i].bytes
    <3>1. CASE i = 0
        BY <1>1, <2>1, <3>1
    <3>2. CASE i # 0 /\ i < m
        BY <1>1, <2>1, <3>2
    <3>3. CASE i = m
        BY <1>1, <3>3
    <3> QED BY <1>1, <3>1, <3>2, <3>3
  <2>3. Rec(h, m)
      BY <2>2
  <2> HIDE DEF Rec, h
  <2> QED BY <1>1, <2>3
<1>4. n \in S
  <2> HIDE DEF S, n
  <2> QED BY <1>1, <1>2, <1>3, EntryInduction
<1>5. PICK g : Rec(g, n)
    BY <1>4
<1> QED BY <1>5 DEF Sums

LEMMA ExtractionUnroll ==
    ASSUME NEW z, z.entries \in Seq(Entry)
    PROVE  Extraction(z) = [i \in 0..Len(z.entries) |->
               IF i = 0
               THEN [error |-> IF z.zip THEN "none" ELSE "layout",
                     count |-> 0, bytes |-> 0, tree |-> EmptyTree]
               ELSE ExtractEntry(Extraction(z)[i - 1], z.entries[i], i)]
<1> DEFINE n == Len(z.entries)
           start == [error |-> IF z.zip THEN "none" ELSE "layout",
                     count |-> 0, bytes |-> 0, tree |-> EmptyTree]
           Rec(g, m) == g = [i \in 0..m |-> IF i = 0 THEN start
                                           ELSE ExtractEntry(g[i - 1], z.entries[i], i)]
           S == {m \in 0..n : \E g : Rec(g, m)}
<1>1. n \in Nat
    OBVIOUS
<1> HIDE DEF start
<1>2. 0 \in S
  <2>1. Rec([i \in 0..0 |-> start], 0)
      OBVIOUS
  <2> HIDE DEF Rec
  <2> QED BY <1>1, <2>1
<1>3. ASSUME NEW m \in 1..n, m - 1 \in S PROVE m \in S
  <2>1. PICK g : Rec(g, m - 1)
      BY <1>3
  <2> DEFINE h == [i \in 0..m |-> IF i < m THEN g[i]
                                  ELSE ExtractEntry(g[m - 1], z.entries[m], m)]
  <2>2. ASSUME NEW i \in 0..m
        PROVE  h[i] = IF i = 0 THEN start ELSE ExtractEntry(h[i - 1], z.entries[i], i)
    <3>1. CASE i = 0
        BY <1>1, <2>1, <3>1
    <3>2. CASE i # 0 /\ i < m
        BY <1>1, <2>1, <3>2
    <3>3. CASE i = m
        BY <1>1, <3>3
    <3> QED BY <1>1, <3>1, <3>2, <3>3
  <2>3. Rec(h, m)
      BY <2>2
  <2> HIDE DEF Rec, h
  <2> QED BY <1>1, <2>3
<1>4. n \in S
  <2> HIDE DEF S, n
  <2> QED BY <1>1, <1>2, <1>3, EntryInduction
<1>5. PICK g : Rec(g, n)
    BY <1>4
<1> QED BY <1>5 DEF Extraction, start

LEMMA EntryFacts ==
    ASSUME NEW z, z.entries \in Seq(Entry)
    PROVE  /\ Len(z.entries) \in Nat
           /\ DOMAIN z.entries = 1..Len(z.entries)
           /\ \A k \in 1..Len(z.entries) :
                /\ z.entries[k].path \in Seq(STRING)
                /\ z.entries[k].escapes \in BOOLEAN /\ z.entries[k].dotted \in BOOLEAN
                /\ z.entries[k].broken \in BOOLEAN
                /\ z.entries[k].dir \in BOOLEAN
                /\ z.entries[k].bytes \in Nat
<1>1. Len(z.entries) \in Nat /\ DOMAIN z.entries = 1..Len(z.entries)
    BY LenProperties
<1>2. ASSUME NEW k \in 1..Len(z.entries) PROVE z.entries[k] \in Entry
    BY ElementOfSeq
<1> QED BY <1>1, <1>2 DEF Entry

(* The sizes add up, and only upwards.                                     *)
LEMMA SumsFacts ==
    ASSUME NEW z, z.entries \in Seq(Entry)
    PROVE  /\ Sums(z)[0] = 0
           /\ \A i \in 1..Len(z.entries) : Sums(z)[i] = Sums(z)[i - 1] + z.entries[i].bytes
           /\ \A i \in 0..Len(z.entries) : Sums(z)[i] \in Nat /\ Sums(z)[i] <= Total(z)
<1> DEFINE n == Len(z.entries)
           s == Sums(z)
<1>1. n \in Nat /\ \A i \in 1..n : z.entries[i].bytes \in Nat
    BY EntryFacts
<1>2. s = [i \in 0..n |-> IF i = 0 THEN 0 ELSE s[i - 1] + z.entries[i].bytes]
    BY SumsUnroll
<1> HIDE DEF s, n
<1>3. s[0] = 0 /\ \A i \in 1..n : s[i] = s[i - 1] + z.entries[i].bytes
    BY <1>1, <1>2
<1> DEFINE S == {i \in 0..n : s[i] \in Nat /\ \A k \in 0..i : s[k] \in Nat /\ s[k] <= s[i]}
<1>4. 0 \in S
    BY <1>1, <1>3
<1>5. ASSUME NEW i \in 1..n, i - 1 \in S PROVE i \in S
  <2>1. s[i - 1] \in Nat /\ s[i] \in Nat /\ s[i - 1] <= s[i]
    <3>1. s[i - 1] \in Nat
        BY <1>5
    <3>2. s[i] = s[i - 1] + z.entries[i].bytes /\ z.entries[i].bytes \in Nat
        BY <1>1, <1>3
    <3> QED BY <3>1, <3>2
  <2>2. ASSUME NEW k \in 0..i PROVE s[k] \in Nat /\ s[k] <= s[i]
    <3>1. CASE k = i
        BY <2>1, <3>1
    <3>2. CASE k # i
      <4>1. k \in 0..(i - 1)
          BY <1>1, <3>2
      <4> QED BY <1>5, <2>1, <4>1
    <3> QED BY <3>1, <3>2
  <2> QED BY <1>1, <2>1, <2>2
<1>6. n \in S
  <2>1. n \in 0..n
      BY <1>1
  <2> HIDE DEF S
  <2> QED BY <2>1, <1>1, <1>4, <1>5, EntryInduction
<1> QED BY <1>3, <1>6 DEF Total, s, n

-----------------------------------------------------------------------------
(* Names and the directories above them.                                   *)

LEMMA PrefixFacts ==
    ASSUME NEW p \in Seq(STRING)
    PROVE  /\ <<>> \in Prefixes(p)
           /\ p \in Prefixes(p)
           /\ \A q \in Prefixes(p) : q \in Seq(STRING) /\ IsPrefix(q, p)
           /\ \A q \in Seq(STRING) : IsPrefix(q, p) => q \in Prefixes(p)
<1>1. Len(p) \in Nat /\ 0 \in 0..Len(p) /\ Len(p) \in 0..Len(p)
    OBVIOUS
<1>2. SubSeq(p, 1, 0) = <<>>
    BY SubSeqEmpty
<1>3. SubSeq(p, 1, Len(p)) = p
    BY SubSeqFull
<1>4. <<>> \in Prefixes(p)
    BY <1>1, <1>2 DEF Prefixes
<1>5. p \in Prefixes(p)
    BY <1>1, <1>3 DEF Prefixes
<1>6. ASSUME NEW q \in Prefixes(p) PROVE q \in Seq(STRING) /\ IsPrefix(q, p)
  <2>1. PICK l \in 0..Len(p) : q = SubSeq(p, 1, l)
      BY DEF Prefixes
  <2>2. q \in Seq(STRING) /\ Len(q) = l
      BY <1>1, <2>1
  <2>3. SubSeq(q, 1, Len(q)) = q
      BY <2>2, SubSeqFull
  <2> QED BY <1>1, <2>1, <2>2, <2>3 DEF IsPrefix
<1>7. ASSUME NEW q \in Seq(STRING), IsPrefix(q, p) PROVE q \in Prefixes(p)
  <2>1. SubSeq(q, 1, Len(q)) = q
      BY SubSeqFull
  <2>2. q = SubSeq(p, 1, Len(q)) /\ Len(q) \in 0..Len(p)
      BY <1>1, <1>7, <2>1 DEF IsPrefix
  <2> QED BY <2>2 DEF Prefixes
<1> QED BY <1>4, <1>5, <1>6, <1>7

(* A longer name and what it is below.                                     *)
LEMMA HeadFacts ==
    ASSUME NEW p \in Seq(STRING), NEW q \in Prefixes(p), q # <<>>
    PROVE  /\ p # <<>> /\ Head(q) = Head(p) /\ <<Head(p)>> \in Prefixes(p)
           /\ Len(q) = 1 => q = <<Head(p)>>
           /\ Len(q) \in 1..Len(p)
<1>1. q \in Seq(STRING) /\ IsPrefix(q, p)
    BY PrefixFacts
<1>2. PICK l \in 0..Len(p) : q = SubSeq(p, 1, l)
    BY DEF Prefixes
<1>3. Len(q) = l /\ l \in 1..Len(p)
    BY <1>1, <1>2
<1>4. p # <<>> /\ q[1] = p[1]
    BY <1>2, <1>3
<1>5. Head(q) = q[1] /\ Head(p) = p[1]
    BY <1>1, <1>3, <1>4
<1>6. SubSeq(p, 1, 1) = <<p[1]>>
  <2>1. 1 \in 1..Len(p) /\ p[1] \in STRING
      BY <1>3, ElementOfSeq
  <2>2. SubSeq(p, 1, 1) \in Seq(STRING) /\ Len(SubSeq(p, 1, 1)) = 1 /\ SubSeq(p, 1, 1)[1] = p[1]
      BY <2>1, SubSeqProperties
  <2> DEFINE a == SubSeq(p, 1, 1)
             b == <<p[1]>>
  <2>3. b \in Seq(STRING) /\ Len(b) = 1 /\ b[1] = p[1]
      BY <2>1
  <2> HIDE DEF a, b
  <2>4. \A i \in 1..Len(a) : a[i] = b[i]
      BY <2>2, <2>3 DEF a
  <2>5. a = b
      BY <2>2, <2>3, <2>4, SeqEqual DEF a
  <2> QED BY <2>5 DEF a, b
<1>7. <<Head(p)>> \in Prefixes(p)
    BY <1>3, <1>5, <1>6 DEF Prefixes
<1> QED BY <1>2, <1>3, <1>4, <1>5, <1>6, <1>7

(* The names of the first i entries, with what is above them.              *)
Taken(z, i) == {<<>>} \cup UNION {Prefixes(z.entries[k].path) : k \in 1..i}

LEMMA TakenFacts ==
    ASSUME NEW z, z.entries \in Seq(Entry), NEW i \in 0..Len(z.entries)
    PROVE  /\ \A q \in Taken(z, i) : q \in Seq(STRING)
           /\ \A q \in Taken(z, i) \ {<<>>} :
                \E k \in 1..i : q \in Prefixes(z.entries[k].path)
           /\ \A k \in 1..i : Prefixes(z.entries[k].path) \subseteq Taken(z, i)
           /\ \A k \in 1..i : z.entries[k].path \in Taken(z, i)
           /\ i < Len(z.entries) =>
                Taken(z, i + 1) = Taken(z, i) \cup Prefixes(z.entries[i + 1].path)
<1>1. Len(z.entries) \in Nat /\ i \in Nat
    OBVIOUS
<1>2. \A k \in 1..Len(z.entries) : z.entries[k].path \in Seq(STRING)
    BY EntryFacts
<1>3. \A k \in 1..i : z.entries[k].path \in Seq(STRING)
    BY <1>1, <1>2
<1>4. ASSUME NEW q \in Taken(z, i) PROVE q \in Seq(STRING)
  <2>1. CASE q = <<>>
      BY <2>1, EmptySeq
  <2>2. CASE q # <<>>
    <3>1. PICK k \in 1..i : q \in Prefixes(z.entries[k].path)
        BY <2>2 DEF Taken
    <3> QED BY <1>3, <3>1, PrefixFacts
  <2> QED BY <2>1, <2>2
<1>5. \A k \in 1..i : z.entries[k].path \in Taken(z, i)
    BY <1>3, PrefixFacts DEF Taken
<1>6. ASSUME i < Len(z.entries)
      PROVE  Taken(z, i + 1) = Taken(z, i) \cup Prefixes(z.entries[i + 1].path)
  <2>1. 1..(i + 1) = 1..i \cup {i + 1}
      BY <1>1
  <2> QED BY <2>1 DEF Taken
<1> QED BY <1>4, <1>5, <1>6 DEF Taken

(* What the entries so far have left: at a name, the last file of that     *)
(* name or, where only directories had it, a directory.                    *)
LastOf(z, i, q, m) ==
    /\ m \in 1..i
    /\ ~z.entries[m].dir /\ z.entries[m].path = q
    /\ \A k \in 1..i : k > m => z.entries[k].path # q

OnlyDirs(z, i, q) == \A k \in 1..i : z.entries[k].path = q => z.entries[k].dir

TreeRight(z, i, tree) ==
    /\ DOMAIN tree = Taken(z, i)
    /\ tree[<<>>] = Dir
    /\ \A q \in Taken(z, i) :
          \/ tree[q] = Dir /\ OnlyDirs(z, i, q)
          \/ tree[q] # Dir /\ LastOf(z, i, q, tree[q])

(* An entry that is not blocked keeps the tree right.                      *)
LEMMA TreeStep ==
    ASSUME NEW z, z.entries \in Seq(Entry), NEW i \in 1..Len(z.entries), NEW tree,
           TreeRight(z, i - 1, tree), ~Blocked(tree, z.entries[i])
    PROVE  TreeRight(z, i, WithEntry(tree, z.entries[i], i))
<1> DEFINE e == z.entries[i]
           new == WithEntry(tree, e, i)
<1>1. /\ i \in Nat /\ i - 1 \in 0..Len(z.entries) /\ i - 1 < Len(z.entries) /\ (i - 1) + 1 = i
      /\ i \in 0..Len(z.entries)
      /\ e.path \in Seq(STRING) /\ e.dir \in BOOLEAN
      /\ 1..i = 1..(i - 1) \cup {i} /\ i # Dir /\ Len(z.entries) \in Nat
    BY EntryFacts DEF Dir
<1>2. Taken(z, i) = Taken(z, i - 1) \cup Prefixes(e.path)
    BY <1>1, TakenFacts
<1>3. DOMAIN tree = Taken(z, i - 1) /\ <<>> \in Taken(z, i - 1) /\ tree[<<>>] = Dir
    BY DEF TreeRight, Taken
<1>4. DOMAIN new = Taken(z, i)
    BY <1>2, <1>3 DEF WithEntry
<1>5. \A q \in Taken(z, i) : new[q] = IF q = e.path /\ ~e.dir THEN i
                                      ELSE IF q \in Taken(z, i - 1) THEN tree[q] ELSE Dir
    BY <1>2, <1>3 DEF WithEntry
<1>6. e.path \in Taken(z, i - 1) => (tree[e.path] = Dir <=> e.dir)
    BY <1>1, <1>3 DEF Blocked
<1>7. \A k \in 1..(i - 1) : z.entries[k].path \in Taken(z, i - 1)
    BY <1>1, TakenFacts
<1> HIDE DEF new, e
<1>8. new[<<>>] = Dir
    BY <1>2, <1>3, <1>5, <1>6
<1>9. ASSUME NEW q \in Taken(z, i)
      PROVE  \/ new[q] = Dir /\ OnlyDirs(z, i, q)
             \/ new[q] # Dir /\ LastOf(z, i, q, new[q])
  <2>1. CASE q = e.path /\ ~e.dir
    <3>1. new[q] = i
        BY <1>5, <2>1
    <3>2. LastOf(z, i, q, i)
        BY <1>1, <2>1 DEF LastOf, e
    <3> QED BY <1>1, <3>1, <3>2
  <2>2. CASE ~(q = e.path /\ ~e.dir) /\ q \notin Taken(z, i - 1)
    <3>1. new[q] = Dir
        BY <1>5, <2>2
    <3>2. OnlyDirs(z, i, q)
        BY <1>1, <1>7, <2>2 DEF OnlyDirs, e
    <3> QED BY <3>1, <3>2
  <2>3. CASE ~(q = e.path /\ ~e.dir) /\ q \in Taken(z, i - 1)
    <3>1. new[q] = tree[q]
        BY <1>5, <2>3
    <3>2. CASE tree[q] = Dir /\ OnlyDirs(z, i - 1, q)
      <4>1. OnlyDirs(z, i, q)
          BY <1>1, <2>3, <3>2 DEF OnlyDirs, e
      <4> QED BY <3>1, <3>2, <4>1
    <3>3. CASE tree[q] # Dir /\ LastOf(z, i - 1, q, tree[q])
      <4>1. q # e.path
          BY <1>6, <2>3, <3>3
      <4>2. LastOf(z, i, q, tree[q])
          BY <1>1, <3>3, <4>1 DEF LastOf, e
      <4> QED BY <3>1, <3>3, <4>2
    <3> QED BY <2>3, <3>2, <3>3 DEF TreeRight
  <2> QED BY <2>1, <2>2, <2>3
<1> QED BY <1>4, <1>8, <1>9 DEF TreeRight, new, e

(* An entry is blocked only where a name is both a file's and a            *)
(* directory's.                                                            *)
LEMMA BlockedIsInconsistent ==
    ASSUME NEW z, z.entries \in Seq(Entry), NEW i \in 1..Len(z.entries), NEW tree,
           TreeRight(z, i - 1, tree), Blocked(tree, z.entries[i])
    PROVE  ~Consistent(z)
<1> SUFFICES ASSUME Consistent(z) PROVE FALSE
    OBVIOUS
<1> DEFINE e == z.entries[i]
<1>1. /\ i \in Nat /\ i - 1 \in 0..Len(z.entries) /\ Len(z.entries) \in Nat
      /\ e.path \in Seq(STRING) /\ e.dir \in BOOLEAN
      /\ \A k \in 1..(i - 1) : k \in 1..Len(z.entries)
      /\ \A k \in 1..Len(z.entries) : z.entries[k].path \in Seq(STRING)
    BY EntryFacts
<1>2. \A j, k \in 1..Len(z.entries) : ~z.entries[j].dir =>
          /\ z.entries[j].path # <<>>
          /\ ~IsStrictPrefix(z.entries[j].path, z.entries[k].path)
          /\ z.entries[j].path = z.entries[k].path => ~z.entries[k].dir
    BY EntryFacts DEF Consistent
<1>3. DOMAIN tree = Taken(z, i - 1)
    BY DEF TreeRight
<1> HIDE DEF e
<1>4. \A q \in Taken(z, i - 1) :
          \/ tree[q] = Dir /\ OnlyDirs(z, i - 1, q)
          \/ tree[q] # Dir /\ LastOf(z, i - 1, q, tree[q])
    BY DEF TreeRight
<1>5. CASE \E q \in DOMAIN tree : tree[q] # Dir /\ IsStrictPrefix(q, e.path)
  <2>1. PICK q \in Taken(z, i - 1) : tree[q] # Dir /\ IsStrictPrefix(q, e.path)
      BY <1>3, <1>5
  <2>2. LastOf(z, i - 1, q, tree[q])
      BY <1>4, <2>1
  <2> QED BY <1>1, <1>2, <2>1, <2>2 DEF LastOf, e
<1>6. CASE e.path \in DOMAIN tree /\ tree[e.path] = Dir /\ ~e.dir
  <2>1. OnlyDirs(z, i - 1, e.path) /\ e.path \in Taken(z, i - 1)
      BY <1>3, <1>4, <1>6
  <2>2. e.path # <<>>
      BY <1>2, <1>6 DEF e
  <2>3. PICK k \in 1..(i - 1) : e.path \in Prefixes(z.entries[k].path)
      BY <2>1, <2>2 DEF Taken
  <2>4. IsPrefix(e.path, z.entries[k].path)
      BY <1>1, <2>3, PrefixFacts
  <2>5. CASE e.path = z.entries[k].path
      BY <1>1, <1>2, <1>6, <2>1, <2>5 DEF OnlyDirs, e
  <2>6. CASE e.path # z.entries[k].path
      BY <1>1, <1>2, <1>6, <2>4, <2>6 DEF IsStrictPrefix, e
  <2> QED BY <2>5, <2>6
<1>7. CASE e.path \in DOMAIN tree /\ tree[e.path] # Dir /\ e.dir
  <2>1. LastOf(z, i - 1, e.path, tree[e.path])
      BY <1>3, <1>4, <1>7
  <2> QED BY <1>1, <1>2, <1>7, <2>1 DEF LastOf, e
<1> QED BY <1>1, <1>5, <1>6, <1>7 DEF Blocked, e

-----------------------------------------------------------------------------
(* Extraction has come so far without fault, or has met the archive's.     *)

Blameless(z, i) ==
    /\ z.zip /\ i <= MaxFiles /\ Sums(z)[i] <= MaxTotal
    /\ \A k \in 1..i : LET e == z.entries[k] IN
          ~e.escapes /\ e.path # Marker /\ ~e.broken /\ e.bytes <= MaxEntry

StateRight(z, i, s) ==
    \/ /\ s = [error |-> "none", count |-> i, bytes |-> Sums(z)[i], tree |-> s.tree]
       /\ TreeRight(z, i, s.tree)
       /\ Blameless(z, i)
    \/ s.error = "slip" /\ (~Inside(z) \/ Dotted(z))
    \/ s.error = "size" /\ ~Fits(z)
    \/ s.error = "layout" /\ ~Consistent(z)
    \/ s.error = "broken" /\ Broken(z)

LEMMA StateStart ==
    ASSUME NEW z, WellFormed(z)
    PROVE  StateRight(z, 0, Extraction(z)[0])
<1> DEFINE s == [error |-> IF z.zip THEN "none" ELSE "layout",
                 count |-> 0, bytes |-> 0, tree |-> EmptyTree]
<1>1. z.entries \in Seq(Entry) /\ z.zip \in BOOLEAN /\ Len(z.entries) \in Nat
    BY EntryFacts DEF WellFormed
<1>2. Extraction(z)[0] = s
  <2>1. 0 \in 0..Len(z.entries)
      BY <1>1
  <2> QED BY <1>1, <2>1, ExtractionUnroll
<1>3. CASE z.zip
  <2>1. TreeRight(z, 0, EmptyTree)
    <3>1. Taken(z, 0) = {<<>>}
        BY DEF Taken
    <3> QED BY <3>1 DEF TreeRight, EmptyTree, OnlyDirs
  <2>2. Blameless(z, 0)
      BY <1>1, <1>3, SumsFacts, ExtractLimitsAssumption DEF Blameless
  <2>3. s = [error |-> "none", count |-> 0, bytes |-> Sums(z)[0], tree |-> s.tree] /\ s.tree = EmptyTree
      BY <1>1, <1>3, SumsFacts
  <2> QED BY <1>2, <2>1, <2>2, <2>3 DEF StateRight
<1>4. CASE ~z.zip
  <2>1. s.error = "layout" /\ ~Consistent(z)
      BY <1>4 DEF Consistent
  <2> QED BY <1>2, <2>1 DEF StateRight
<1> QED BY <1>1, <1>3, <1>4

LEMMA StateStep ==
    ASSUME NEW z, WellFormed(z), NEW i \in 1..Len(z.entries), NEW s, StateRight(z, i - 1, s)
    PROVE  StateRight(z, i, ExtractEntry(s, z.entries[i], i))
<1> DEFINE e == z.entries[i]
           r == ExtractEntry(s, e, i)
<1>1. /\ z.entries \in Seq(Entry) /\ Len(z.entries) \in Nat
      /\ i \in Nat /\ i - 1 \in 0..Len(z.entries) /\ i \in 0..Len(z.entries)
      /\ i \in DOMAIN z.entries
      /\ e.path \in Seq(STRING) /\ e.dir \in BOOLEAN /\ e.escapes \in BOOLEAN /\ e.dotted \in BOOLEAN
      /\ e.broken \in BOOLEAN /\ e.bytes \in Nat
      /\ 1..i = 1..(i - 1) \cup {i}
    BY EntryFacts DEF WellFormed
<1>2. Sums(z)[i] = Sums(z)[i - 1] + e.bytes /\ Sums(z)[i] \in Nat /\ Sums(z)[i] <= Total(z)
    BY <1>1, SumsFacts
<1>3. MaxFiles \in Nat /\ MaxEntry \in Nat /\ MaxTotal \in Nat
    BY ExtractLimitsAssumption
<1>4. CASE s.error # "none"
  <2>1. r = s
      BY <1>4 DEF ExtractEntry
  <2> QED BY <1>4, <2>1 DEF StateRight
<1>5. CASE s.error = "none"
  <2>1. /\ s = [error |-> "none", count |-> i - 1, bytes |-> Sums(z)[i - 1], tree |-> s.tree]
        /\ TreeRight(z, i - 1, s.tree)
        /\ Blameless(z, i - 1)
      BY <1>5 DEF StateRight
  <2>2. s.count = i - 1 /\ s.bytes = Sums(z)[i - 1]
      BY <2>1
  <2> HIDE DEF r, e
  <2>3. CASE EntryError(s, e) = "none"
    <3>1. ~(s.count >= MaxFiles) /\ ~e.escapes /\ e.path # Marker /\ ~Blocked(s.tree, e)
          /\ ~(e.bytes > MaxEntry) /\ ~(s.bytes + e.bytes > MaxTotal) /\ ~e.broken
        BY <2>3 DEF EntryError
    <3>2. TreeRight(z, i, WithEntry(s.tree, e, i))
        BY <1>1, <2>1, <3>1, TreeStep DEF e
    <3>3. Blameless(z, i)
      <4>1. i <= MaxFiles /\ Sums(z)[i] <= MaxTotal /\ e.bytes <= MaxEntry
          BY <1>1, <1>2, <1>3, <2>2, <3>1
      <4> QED BY <1>1, <2>1, <3>1, <4>1 DEF Blameless, e
    <3>4. r = [error |-> "none", count |-> s.count + 1, bytes |-> s.bytes + e.bytes,
               tree  |-> WithEntry(s.tree, e, i)]
        BY <1>5, <2>3 DEF ExtractEntry, r
    <3>5. r.tree = WithEntry(s.tree, e, i) /\ s.count + 1 = i /\ s.bytes + e.bytes = Sums(z)[i]
        BY <1>1, <1>2, <2>2, <3>4
    <3>6. r = [error |-> "none", count |-> i, bytes |-> Sums(z)[i], tree |-> r.tree]
        BY <3>4, <3>5
    <3> QED BY <3>2, <3>3, <3>5, <3>6 DEF StateRight, r, e
  <2>4. CASE EntryError(s, e) # "none"
    <3>1. r = [s EXCEPT !.error = EntryError(s, e)]
        BY <1>5, <2>4 DEF ExtractEntry, r
    <3>2. r.error = EntryError(s, e)
        BY <2>1, <3>1
    <3>3. CASE s.count >= MaxFiles
      <4>1. r.error = "size" /\ ~(Len(z.entries) <= MaxFiles)
          BY <1>1, <1>3, <2>2, <3>2, <3>3 DEF EntryError
      <4> QED BY <4>1 DEF StateRight, Fits, r, e
    <3> DEFINE slips == e.escapes \/ e.path = Marker \/ e.dotted
               large == e.bytes > MaxEntry \/ s.bytes + e.bytes > MaxTotal
    <3>4. CASE ~(s.count >= MaxFiles) /\ slips
      <4>1. r.error = "slip"
          BY <3>2, <3>4 DEF EntryError
      <4>2. ~Inside(z) \/ Dotted(z)
          BY <1>1, <3>4 DEF Inside, Dotted, e
      <4> QED BY <4>1, <4>2 DEF StateRight, r, e
    <3>5. CASE ~(s.count >= MaxFiles) /\ ~slips /\ Blocked(s.tree, e)
      <4>1. r.error = "layout"
          BY <3>2, <3>5 DEF EntryError
      <4>2. ~Consistent(z)
          BY <1>1, <2>1, <3>5, BlockedIsInconsistent DEF e
      <4> QED BY <4>1, <4>2 DEF StateRight, r, e
    <3>6. CASE ~(s.count >= MaxFiles) /\ ~slips /\ ~Blocked(s.tree, e) /\ large
      <4>1. r.error = "size"
          BY <3>2, <3>6 DEF EntryError
      <4>2. ~Fits(z)
        <5>1. CASE e.bytes > MaxEntry
            BY <1>1, <1>3, <5>1 DEF Fits, e
        <5>2. CASE s.bytes + e.bytes > MaxTotal
          <6>1. Total(z) \in Nat
              BY <1>1, SumsFacts DEF Total
          <6> QED BY <1>2, <1>3, <2>2, <5>2, <6>1 DEF Fits
        <5> QED BY <3>6, <5>1, <5>2
      <4> QED BY <4>1, <4>2 DEF StateRight, r, e
    <3>7. CASE ~(s.count >= MaxFiles) /\ ~slips /\ ~Blocked(s.tree, e) /\ ~large
      <4>1. e.broken /\ r.error = "broken"
          BY <2>4, <3>2, <3>7 DEF EntryError
      <4>2. Broken(z)
          BY <1>1, <4>1 DEF Broken, e
      <4> QED BY <4>1, <4>2 DEF StateRight, r, e
    <3> QED BY <3>3, <3>4, <3>5, <3>6, <3>7
  <2> QED BY <2>3, <2>4
<1> QED BY <1>4, <1>5

LEMMA ExtractionRight ==
    ASSUME NEW z, WellFormed(z)
    PROVE  StateRight(z, Len(z.entries), ExtractZip(z))
<1> DEFINE n == Len(z.entries)
           S == {i \in 0..n : StateRight(z, i, Extraction(z)[i])}
<1>1. z.entries \in Seq(Entry) /\ n \in Nat
    BY EntryFacts DEF WellFormed
<1>2. 0 \in S
    BY <1>1, StateStart
<1>3. ASSUME NEW i \in 1..n, i - 1 \in S PROVE i \in S
  <2>1. Extraction(z)[i] = ExtractEntry(Extraction(z)[i - 1], z.entries[i], i)
    <3>1. i \in 0..n /\ i # 0
        BY <1>1
    <3> QED BY <1>1, <3>1, ExtractionUnroll
  <2>2. StateRight(z, i - 1, Extraction(z)[i - 1])
      BY <1>3
  <2>3. StateRight(z, i, Extraction(z)[i])
      BY <2>1, <2>2, StateStep
  <2> QED BY <1>1, <2>3
<1>4. n \in S
  <2>1. n \in 0..n
      BY <1>1
  <2> HIDE DEF S, n
  <2> QED BY <1>1, <1>2, <1>3, <2>1, EntryInduction
<1> QED BY <1>4 DEF ExtractZip

-----------------------------------------------------------------------------
(* The collapse of the wrapper and the files that are left.                *)

LEMMA TailInjective ==
    ASSUME NEW p \in Seq(STRING), NEW q \in Seq(STRING), p # <<>>, q # <<>>,
           Head(p) = Head(q), Tail(p) = Tail(q)
    PROVE  p = q
<1>1. /\ Len(p) \in Nat \ {0} /\ Len(q) \in Nat \ {0}
      /\ Len(Tail(p)) = Len(p) - 1 /\ Len(Tail(q)) = Len(q) - 1
    BY HeadTailProperties, EmptySeq
<1>2. Len(p) = Len(q)
  <2>1. Len(Tail(p)) = Len(Tail(q))
      OBVIOUS
  <2>2. Len(p) - 1 = Len(q) - 1
      BY <1>1, <2>1, Zenon
  <2>3. Len(p) \in Nat /\ Len(q) \in Nat
      OBVIOUS
  <2> DEFINE a == Len(p)  b == Len(q)
  <2> HIDE DEF a, b
  <2>4. a = b
      BY <2>2, <2>3 DEF a, b
  <2> QED BY <2>4 DEF a, b
<1>3. ASSUME NEW i \in 1..Len(p) PROVE p[i] = q[i]
  <2>1. CASE i = 1
      BY <2>1
  <2>2. CASE i # 1
    <3>1. i - 1 \in 1..Len(Tail(p)) /\ i - 1 \in 1..Len(Tail(q)) /\ (i - 1) + 1 = i
        BY <1>1, <1>2, <2>2
    <3>2. Tail(p)[i - 1] = p[(i - 1) + 1] /\ Tail(q)[i - 1] = q[(i - 1) + 1]
        BY <3>1, HeadTailProperties
    <3> QED BY <3>1, <3>2
  <2> QED BY <2>1, <2>2
<1> QED BY <1>2, <1>3, SeqEqual

(* The staged tree is one wrapper exactly when the archive is.             *)
LEMMA WrapperFacts ==
    ASSUME NEW z, WellFormed(z), NEW name, NEW tree, TreeRight(z, Len(z.entries), tree)
    PROVE  /\ Wrapped(tree, name) <=> InWrapper(z, name)
           /\ InWrapper(z, name) =>
                \A p \in Taken(z, Len(z.entries)) \ {<<>>} : Head(p) = name
<1> DEFINE n == Len(z.entries)
           path(k) == z.entries[k].path
<1>1. /\ z.entries \in Seq(Entry) /\ n \in Nat /\ n \in 0..n /\ DOMAIN z.entries = 1..n
      /\ \A k \in 1..n : path(k) \in Seq(STRING) /\ z.entries[k].dir \in BOOLEAN
    BY EntryFacts DEF WellFormed
<1>2. /\ DOMAIN tree = Taken(z, n)
      /\ \A q \in Taken(z, n) : \/ tree[q] = Dir /\ OnlyDirs(z, n, q)
                                \/ tree[q] # Dir /\ LastOf(z, n, q, tree[q])
    BY DEF TreeRight
<1>3. \A q \in Taken(z, n) \ {<<>>} : \E k \in 1..n : q \in Prefixes(path(k))
    BY <1>1, TakenFacts
<1>4. \A k \in 1..n : path(k) \in Taken(z, n) /\ Prefixes(path(k)) \subseteq Taken(z, n)
    BY <1>1, TakenFacts
<1>5. InWrapper(z, name) <=>
          /\ \E k \in 1..n : path(k) # <<>>
          /\ \A k \in 1..n : path(k) # <<>> =>
                Head(path(k)) = name /\ (Len(path(k)) > 1 \/ z.entries[k].dir)
    BY <1>1 DEF InWrapper
<1>6. \A k \in 1..n : path(k) # <<>> => <<Head(path(k))>> \in Taken(z, n)
  <2> SUFFICES ASSUME NEW k \in 1..n, path(k) # <<>> PROVE <<Head(path(k))>> \in Taken(z, n)
      OBVIOUS
  <2>1. path(k) \in Prefixes(path(k))
      BY <1>1, PrefixFacts
  <2>2. <<Head(path(k))>> \in Prefixes(path(k))
      BY <1>1, <2>1, HeadFacts
  <2> QED BY <1>4, <2>2
<1> HIDE DEF n, path
<1>7. ASSUME InWrapper(z, name), NEW p \in Taken(z, n) \ {<<>>}
      PROVE  Head(p) = name /\ (Len(p) = 1 => p = <<name>>)
  <2>1. PICK k \in 1..n : p \in Prefixes(path(k))
      BY <1>3
  <2>2. path(k) # <<>> /\ Head(p) = Head(path(k)) /\ (Len(p) = 1 => p = <<Head(path(k))>>)
      BY <1>1, <2>1, HeadFacts
  <2> QED BY <1>5, <1>7, <2>2
<1>8. ASSUME InWrapper(z, name) PROVE Wrapped(tree, name)
  <2>1. PICK k \in 1..n : path(k) # <<>> /\ Head(path(k)) = name
      BY <1>5, <1>8
  <2>2. <<name>> \in Taken(z, n) /\ <<name>> # <<>> /\ Len(<<name>>) = 1
      BY <1>6, <2>1
  <2>3. tree[<<name>>] = Dir
    <3> SUFFICES ASSUME tree[<<name>>] # Dir PROVE FALSE
        OBVIOUS
    <3> DEFINE m == tree[<<name>>]
    <3>1. m \in 1..n /\ ~z.entries[m].dir /\ path(m) = <<name>>
        BY <1>2, <2>2 DEF LastOf, path
    <3> HIDE DEF m
    <3>2. path(m) # <<>> /\ Len(path(m)) = 1
        BY <2>2, <3>1
    <3>3. Len(path(m)) > 1
        BY <1>5, <1>8, <3>1, <3>2
    <3> QED BY <3>2, <3>3
  <2>4. ASSUME NEW p \in Taken(z, n), Len(p) = 1 PROVE p = <<name>>
    <3>1. Len(<<>>) # 1
        OBVIOUS
    <3>2. p # <<>>
        BY <2>4, <3>1, Zenon
    <3> QED BY <3>2, <1>7, <1>8, <2>4, <3>1
  <2> QED BY <1>2, <2>2, <2>3, <2>4 DEF Wrapped
<1>9. ASSUME Wrapped(tree, name) PROVE InWrapper(z, name)
  <2>1. /\ <<name>> \in Taken(z, n) \ {<<>>} /\ tree[<<name>>] = Dir
        /\ \A q \in Taken(z, n) : Len(q) = 1 => q = <<name>>
      BY <1>2, <1>9 DEF Wrapped
  <2>2. PICK k \in 1..n : <<name>> \in Prefixes(path(k))
      BY <1>3, <2>1
  <2>3. path(k) # <<>>
      BY <1>1, <2>1, <2>2, HeadFacts
  <2>4. ASSUME NEW j \in 1..n, path(j) # <<>>
        PROVE  Head(path(j)) = name /\ (Len(path(j)) > 1 \/ z.entries[j].dir)
    <3>1. <<Head(path(j))>> \in Taken(z, n) /\ Len(<<Head(path(j))>>) = 1
        BY <1>6, <2>4
    <3>2. <<Head(path(j))>> = <<name>>
        BY <2>1, <3>1
    <3>3. Head(path(j)) = name
        BY <3>2
    <3>4. path(j) \in Prefixes(path(j))
        BY <1>1, PrefixFacts
    <3>5. Len(path(j)) \in Nat \ {0} /\ (Len(path(j)) = 1 => path(j) = <<name>>)
        BY <1>1, <2>4, <3>3, <3>4, HeadFacts, EmptySeq
    <3>6. OnlyDirs(z, n, <<name>>)
        BY <1>2, <2>1 DEF LastOf
    <3>7. path(j) = <<name>> => z.entries[j].dir
        BY <3>6 DEF OnlyDirs, path
    <3>8. CASE Len(path(j)) = 1
        BY <3>3, <3>5, <3>7, <3>8
    <3>9. CASE Len(path(j)) # 1
      <4>1. Len(path(j)) > 1
        <5> DEFINE a == Len(path(j))
        <5>1. a \in Nat \ {0} /\ a # 1
            BY <3>5, <3>9
        <5> HIDE DEF a
        <5>2. a > 1
            BY <5>1
        <5> QED BY <5>2 DEF a
      <4> QED BY <3>3, <4>1
    <3> QED BY <3>8, <3>9
  <2> QED BY <1>5, <2>3, <2>4
<1> QED BY <1>7, <1>8, <1>9 DEF n

LEMMA StrippedFacts ==
    ASSUME NEW z, WellFormed(z), NEW name, NEW tree, TreeRight(z, Len(z.entries), tree),
           InWrapper(z, name)
    PROVE  /\ DOMAIN Stripped(tree) = {Tail(p) : p \in Taken(z, Len(z.entries)) \ {<<>>}}
           /\ \A p \in Taken(z, Len(z.entries)) \ {<<>>} : Stripped(tree)[Tail(p)] = tree[p]
<1> DEFINE T == DOMAIN tree \ {<<>>}
<1>1. /\ T = Taken(z, Len(z.entries)) \ {<<>>}
      /\ \A p \in T : Head(p) = name /\ p \in Seq(STRING) /\ p # <<>>
  <2>1. z.entries \in Seq(Entry) /\ Len(z.entries) \in 0..Len(z.entries)
      BY EntryFacts DEF WellFormed
  <2> QED BY <2>1, TakenFacts, WrapperFacts DEF TreeRight
<1>2. Stripped(tree) = [q \in {Tail(p) : p \in T} |-> tree[CHOOSE p \in T : Tail(p) = q]]
    BY DEF Stripped
<1> HIDE DEF T
<1>3. ASSUME NEW p \in T PROVE Stripped(tree)[Tail(p)] = tree[p]
  <2> DEFINE r == CHOOSE x \in T : Tail(x) = Tail(p)
  <2>1. r \in T /\ Tail(r) = Tail(p)
      OBVIOUS
  <2>2. Stripped(tree)[Tail(p)] = tree[r]
      BY <1>2
  <2> HIDE DEF r
  <2>3. r = p
      BY <1>1, <2>1, TailInjective
  <2> QED BY <2>2, <2>3
<1>4. DOMAIN Stripped(tree) = {Tail(p) : p \in T}
    BY <1>2
<1> QED BY <1>1, <1>3, <1>4

(* The files of a tree that is right are the last of each name.            *)
LastFiles(z) ==
    {i \in DOMAIN z.entries :
        /\ ~z.entries[i].dir
        /\ \A j \in DOMAIN z.entries : j > i => z.entries[j].path # z.entries[i].path}

LEMMA FilesFacts ==
    ASSUME NEW z, WellFormed(z), NEW tree, TreeRight(z, Len(z.entries), tree)
    PROVE  /\ \A i \in LastFiles(z) :
                /\ z.entries[i].path \in Taken(z, Len(z.entries)) \ {<<>>}
                /\ tree[z.entries[i].path] = i /\ i # Dir
           /\ \A q \in Taken(z, Len(z.entries)) : tree[q] # Dir =>
                q # <<>> /\ tree[q] \in LastFiles(z) /\ z.entries[tree[q]].path = q
<1> DEFINE n == Len(z.entries)
<1>1. z.entries \in Seq(Entry) /\ n \in Nat /\ n \in 0..n /\ DOMAIN z.entries = 1..n
    BY EntryFacts DEF WellFormed
<1>2. /\ tree[<<>>] = Dir
      /\ \A q \in Taken(z, n) : \/ tree[q] = Dir /\ OnlyDirs(z, n, q)
                                \/ tree[q] # Dir /\ LastOf(z, n, q, tree[q])
    BY DEF TreeRight
<1>3. \A k \in 1..n : z.entries[k].path \in Taken(z, n)
    BY <1>1, TakenFacts
<1> HIDE DEF n
<1>4. ASSUME NEW i \in LastFiles(z)
      PROVE  /\ z.entries[i].path \in Taken(z, n) \ {<<>>}
             /\ tree[z.entries[i].path] = i /\ i # Dir
  <2> DEFINE q == z.entries[i].path
             m == tree[q]
  <2>1. i \in 1..n /\ ~z.entries[i].dir /\ \A j \in 1..n : j > i => z.entries[j].path # q
      BY <1>1 DEF LastFiles
  <2>2. q \in Taken(z, n)
      BY <1>3, <2>1
  <2>3. ~OnlyDirs(z, n, q)
      BY <2>1 DEF OnlyDirs
  <2>4. m # Dir /\ LastOf(z, n, q, m)
      BY <1>2, <2>2, <2>3
  <2>5. m \in 1..n /\ z.entries[m].path = q /\ \A k \in 1..n : k > m => z.entries[k].path # q
      BY <2>4 DEF LastOf
  <2> HIDE DEF m
  <2>6. m = i
      BY <1>1, <2>1, <2>5
  <2> QED BY <1>2, <2>2, <2>4, <2>6 DEF m
<1>5. ASSUME NEW q \in Taken(z, n), tree[q] # Dir
      PROVE  q # <<>> /\ tree[q] \in LastFiles(z) /\ z.entries[tree[q]].path = q
  <2>1. q # <<>> /\ LastOf(z, n, q, tree[q])
      BY <1>2, <1>5
  <2> QED BY <1>1, <2>1 DEF LastOf, LastFiles
<1> QED BY <1>4, <1>5 DEF n

(* The files of a staged tree, as Unpack lists them.                       *)
FilesIn(tree) == {<<q, tree[q]>> : q \in {p \in DOMAIN tree \ {Marker} : tree[p] # Dir}}

LEMMA PlainFiles ==
    ASSUME NEW z, WellFormed(z), NEW name, NEW tree, TreeRight(z, Len(z.entries), tree),
           ~InWrapper(z, name)
    PROVE  FilesIn(tree) = FilesOf(z, name)
<1> DEFINE path(i) == z.entries[i].path
<1>1. FilesOf(z, name) = {<<path(i), i>> : i \in {k \in LastFiles(z) : path(k) # Marker}}
    BY DEF FilesOf, LastFiles
<1>2. DOMAIN tree = Taken(z, Len(z.entries))
    BY DEF TreeRight
<1>3. ASSUME NEW q \in DOMAIN tree \ {Marker}, tree[q] # Dir
      PROVE  <<q, tree[q]>> \in FilesOf(z, name)
  <2>1. tree[q] \in LastFiles(z) /\ path(tree[q]) = q
      BY <1>2, <1>3, FilesFacts
  <2> QED BY <1>1, <1>3, <2>1
<1>4. ASSUME NEW i \in LastFiles(z), path(i) # Marker
      PROVE  <<path(i), i>> \in FilesIn(tree)
  <2>1. path(i) \in DOMAIN tree \ {Marker} /\ tree[path(i)] = i /\ i # Dir
      BY <1>2, <1>4, FilesFacts
  <2> HIDE DEF path
  <2> QED BY <2>1 DEF FilesIn
<1> HIDE DEF path
<1>5. FilesIn(tree) \subseteq FilesOf(z, name)
    BY <1>3 DEF FilesIn
<1>6. FilesOf(z, name) \subseteq FilesIn(tree)
    BY <1>1, <1>4
<1> QED BY <1>5, <1>6

LEMMA StrippedFiles ==
    ASSUME NEW z, WellFormed(z), NEW name, NEW tree, TreeRight(z, Len(z.entries), tree),
           InWrapper(z, name)
    PROVE  FilesIn(Stripped(tree)) = FilesOf(z, name)
<1> DEFINE path(i) == z.entries[i].path
           T == Taken(z, Len(z.entries)) \ {<<>>}
           new == Stripped(tree)
<1>1. FilesOf(z, name) = {<<Tail(path(i)), i>> : i \in {k \in LastFiles(z) : Tail(path(k)) # Marker}}
    BY DEF FilesOf, LastFiles
<1>2. DOMAIN new = {Tail(p) : p \in T} /\ \A p \in T : new[Tail(p)] = tree[p]
    BY StrippedFacts
<1> HIDE DEF new
<1>3. ASSUME NEW q \in DOMAIN new \ {Marker}, new[q] # Dir
      PROVE  <<q, new[q]>> \in FilesOf(z, name)
  <2>1. PICK p \in T : Tail(p) = q
      BY <1>2
  <2>2. new[q] = tree[p] /\ tree[p] # Dir
      BY <1>2, <1>3, <2>1
  <2>3. tree[p] \in LastFiles(z) /\ path(tree[p]) = p
      BY <2>1, <2>2, FilesFacts
  <2> HIDE DEF path
  <2>4. Tail(path(tree[p])) = q
      BY <2>1, <2>3
  <2> QED BY <1>1, <1>3, <2>2, <2>3, <2>4
<1>4. ASSUME NEW i \in LastFiles(z), Tail(path(i)) # Marker
      PROVE  <<Tail(path(i)), i>> \in FilesIn(new)
  <2>1. path(i) \in T /\ tree[path(i)] = i /\ i # Dir
      BY FilesFacts
  <2> HIDE DEF path
  <2>2. Tail(path(i)) \in DOMAIN new \ {Marker} /\ new[Tail(path(i))] = i
      BY <1>2, <1>4, <2>1
  <2> QED BY <2>1, <2>2 DEF FilesIn
<1> HIDE DEF path
<1>5. FilesIn(new) \subseteq FilesOf(z, name)
    BY <1>3 DEF FilesIn
<1>6. FilesOf(z, name) \subseteq FilesIn(new)
    BY <1>1, <1>4
<1> QED BY <1>5, <1>6 DEF new

(* A directory of the marker's name, or an inner entry of the wrapper's,   *)
(* was there in the archive.                                               *)
LEMMA TakenBelow ==
    ASSUME NEW z, WellFormed(z), NEW q \in Taken(z, Len(z.entries)), q # <<>>
    PROVE  Below(z, q)
<1>1. z.entries \in Seq(Entry) /\ Len(z.entries) \in 0..Len(z.entries)
      /\ DOMAIN z.entries = 1..Len(z.entries)
      /\ \A k \in 1..Len(z.entries) : z.entries[k].path \in Seq(STRING)
    BY EntryFacts DEF WellFormed
<1>2. PICK k \in 1..Len(z.entries) : q \in Prefixes(z.entries[k].path)
    BY <1>1, TakenFacts
<1>3. IsPrefix(q, z.entries[k].path)
    BY <1>1, <1>2, PrefixFacts
<1> QED BY <1>1, <1>3 DEF Below

LEMMA MarkerFacts == Len(Marker) = 1 /\ Marker[1] = ".sha256"
BY DEF Marker

LEMMA MarkerBelow ==
    ASSUME NEW p \in Seq(STRING), p # <<>>, Tail(p) = Marker
    PROVE  p = <<Head(p)>> \o Marker /\ Len(p) = 2
<1>1. Len(Tail(p)) = Len(p) - 1 /\ Len(p) \in Nat /\ Head(p) \in STRING /\ Head(p) = p[1]
    BY HeadTailProperties
<1>2. Len(Marker) = 1 /\ Marker[1] = ".sha256" /\ Marker \in Seq(STRING)
  <2>1. Tail(p) \in Seq(STRING)
      BY HeadTailProperties
  <2> QED BY <2>1, MarkerFacts, Zenon
<1>3. Len(p) - 1 = 1
    BY <1>1, <1>2, Zenon
<1>4. Len(p) = 2
  <2> DEFINE a == Len(p)
  <2>1. a - 1 = 1 /\ a \in Nat
      BY <1>1, <1>3, Zenon
  <2> HIDE DEF a
  <2>2. a = 2
      BY <2>1
  <2> QED BY <2>2 DEF a
<1>5. p[2] = ".sha256"
  <2>1. 1 \in 1..Len(Tail(p)) /\ 1 + 1 = 2
      BY <1>1, <1>4
  <2>2. Tail(p)[1] = p[1 + 1]
      BY <2>1, HeadTailProperties
  <2> QED BY <1>2, <2>1, <2>2
<1> DEFINE w == <<Head(p)>> \o Marker
<1>6. w \in Seq(STRING) /\ Len(w) = 2 /\ w[1] = Head(p) /\ w[2] = ".sha256"
  <2> DEFINE h == <<Head(p)>>
  <2>1. h \in Seq(STRING) /\ Len(h) = 1 /\ h[1] = Head(p)
      BY <1>1
  <2> HIDE DEF h
  <2>2. /\ h \o Marker \in Seq(STRING) /\ Len(h \o Marker) = Len(h) + Len(Marker)
        /\ \A i \in 1..Len(h) + Len(Marker) :
              (h \o Marker)[i] = IF i <= Len(h) THEN h[i] ELSE Marker[i - Len(h)]
      BY <1>2, <2>1, ConcatProperties
  <2> DEFINE v == h \o Marker
  <2>3. /\ v \in Seq(STRING) /\ Len(v) = 1 + 1
        /\ \A i \in 1..1 + 1 : v[i] = IF i <= 1 THEN h[i] ELSE Marker[i - 1]
      BY <1>2, <2>1, <2>2
  <2> HIDE DEF v
  <2>4. v \in Seq(STRING) /\ Len(v) = 2 /\ v[1] = Head(p) /\ v[2] = ".sha256"
      BY <1>2, <2>1, <2>3
  <2> QED BY <2>4 DEF v, h
<1> HIDE DEF w
<1>7. \A i \in 1..Len(p) : p[i] = w[i]
    BY <1>1, <1>4, <1>5, <1>6
<1>8. p = w
    BY <1>4, <1>6, <1>7, SeqEqual
<1> QED BY <1>4, <1>8 DEF w

LEMMA InnerMarkerTaken ==
    ASSUME NEW z, WellFormed(z), NEW name, NEW tree, TreeRight(z, Len(z.entries), tree),
           InWrapper(z, name),
           Marker \in DOMAIN Stripped(tree), Stripped(tree)[Marker] = Dir
    PROVE  NameTaken(z, name)
<1> DEFINE n == Len(z.entries)
           T == Taken(z, n) \ {<<>>}
<1>1. /\ z.entries \in Seq(Entry) /\ n \in Nat /\ n \in 0..n /\ DOMAIN z.entries = 1..n
      /\ \A k \in 1..n : z.entries[k].path \in Seq(STRING)
    BY EntryFacts DEF WellFormed
<1>2. PICK p \in T : Tail(p) = Marker
  <2>1. DOMAIN Stripped(tree) = {Tail(p) : p \in T}
      BY StrippedFacts
  <2> HIDE DEF T
  <2> QED BY <2>1
<1>3. tree[p] = Dir
  <2>1. Stripped(tree)[Tail(p)] = tree[p]
      BY StrippedFacts
  <2> QED BY <1>2, <2>1
<1>4. Head(p) = name /\ p \in Seq(STRING) /\ p # <<>> /\ p \in Taken(z, n)
  <2>1. Head(p) = name
      BY WrapperFacts
  <2> QED BY <1>1, <2>1, TakenFacts
<1>5. PICK k \in 1..n : p \in Prefixes(z.entries[k].path)
    BY <1>1, <1>4, TakenFacts
<1> DEFINE path == z.entries[k].path
<1>6. p = <<name>> \o Marker /\ Len(p) = 2
    BY <1>2, <1>4, MarkerBelow
<1>7. path \in Seq(STRING) /\ IsPrefix(p, path)
    BY <1>1, <1>5, PrefixFacts
<1>8. z.entries[k].dir \/ Len(path) > 2
  <2> SUFFICES ASSUME ~(Len(path) > 2) PROVE z.entries[k].dir
      OBVIOUS
  <2>1. Len(path) = 2
    <3>1. Len(p) <= Len(path)
        BY <1>7 DEF IsPrefix
    <3>2. Len(path) \in Nat
        BY <1>7
    <3> DEFINE a == Len(path)
    <3>3. 2 <= a /\ a \in Nat /\ ~(a > 2)
        BY <1>6, <3>1, <3>2
    <3> HIDE DEF a
    <3>4. a = 2
        BY <3>3
    <3> QED BY <3>4 DEF a
  <2>2. SubSeq(p, 1, Len(p)) = p /\ SubSeq(path, 1, Len(path)) = path
      BY <1>4, <1>7, SubSeqFull
  <2>3. p = path
      BY <1>6, <1>7, <2>1, <2>2 DEF IsPrefix
  <2>4. OnlyDirs(z, n, p)
      BY <1>3, <1>4 DEF TreeRight
  <2> QED BY <2>3, <2>4 DEF OnlyDirs
<1> HIDE DEF n
<1>9. \E i \in DOMAIN z.entries : LET e == z.entries[i] IN
          /\ IsPrefix(<<name>> \o Marker, e.path)
          /\ e.dir \/ Len(e.path) > 2
    BY <1>1, <1>6, <1>7, <1>8
<1> QED BY <1>9 DEF NameTaken

(* What extraction makes of an archive is right, for every archive of any  *)
(* number of entries and sizes, every name of a skill and all three        *)
(* limits: it leaves exactly the last file of each name, a wrapper of the  *)
(* skill's name collapsed, of an archive that can be read and keeps to the *)
(* limits and to its directory, and it blames a name, a limit, the layout  *)
(* or an entry only where that is at fault (extractZip, extractEntry,      *)
(* stripRedundantTopLevelDir).                                             *)
THEOREM UnpackIsRight ==
    ASSUME NEW z, WellFormed(z), NEW name
    PROVE  UnpacksRight(z, name)
<1> DEFINE n == Len(z.entries)
           x == ExtractZip(z)
           t == x.tree
           c == Collapse(t, name)
           u == Unpack(z, name)
<1>1. z.entries \in Seq(Entry) /\ n \in Nat /\ DOMAIN z.entries = 1..n
    BY EntryFacts DEF WellFormed
<1>2. StateRight(z, n, x)
    BY ExtractionRight
<1>3. u = IF x.error # "none" THEN [error |-> x.error, files |-> {}]
          ELSE IF c.error # "none" THEN [error |-> c.error, files |-> {}]
          ELSE IF Marker \in DOMAIN c.tree /\ c.tree[Marker] = Dir
               THEN [error |-> "layout", files |-> {}]
          ELSE [error |-> "none", files |-> FilesIn(c.tree)]
    BY DEF Unpack, FilesIn
<1> HIDE DEF x, t, u, c
<1>4. CASE x.error # "none"
  <2>1. u.error = x.error
      BY <1>3, <1>4
  <2> QED BY <1>2, <1>4, <2>1 DEF StateRight, UnpacksRight, u
<1>5. CASE x.error = "none"
  <2>1. TreeRight(z, n, t) /\ Blameless(z, n)
      BY <1>2, <1>5 DEF StateRight, t
  <2>2. Fits(z) /\ Inside(z) /\ ~Broken(z)
      BY <1>1, <2>1 DEF Blameless, Fits, Inside, Broken, Total
  <2>3. Wrapped(t, name) <=> InWrapper(z, name)
      BY <2>1, WrapperFacts
  <2>4. DOMAIN t = Taken(z, n)
      BY <2>1 DEF TreeRight
  <2>5. CASE ~InWrapper(z, name)
    <3>1. c.error = "none" /\ c.tree = t
        BY <2>3, <2>5 DEF Collapse, c
    <3>2. CASE Marker \in DOMAIN t /\ t[Marker] = Dir
      <4>1. u.error = "layout"
          BY <1>3, <1>5, <3>1, <3>2
      <4>2. Below(z, Marker)
        <5>1. Marker # <<>>
            BY DEF Marker
        <5> QED BY <2>4, <3>2, <5>1, TakenBelow
      <4> QED BY <2>5, <4>1, <4>2 DEF NameTaken, UnpacksRight, u
    <3>3. CASE ~(Marker \in DOMAIN t /\ t[Marker] = Dir)
      <4>1. u.error = "none" /\ u.files = FilesIn(t)
          BY <1>3, <1>5, <3>1, <3>3
      <4>2. FilesIn(t) = FilesOf(z, name)
          BY <2>1, <2>5, PlainFiles
      <4> QED BY <2>2, <4>1, <4>2 DEF UnpacksRight, u
    <3> QED BY <3>2, <3>3
  <2>6. CASE InWrapper(z, name) /\ <<name, name>> \in DOMAIN t
    <3>1. c.error = "layout"
        BY <2>3, <2>6 DEF Collapse, c
    <3>2. u.error = "layout"
        BY <1>3, <1>5, <3>1
    <3>3. Below(z, <<name, name>>)
        BY <2>4, <2>6, TakenBelow
    <3> QED BY <2>6, <3>2, <3>3 DEF NameTaken, UnpacksRight, u
  <2>7. CASE InWrapper(z, name) /\ <<name, name>> \notin DOMAIN t
    <3>1. c.error = "none" /\ c.tree = Stripped(t)
        BY <2>3, <2>7 DEF Collapse, c
    <3>2. CASE Marker \in DOMAIN Stripped(t) /\ Stripped(t)[Marker] = Dir
      <4>1. u.error = "layout"
          BY <1>3, <1>5, <3>1, <3>2
      <4>2. NameTaken(z, name)
          BY <2>1, <2>7, <3>2, InnerMarkerTaken
      <4> QED BY <4>1, <4>2 DEF UnpacksRight, u
    <3>3. CASE ~(Marker \in DOMAIN Stripped(t) /\ Stripped(t)[Marker] = Dir)
      <4>1. u.error = "none" /\ u.files = FilesIn(Stripped(t))
          BY <1>3, <1>5, <3>1, <3>3
      <4>2. FilesIn(Stripped(t)) = FilesOf(z, name)
          BY <2>1, <2>7, StrippedFiles
      <4> QED BY <2>2, <4>1, <4>2 DEF UnpacksRight, u
    <3> QED BY <3>2, <3>3
  <2> QED BY <2>5, <2>6, <2>7
<1> QED BY <1>4, <1>5
================================================================================
