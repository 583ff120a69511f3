----------------------------- MODULE MCFat16Dir ------------------------------
(***************************************************************************)
(* Fat16Dir on volumes of a root with up to two entries and directories    *)
(* "s" and "t", where "s" is in the root and "t" in the root or in "s";    *)
(* deleted entries anywhere, and entries or none at cluster 0.             *)
(***************************************************************************)
EXTENDS Fat16Dir

MCFile(name) == [name |-> name, kind |-> "file", first |-> Zero]
MCDir(name, d) == [name |-> name, kind |-> "dir", first |-> d]

\* Sequences of at most max entries in which no two live ones share a name.
MCContents(entries, max) ==
  {s \in UNION {[1..n -> entries] : n \in 0..max} :
     \A i, j \in DOMAIN s : i # j /\ s[i].name = s[j].name => s[i].name \in Erased}

MCWith(entry, others, max) ==
  {s \in MCContents({entry} \cup others, max) : \E i \in DOMAIN s : s[i] = entry}

MCBelow(d, parent, s) == <<MCDir(".", d), MCDir("..", parent)>> \o s

\* With "t" in the root.
MCFlat ==
  {[d \in Directory \cup {Zero} |->
      CASE d = Root -> r [] d = "s" -> MCBelow("s", Zero, s)
        [] d = "t" -> MCBelow("t", Zero, <<MCFile("a")>>) [] d = Zero -> z] :
     r \in MCContents({MCFile("a"), MCDir("a", "s"), MCDir("b", "t"), MCDir("x", "s")}, 2),
     s \in MCContents({MCFile("a"), MCFile("x")}, 1),
     z \in {<<>>, <<MCFile("a")>>}}

\* With "t" in "s".
MCNested ==
  {[d \in Directory \cup {Zero} |->
      CASE d = Root -> r [] d = "s" -> MCBelow("s", Zero, s)
        [] d = "t" -> MCBelow("t", "s", t) [] d = Zero -> <<MCDir("b", "t")>>] :
     r \in MCWith(MCDir("a", "s"), {MCFile("b"), MCFile("x")}, 2),
     s \in MCWith(MCDir("b", "t"), {MCFile("a"), MCDir("x", "t")}, 2),
     t \in MCContents({MCFile("a"), MCFile("x")}, 2)}

MCVolumes == MCFlat \cup MCNested
==============================================================================
