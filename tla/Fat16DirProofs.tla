--------------------------- MODULE Fat16DirProofs ----------------------------
(***************************************************************************)
(* Looking up a path in a FAT16 volume, for volumes of any directories,    *)
(* however deep, and paths of every length: what is found is what the path *)
(* names, everything is found in directories without deleted entries while *)
(* there is memory, and no lookup leaks an object or frees one twice,      *)
(* whichever allocation fails.                                             *)
(*                                                                         *)
(* The argument follows the loop of fat16_get_dir_entry: Good is its       *)
(* invariant, kept by every turn (StepGood), and the lookup is the run of  *)
(* its turns (LookupRun).                                                  *)
(***************************************************************************)
EXTENDS Fat16Dir, FiniteSetTheorems, Iteration

\* What a search may go through.
Place == Directory \cup {Zero}

\* The items the driver can make.
Located ==
  {item \in [dir : Place, index : Nat, filled : BOOLEAN] : item.index \in DOMAIN raw[item.dir]}

Item == Located \cup {NoItem}

\* What the loop of fat16_get_dir_entry works on.
Work == [item : Item, allocs : Nat, objects : Int]

PathName == Name \cup Erased \cup {Empty}

\* The item is an entry of d with the name.
Names(item, d, name) == item \in Located /\ item.dir = d /\ Entry(item).name = name

-----------------------------------------------------------------------------
\* What the volume is: the shape of its directories and of their entries.
LEMMA VolumeShape ==
  ASSUME IsVolume(raw), NEW d \in Place
  PROVE  /\ \E n \in Nat : DOMAIN raw[d] = 1..n
         /\ \A i \in DOMAIN raw[d] : raw[d][i] \in DirEntry
<1>1. raw[d] \in Seq(DirEntry)
  BY DEF IsVolume, Place
<1> QED
  BY <1>1

\* No entry is called the empty name.
LEMMA NoEmptyName ==
  ASSUME IsVolume(raw), NEW d \in Place
  PROVE  ~Live(d, Empty)
BY VolumeShape, DirAssumption DEF Live, DirEntry

(* The count of live entries is at most the number of entries before the    *)
(* null entry, and is that number when none is deleted                      *)
(* (fat16_get_total_items_in_dir).                                          *)
LEMMA LiveCount ==
  ASSUME IsVolume(raw), NEW d \in Place
  PROVE  \E n \in Nat : /\ DOMAIN raw[d] = 1..n
                        /\ fat16_get_total_items_in_dir(d) \in 0..n
                        /\ NothingDeleted /\ d \in Directory => fat16_get_total_items_in_dir(d) = n
<1>1. PICK n \in Nat : DOMAIN raw[d] = 1..n
  BY VolumeShape
<1> DEFINE live == {i \in DOMAIN raw[d] : raw[d][i].name \notin Erased}
<1>2. IsFiniteSet(1..n) /\ Cardinality(1..n) = n
  BY FS_Interval
<1>3. IsFiniteSet(live) /\ Cardinality(live) <= n
  BY <1>1, <1>2, FS_Subset
<1>4. Cardinality(live) \in 0..n
  BY <1>3, FS_CardinalityType
<1>5. NothingDeleted /\ d \in Directory => live = 1..n
  BY <1>1 DEF NothingDeleted
<1>6. fat16_get_total_items_in_dir(d) = Cardinality(live)
  BY DEF fat16_get_total_items_in_dir
<1> HIDE DEF live
<1> QED
  BY <1>1, <1>2, <1>4, <1>5, <1>6

\* The entries the search of a directory goes through (fat16_load_root_dir, fat16_load_fat_dir).
LEMMA LoadedEntries ==
  ASSUME IsVolume(raw), NEW d \in Place
  PROVE  /\ 1..Dir(d).total_entries \subseteq DOMAIN raw[d]
         /\ \A i \in 1..Dir(d).total_entries : Dir(d).dir_entries[i] = raw[d][i]
         /\ NothingDeleted /\ d \in Directory => 1..Dir(d).total_entries = DOMAIN raw[d]
<1>1. PICK n \in Nat : /\ DOMAIN raw[d] = 1..n
                       /\ fat16_get_total_items_in_dir(d) \in 0..n
                       /\ NothingDeleted /\ d \in Directory => fat16_get_total_items_in_dir(d) = n
  BY LiveCount
<1>2. Dir(d).total_entries = fat16_get_total_items_in_dir(d)
  BY DEF Dir, fat16_load_root_dir, fat16_load_fat_dir
<1>3. \A i \in 1..Dir(d).total_entries : Dir(d).dir_entries[i] = raw[d][i]
  <2>1. CASE d = Root
    BY <2>1 DEF Dir, fat16_load_root_dir
  <2>2. CASE d # Root
    <3> DEFINE total == fat16_get_total_items_in_dir(d)
    <3>1. Dir(d).dir_entries = SubSeq(raw[d], 1, total)
      BY <2>2, Zenon DEF Dir, fat16_load_fat_dir
    <3>2. total \in Nat
      BY <1>1
    <3> HIDE DEF total
    <3>3. \A i \in 1..total : SubSeq(raw[d], 1, total)[i] = raw[d][i]
      BY <3>2
    <3> QED
      BY <1>2, <3>1, <3>3, Zenon DEF total
  <2> QED
    BY <2>1, <2>2
<1> QED
  BY <1>1, <1>2, <1>3

\* What a search for a name in a directory may return.
Finds(r, d, name) ==
  /\ r \in Item
  /\ r # NoItem => Names(r, d, name) /\ r.filled
  /\ NothingDeleted /\ d \in Directory /\ Live(d, name) => r # NoItem

(* A search finds entries of the name only, and finds one if there is one   *)
(* and none is deleted (fat16_find_item_in_dir_by_name).                    *)
LEMMA SearchFinds ==
  ASSUME IsVolume(raw), NEW d \in Place, NEW name
  PROVE  Finds(fat16_find_item_in_dir_by_name(d, name), d, name)
<1> DEFINE hits == {i \in 1..Dir(d).total_entries : Dir(d).dir_entries[i].name = name}
           r == fat16_find_item_in_dir_by_name(d, name)
<1>1. r = FirstHit(d, hits)
  BY DEF fat16_find_item_in_dir_by_name
<1>2. \A i \in hits : i \in DOMAIN raw[d] /\ raw[d][i].name = name
  BY LoadedEntries
<1>3. hits \in SUBSET Nat
  <2>1. \E n \in Nat : DOMAIN raw[d] = 1..n
    BY VolumeShape
  <2> QED
    BY <1>2, <2>1
<1>4. NothingDeleted /\ d \in Directory /\ Live(d, name) => hits # {}
  BY LoadedEntries, Zenon DEF Live
<1> HIDE DEF hits, r
<1>5. CASE hits = {}
  BY <1>1, <1>4, <1>5 DEF FirstHit, Finds, Item, r
<1>6. CASE hits # {}
  <2>1. Min(hits) \in hits
    <3>1. \E m \in hits : \A n \in hits : m <= n
      BY <1>3, <1>6, LeastElement
    <3> QED
      BY <3>1 DEF Min
  <2>2. PICK i \in hits : i = Min(hits)
    BY <2>1
  <2>3. r = [dir |-> d, index |-> i, filled |-> TRUE]
    BY <1>1, <1>6, <2>2 DEF FirstHit
  <2>4. i \in DOMAIN raw[d] /\ raw[d][i].name = name
    BY <1>2
  <2>5. i \in Nat /\ i # 0
    BY <2>4, VolumeShape
  <2>6. r \in Located
    BY <2>3, <2>4, <2>5 DEF Located
  <2>7. r # NoItem
    BY <2>3, <2>5 DEF NoItem
  <2>8. Names(r, d, name)
    BY <2>3, <2>4, <2>6 DEF Names, Entry
  <2> QED
    BY <2>3, <2>6, <2>7, <2>8 DEF Finds, Item, r
<1> QED
  BY <1>5, <1>6

\* The number of an item's objects.
LEMMA PartsNat ==
  ASSUME NEW item
  PROVE  Parts(item) \in Nat /\ Parts(NoItem) = 0
BY DEF Parts

\* What making an item for what was found, if anything, may return.
Makes(r, w, found, fail) ==
  /\ r \in Work
  /\ r.objects = w.objects + Parts(r.item)
  /\ r.item # NoItem => /\ found # NoItem /\ r.item \in Located
                        /\ r.item.dir = found.dir /\ r.item.index = found.index
  /\ fail = 0 /\ found # NoItem => r.item # NoItem /\ r.item.filled = TRUE

(* Making an item takes exactly the item's objects, also when one of its    *)
(* allocations fails (fat16_new_fat_item_from_dir_entry).                   *)
LEMMA NewMakes ==
  ASSUME IsVolume(raw), NEW w \in Work, NEW found \in Item, NEW fail \in Nat
  PROVE  Makes(New(w, found, fail), w, found, fail)
<1> DEFINE inner == (w.allocs + 2)..(w.allocs + Parts(found))
           item == IF found = NoItem \/ fail = w.allocs + 1 THEN NoItem
                   ELSE [found EXCEPT !.filled = fail \notin inner]
           r == New(w, found, fail)
<1>1. r = [item |-> item, allocs |-> w.allocs + Parts(found), objects |-> w.objects + Parts(item)]
  BY DEF New
<1>2. w.allocs \in Nat /\ w.objects \in Int /\ Parts(found) \in Nat /\ Parts(item) \in Nat
  BY PartsNat DEF Work
<1>3. fail = 0 => fail # w.allocs + 1 /\ fail \notin inner
  BY <1>2
<1>4. (fail \notin inner) \in BOOLEAN
  OBVIOUS
<1>5. PICK full \in BOOLEAN : full = (fail \notin inner)
  BY <1>4, Zenon
<1>6. found # NoItem => [found EXCEPT !.filled = full] \in Located
  BY DEF Item, Located
<1>7. found # NoItem =>
        /\ [found EXCEPT !.filled = full].dir = found.dir
        /\ [found EXCEPT !.filled = full].index = found.index
        /\ [found EXCEPT !.filled = full].filled = full
        /\ [found EXCEPT !.filled = full] # NoItem
  <2>1. found \in Located => found.index # 0
    BY VolumeShape DEF Located
  <2> QED
    BY <2>1 DEF Item, Located, NoItem
<1>8. item = IF found = NoItem \/ fail = w.allocs + 1 THEN NoItem
             ELSE [found EXCEPT !.filled = full]
  BY <1>5
<1>9. fail = 0 => full = TRUE
  BY <1>3, <1>5, Zenon
<1> HIDE DEF inner, item, r
<1>10. item \in Item
  BY <1>6, <1>8 DEF Item
<1>11. r \in Work /\ r.item = item /\ r.objects = w.objects + Parts(item)
  BY <1>1, <1>2, <1>10 DEF Work
<1>12. item # NoItem => /\ found # NoItem /\ item \in Located
                        /\ item.dir = found.dir /\ item.index = found.index
  BY <1>6, <1>7, <1>8
<1>13. fail = 0 /\ found # NoItem => item # NoItem /\ item.filled = TRUE
  BY <1>3, <1>7, <1>8, <1>9, Zenon
<1>14. Makes(r, w, found, fail)
  BY <1>11, <1>12, <1>13 DEF Makes
<1> QED
  BY <1>14 DEF r

-----------------------------------------------------------------------------
\* A walk of one directory is the root's.
LEMMA FirstWalk ==
  ASSUME NEW p
  PROVE  /\ \E dirs \in Walks(p, 1) : dirs[1] = Root
         /\ \A dirs \in Walks(p, 1) : dirs[1] = Root
<1> DEFINE start == [k \in 1..1 |-> Root]
<1>1. start \in [1..1 -> Directory] /\ start[1] = Root
  BY DEF Directory
<1>2. \A k \in 1..(1 - 1) : FALSE
  OBVIOUS
<1> HIDE DEF start
<1>3. start \in Walks(p, 1)
  BY <1>1, <1>2 DEF Walks
<1> QED
  BY <1>1, <1>3 DEF Walks

\* A walk goes on into a directory that its last one holds under the next part.
LEMMA WalkOn ==
  ASSUME NEW p, NEW n \in Nat \ {0}, NEW dirs \in Walks(p, n),
         NEW e \in Directory, Opens(dirs[n], p[n], e)
  PROVE  \E on \in Walks(p, n + 1) : on[n + 1] = e
<1> DEFINE on == [k \in 1..(n + 1) |-> IF k <= n THEN dirs[k] ELSE e]
<1>1. dirs \in [1..n -> Directory] /\ dirs[1] = Root
  BY DEF Walks
<1>2. on \in [1..(n + 1) -> Directory]
  BY <1>1
<1>3. on[n + 1] = e /\ \A k \in 1..n : on[k] = dirs[k]
  OBVIOUS
<1> HIDE DEF on
<1>4. on[1] = Root
  BY <1>1, <1>3
<1>5. ASSUME NEW k \in 1..n PROVE Opens(on[k], p[k], on[k + 1])
  <2>1. CASE k = n
    BY <1>3, <2>1
  <2>2. CASE k # n
    <3>1. k \in 1..(n - 1) /\ k + 1 \in 1..n
      BY <2>2
    <3>2. Opens(dirs[k], p[k], dirs[k + 1])
      BY <3>1 DEF Walks
    <3> QED
      BY <1>3, <3>1, <3>2
  <2> QED
    BY <2>1, <2>2
<1>6. (n + 1) - 1 = n
  OBVIOUS
<1>7. on \in Walks(p, n + 1)
  BY <1>2, <1>4, <1>5, <1>6 DEF Walks
<1> QED
  BY <1>3, <1>7

\* A walk without its last directory is a walk, to the directory that holds the last.
LEMMA WalkBack ==
  ASSUME NEW p, NEW n \in Nat \ {0}, NEW dirs \in Walks(p, n + 1)
  PROVE  \E back \in Walks(p, n) : back[n] = dirs[n] /\ Opens(dirs[n], p[n], dirs[n + 1])
<1> DEFINE back == [k \in 1..n |-> dirs[k]]
<1>1. dirs \in [1..(n + 1) -> Directory] /\ dirs[1] = Root
  BY DEF Walks
<1>2. ASSUME NEW k \in 1..n PROVE Opens(dirs[k], p[k], dirs[k + 1])
  <2>1. k \in 1..((n + 1) - 1)
    OBVIOUS
  <2> QED
    BY <2>1 DEF Walks
<1>3. back \in [1..n -> Directory]
  BY <1>1
<1>4. \A k \in 1..n : back[k] = dirs[k]
  OBVIOUS
<1> HIDE DEF back
<1>5. \A k \in 1..(n - 1) : Opens(back[k], p[k], back[k + 1])
  <2> TAKE k \in 1..(n - 1)
  <2>1. k \in 1..n /\ k + 1 \in 1..n
    OBVIOUS
  <2> QED
    BY <1>2, <1>4, <2>1
<1>6. back \in Walks(p, n)
  BY <1>1, <1>3, <1>4, <1>5 DEF Walks
<1> QED
  BY <1>2, <1>4, <1>6

\* A path that does not climb, or names nothing erased, so far, did not before.
LEMMA Shorter ==
  ASSUME NEW p, NEW n \in Nat \ {0}
  PROVE  /\ ~Climbs(p, n + 1) => ~Climbs(p, n)
         /\ ~NamesErased(p, n + 1) => ~NamesErased(p, n) /\ p[n] \notin Erased
BY DEF Climbs, NamesErased

\* A path that does not climb passes the root only at its beginning.
LEMMA NoClimb ==
  ASSUME NEW p, NEW n \in Nat \ {0}, ~Climbs(p, n + 1), NEW dirs \in Walks(p, n + 1)
  PROVE  dirs[n + 1] # Root
BY DEF Climbs

(* The entry of a name is the one a walk goes through: live names are       *)
(* unique.                                                                  *)
LEMMA EntryOpens ==
  ASSUME IsVolume(raw), NEW d \in Directory, NEW item, NEW name, Names(item, d, name), NEW e
  PROVE  /\ Opens(d, name, e) => Entry(item).kind = "dir" /\ Meant(Entry(item).first) = e
         /\ Entry(item).kind = "dir" /\ name \notin Erased
              => Opens(d, name, Meant(Entry(item).first))
<1>1. item.index \in DOMAIN raw[d] /\ Entry(item) = raw[d][item.index] /\ Entry(item).name = name
  BY DEF Names, Located, Entry
<1>2. ASSUME Opens(d, name, e) PROVE Entry(item).kind = "dir" /\ Meant(Entry(item).first) = e
  <2>1. PICK i \in DOMAIN raw[d] :
          raw[d][i].name = name /\ raw[d][i].kind = "dir" /\ Meant(raw[d][i].first) = e
    BY <1>2 DEF Opens
  <2>2. name \notin Erased
    BY <1>2 DEF Opens
  <2>3. i = item.index
    BY <1>1, <2>1, <2>2 DEF IsVolume
  <2> QED
    BY <1>1, <2>1, <2>3
<1> QED
  BY <1>1, <1>2 DEF Opens

\* What a walk goes through is there.
LEMMA OpensLive ==
  ASSUME NEW d, NEW name, NEW e, Opens(d, name, e)
  PROVE  Live(d, name)
BY DEF Opens, Live

\* An entry leads to its first cluster, which is a directory unless it is 0.
LEMMA EntryLeads ==
  ASSUME IsVolume(raw), NEW item \in Located
  PROVE  /\ Entry(item).first \in Place
         /\ Meant(Entry(item).first) \in Directory
         /\ Meant(Entry(item).first) # Root =>
              Entry(item).first \in Directory /\ Meant(Entry(item).first) = Entry(item).first
<1>1. Entry(item) \in DirEntry
  BY VolumeShape DEF Located, Entry
<1> QED
  BY <1>1 DEF DirEntry, Cluster, Place, Directory, Meant

-----------------------------------------------------------------------------
\* The item is what the first n parts of the path name.
Reached(item, p, n) == \E dirs \in Walks(p, n) : Names(item, dirs[n], p[n])

(* The invariant of the loop of fat16_get_dir_entry after n parts: besides  *)
(* the descriptor, exactly the parts of the current item are allocated; the *)
(* item is what the path names so far; and it is there if the path names    *)
(* something, nothing is deleted and no allocation failed.                  *)
Good(w, p, n, fail) ==
  /\ w \in Work
  /\ w.objects = 1 + Parts(w.item)
  /\ w.item # NoItem /\ ~NamesErased(p, n) /\ ~Climbs(p, n) => Reached(w.item, p, n)
  /\ fail = 0 /\ NothingDeleted /\ ~Climbs(p, n) =>
       \A dirs \in Walks(p, n) : Live(dirs[n], p[n]) =>
         w.item # NoItem /\ w.item.filled = TRUE /\ Names(w.item, dirs[n], p[n])

\* Making an item does not change what it is called and where it is.
LEMMA MadeNames ==
  ASSUME NEW r, NEW w, NEW found, NEW fail, NEW d, NEW name,
         Makes(r, w, found, fail), r.item # NoItem, Names(found, d, name)
  PROVE  Names(r.item, d, name)
BY DEF Makes, Names, Entry

\* The search of the root for the first part of the path.
LEMMA FirstGood ==
  ASSUME IsVolume(raw), NEW w \in Work, w.objects = 1, NEW p, NEW fail \in Nat
  PROVE  Good(New(w, fat16_find_item_in_dir_by_name(Root, p[1]), fail), p, 1, fail)
<1> DEFINE found == fat16_find_item_in_dir_by_name(Root, p[1])
           r == New(w, found, fail)
<1>1. Root \in Place /\ Root \in Directory
  BY DEF Place, Directory
<1>2. Finds(found, Root, p[1])
  BY <1>1, SearchFinds
<1>3. Makes(r, w, found, fail)
  BY <1>2, NewMakes DEF Finds
<1> HIDE DEF found, r
<1>4. ASSUME r.item # NoItem PROVE Names(r.item, Root, p[1])
  <2>1. found # NoItem
    BY <1>3, <1>4 DEF Makes
  <2>2. Names(found, Root, p[1])
    BY <1>2, <2>1 DEF Finds
  <2> QED
    BY <1>3, <1>4, <2>2, MadeNames
<1>5. fail = 0 /\ NothingDeleted /\ Live(Root, p[1]) => r.item # NoItem /\ r.item.filled = TRUE
  BY <1>1, <1>2, <1>3 DEF Finds, Makes
<1>6. r.item # NoItem => Reached(r.item, p, 1)
  BY <1>4, FirstWalk DEF Reached
<1>7. ASSUME fail = 0, NothingDeleted, NEW dirs \in Walks(p, 1), Live(dirs[1], p[1])
      PROVE  r.item # NoItem /\ r.item.filled = TRUE /\ Names(r.item, dirs[1], p[1])
  <2>1. dirs[1] = Root
    BY FirstWalk
  <2> QED
    BY <1>4, <1>5, <1>7, <2>1
<1>8. r \in Work /\ r.objects = 1 + Parts(r.item)
  BY <1>3 DEF Makes
<1>9. Good(r, p, 1, fail)
  BY <1>6, <1>7, <1>8, Zenon DEF Good
<1> QED
  BY <1>9 DEF found, r

(* A turn of the loop: the item of the directory that was searched is freed *)
(* once, and the new one is what the path names with one part more          *)
(* (fat16_get_dir_entry).                                                   *)
LEMMA StepGood ==
  ASSUME IsVolume(raw), NEW p, NEW n \in Nat \ {0},
         NEW fail \in Nat, NEW w, Good(w, p, n, fail)
  PROVE  Good(Step(w, p[n + 1], fail), p, n + 1, fail)
<1> DEFINE name == p[n + 1]
<1>1. w \in Work /\ Parts(w.item) \in Nat /\ w.objects = 1 + Parts(w.item)
  BY PartsNat DEF Good
<1>2. ASSUME fail = 0, NothingDeleted, ~Climbs(p, n + 1),
             NEW dirs \in Walks(p, n + 1), Live(dirs[n + 1], name)
      PROVE  /\ w.item # NoItem /\ w.item.filled = TRUE /\ name # Empty
             /\ Entry(w.item).kind = "dir" /\ Entry(w.item).first = dirs[n + 1]
             /\ dirs[n + 1] \in Directory
  <2>1. dirs[n] \in Directory /\ dirs[n + 1] \in Directory /\ dirs[n + 1] # Root
    BY <1>2, NoClimb DEF Walks
  <2>2. PICK back \in Walks(p, n) : back[n] = dirs[n] /\ Opens(dirs[n], p[n], dirs[n + 1])
    BY WalkBack
  <2>3. w.item # NoItem /\ w.item.filled = TRUE /\ Names(w.item, dirs[n], p[n])
    BY <1>2, <2>2, OpensLive, Shorter DEF Good
  <2>4. Entry(w.item).kind = "dir" /\ Meant(Entry(w.item).first) = dirs[n + 1]
    BY <2>1, <2>2, <2>3, EntryOpens
  <2>5. Entry(w.item).first = dirs[n + 1]
    BY <2>1, <2>3, <2>4, EntryLeads DEF Names
  <2>6. name # Empty
    BY <1>2, <2>1, NoEmptyName DEF Place
  <2> QED
    BY <2>1, <2>3, <2>4, <2>5, <2>6
<1>3. CASE w.item = NoItem
  <2>1. Step(w, name, fail) = w
    BY <1>3 DEF Step
  <2> HIDE DEF name
  <2>2. Good(w, p, n + 1, fail)
    BY <1>1, <1>2, <1>3 DEF Good, name
  <2> QED
    BY <2>1, <2>2 DEF name
<1>4. CASE w.item # NoItem /\ (Entry(w.item).kind # "dir" \/ name = Empty)
  <2> DEFINE v == [w EXCEPT !.item = NoItem]
             r == [v EXCEPT !.objects = @ - Parts(w.item)]
  <2>1. Step(w, name, fail) = r
    BY <1>4 DEF Step, fat16_free_item
  <2>2. r \in Work /\ r.item = NoItem /\ r.objects = 1
    <3>1. v \in Work /\ v.item = NoItem /\ v.objects = w.objects
      BY <1>1 DEF Work, Item
    <3> HIDE DEF v
    <3> QED
      BY <1>1, <3>1 DEF Work
  <2> HIDE DEF r, name
  <2>3. r.objects = 1 + Parts(r.item)
    BY <2>2, PartsNat
  <2>4. Good(r, p, n + 1, fail)
    BY <1>2, <1>4, <2>2, <2>3, Zenon DEF Good, name
  <2> QED
    BY <2>1, <2>4 DEF name
<1>5. CASE w.item # NoItem /\ Entry(w.item).kind = "dir" /\ name # Empty
  <2> DEFINE first == Entry(w.item).first
             found == Below(w.item, name)
             m == New(w, found, fail)
             r == [m EXCEPT !.objects = @ - Parts(w.item)]
  <2>1. Step(w, name, fail) = r
    BY <1>5 DEF Step, fat16_free_item
  <2>2. w.item \in Located /\ first \in Place
    BY <1>1, <1>5, EntryLeads DEF Work, Item
  <2>3. Finds(fat16_find_item_in_dir_by_name(first, name), first, name)
    BY <2>2, SearchFinds
  <2>4. /\ found \in Item
        /\ found # NoItem => Names(found, first, name)
        /\ w.item.filled = TRUE /\ NothingDeleted /\ first \in Directory /\ Live(first, name)
             => found # NoItem
    BY <2>3 DEF Below, Finds, Item
  <2>5. Makes(m, w, found, fail)
    BY <1>1, <2>4, NewMakes
  <2> HIDE DEF found, m
  <2>6. r \in Work /\ r.item = m.item /\ r.objects = 1 + Parts(m.item)
    BY <1>1, <2>5, PartsNat DEF Makes, Work
  <2> HIDE DEF r, first, name
  <2>7. m.item # NoItem => Names(m.item, first, name)
    BY <2>4, <2>5, MadeNames, Zenon DEF Makes
  <2>8. ASSUME m.item # NoItem, ~NamesErased(p, n + 1), ~Climbs(p, n + 1)
        PROVE  Reached(m.item, p, n + 1)
    <3>1. p[n] \notin Erased /\ ~NamesErased(p, n) /\ ~Climbs(p, n)
      BY <2>8, Shorter
    <3>2. PICK dirs \in Walks(p, n) : Names(w.item, dirs[n], p[n])
      BY <1>5, <3>1 DEF Good, Reached
    <3>3. dirs[n] \in Directory
      BY DEF Walks
    <3>4. Meant(first) \in Directory /\ Opens(dirs[n], p[n], Meant(first))
      BY <1>5, <2>2, <3>1, <3>2, <3>3, EntryOpens, EntryLeads DEF first
    <3>5. PICK on \in Walks(p, n + 1) : on[n + 1] = Meant(first)
      BY <3>4, WalkOn
    <3>6. Meant(first) # Root
      BY <2>8, <3>5, NoClimb
    <3>7. Meant(first) = first
      BY <2>2, <3>6, EntryLeads DEF first
    <3> QED
      BY <2>7, <2>8, <3>5, <3>7 DEF Reached, name
  <2>9. ASSUME fail = 0, NothingDeleted, ~Climbs(p, n + 1),
               NEW dirs \in Walks(p, n + 1), Live(dirs[n + 1], name)
        PROVE  m.item # NoItem /\ m.item.filled = TRUE /\ Names(m.item, dirs[n + 1], name)
    <3>1. w.item.filled = TRUE /\ first = dirs[n + 1] /\ first \in Directory
      BY <1>2, <2>9, Zenon DEF first
    <3>2. found # NoItem
      BY <2>4, <2>9, <3>1
    <3>3. m.item # NoItem /\ m.item.filled = TRUE
      BY <2>5, <2>9, <3>2 DEF Makes
    <3> QED
      BY <2>7, <3>1, <3>3
  <2>10. Good(r, p, n + 1, fail)
    BY <2>6, <2>8, <2>9, Zenon DEF Good, name
  <2> QED
    BY <2>1, <2>10 DEF name
<1> QED
  BY <1>3, <1>4, <1>5

\* A turn of the loop, from whatever it finds in the current item.
LEMMA StepWork ==
  ASSUME IsVolume(raw), NEW name, NEW fail \in Nat, NEW w \in Work
  PROVE  Step(w, name, fail) \in Work
<1>1. Parts(w.item) \in Nat
  BY PartsNat
<1>2. \A v \in Work : fat16_free_item(v, w.item) \in Work
  BY <1>1 DEF fat16_free_item, Work
<1>3. [w EXCEPT !.item = NoItem] \in Work
  BY DEF Work, Item
<1>4. w.item # NoItem => Below(w.item, name) \in Item
  <2>1. NoItem \in Item
    BY DEF Item
  <2>2. w.item # NoItem => Entry(w.item).first \in Place
    BY EntryLeads DEF Work, Item
  <2> QED
    BY <2>1, <2>2, SearchFinds DEF Below, Finds
<1>5. w.item # NoItem => New(w, Below(w.item, name), fail) \in Work
  BY <1>4, NewMakes, Zenon DEF Makes
<1> QED
  BY <1>2, <1>3, <1>5 DEF Step

(* The whole lookup, for a path of any length: its loop is a run of turns   *)
(* each of which keeps Good (fat16_get_dir_entry).                          *)
LEMMA LookupGood ==
  ASSUME IsVolume(raw), NEW w \in Work, w.objects = 1, NEW fail \in Nat,
         NEW n \in Nat, NEW p, Len(p) = n + 1, Head(p) = p[1]
  PROVE  Good(fat16_get_dir_entry(w, p, fail), p, n + 1, fail)
<1> DEFINE base == New(w, fat16_find_item_in_dir_by_name(Root, Head(p)), fail)
           turn == [k \in 1..n |-> [x \in Work |-> Step(x, p[k + 1], fail)]]
<1>1. Good(base, p, 1, fail)
  BY FirstGood
<1>2. base \in Work
  BY <1>1 DEF Good
<1>3. turn \in [1..n -> [Work -> Work]]
  BY StepWork
<1> HIDE DEF base
<1>4. PICK g : IsRun(g, Work, base, turn, n)
  BY <1>2, <1>3, RunExists, Zenon
<1>5. g \in [0..n -> Work] /\ g[0] = base
  BY <1>4 DEF IsRun
<1>6. ASSUME NEW k \in 1..n PROVE g[k] = Step(g[k - 1], p[k + 1], fail)
  <2>1. g[k - 1] \in Work
    BY <1>5
  <2>2. turn[k][g[k - 1]] = Step(g[k - 1], p[k + 1], fail)
    BY <2>1
  <2> QED
    BY <2>2, <1>4 DEF IsRun
<1> HIDE DEF turn
<1> DEFINE at[k \in 0..(Len(p) - 1)] ==
             IF k = 0 THEN base ELSE Step(at[k - 1], p[k + 1], fail)
<1>7. fat16_get_dir_entry(w, p, fail) = at[Len(p) - 1]
  BY DEF fat16_get_dir_entry, base
<1>8. at = [k \in 0..(Len(p) - 1) |->
              IF k = 0 THEN base ELSE Step(at[k - 1], p[k + 1], fail)]
  <2>1. \A k \in 0..n : g[k] = IF k = 0 THEN base ELSE Step(g[k - 1], p[k + 1], fail)
    BY <1>5, <1>6
  <2>2. g = [k \in 0..n |-> IF k = 0 THEN base ELSE Step(g[k - 1], p[k + 1], fail)]
    BY <1>5, <2>1
  <2>3. Len(p) - 1 = n
    OBVIOUS
  <2>4. \E h : h = [k \in 0..(Len(p) - 1) |->
                     IF k = 0 THEN base ELSE Step(h[k - 1], p[k + 1], fail)]
    BY <2>2, <2>3
  <2> QED
    BY <2>4, Zenon
<1> HIDE DEF at
<1>9. /\ at[0] = base
      /\ \A k \in 1..n : at[k] = Step(at[k - 1], p[k + 1], fail)
  BY <1>8
<1> DEFINE S == {k \in Nat : k <= n => Good(at[k], p, k + 1, fail)}
<1>10. Nat \subseteq S
  <2>1. 0 \in S
    BY <1>1, <1>9
  <2>2. ASSUME NEW k \in Nat, k \in S PROVE k + 1 \in S
    <3> SUFFICES ASSUME k + 1 <= n PROVE Good(at[k + 1], p, k + 2, fail)
      OBVIOUS
    <3>1. Good(at[k], p, k + 1, fail)
      BY <2>2
    <3>2. at[k + 1] = Step(at[k], p[k + 2], fail)
      BY <1>9
    <3>3. k + 1 \in Nat \ {0} /\ (k + 1) + 1 = k + 2
      OBVIOUS
    <3> QED
      BY <3>1, <3>2, <3>3, StepGood
  <2> HIDE DEF S
  <2> QED
    BY <2>1, <2>2, EveryNat
<1> QED
  BY <1>7, <1>10

-----------------------------------------------------------------------------
(* The invariant of the driver: the volume is as it was, and the last       *)
(* lookup returned what the path names.                                     *)
Inv ==
  /\ IsVolume(raw)
  /\ path = <<>> => result = NoItem
  /\ path # <<>> => path \in Paths
  /\ LookupSound
  /\ LookupComplete
  /\ ItemsBalanced

\* A path is a nonempty sequence of names.
LEMMA PathShape ==
  ASSUME NEW p \in Paths
  PROVE  Len(p) \in Nat \ {0} /\ Head(p) = p[1] /\ p # <<>>
<1>1. PICK n \in 1..MaxPath : p \in [1..n -> PathName]
  BY DEF Paths, PathName
<1>2. n \in Nat \ {0}
  BY <1>1, DirAssumption
<1>3. p \in Seq(PathName) /\ Len(p) = n
  BY <1>1, <1>2
<1> QED
  BY <1>1, <1>2, <1>3

\* The invariant holds before the first open.
LEMMA InitInv == Init => Inv
BY PartsNat, DirAssumption DEF Init, Inv, LookupSound, LookupComplete, ItemsBalanced

\* An open returns what its path names, and keeps what it returns and no more (fat16_open).
LEMMA OpenInv ==
  ASSUME Inv, NEW p \in Paths, NEW fail \in 0..MaxAllocs(p), fat16_open(p, fail)
  PROVE  Inv'
<1> DEFINE fd == [item |-> NoItem, allocs |-> 1, objects |-> 1]
<1>1. fd \in Work /\ fd.objects = 1
  BY SMTT(60) DEF Work, Item
<1>2. PICK n \in Nat : Len(p) = n + 1
  <2>1. Len(p) - 1 \in Nat /\ Len(p) = (Len(p) - 1) + 1
    BY PathShape
  <2> QED
    BY <2>1
<1>3. fail \in Nat
  BY <1>2 DEF MaxAllocs
<1>4. PICK w : w = fat16_get_dir_entry(fd, p, fail)
  OBVIOUS
<1>5. Good(w, p, n + 1, fail)
  <2> HIDE DEF fd
  <2> QED
    BY <1>1, <1>2, <1>3, <1>4, PathShape, LookupGood DEF Inv
<1>6. /\ path' = p /\ oom' = (fail # 0) /\ raw' = raw
      /\ result' = IF fail = 1 THEN NoItem ELSE w.item
      /\ objects' = IF fail = 1 THEN 0 ELSE IF w.item = NoItem THEN w.objects - 1 ELSE w.objects
  BY <1>4 DEF fat16_open
<1> HIDE DEF fd
<1>7. PICK r : r = result'
  OBVIOUS
<1>8. \A item : Parts(item)' = Parts(item) /\ Entry(item)' = Entry(item)
  BY <1>6, SMTT(40) DEF Parts, Entry
<1>9. \A m : /\ Walks(p, m)' = Walks(p, m) /\ (Climbs(p, m)' <=> Climbs(p, m))
             /\ NamesErased(p, m)' <=> NamesErased(p, m)
  BY <1>6, SMTT(40) DEF Walks, Opens, Climbs, NamesErased
<1>10. (NothingDeleted' <=> NothingDeleted) /\ (Exists(p)' <=> Exists(p))
  BY <1>6, <1>9, SMTT(40) DEF NothingDeleted, Exists, Live
<1>11. p # <<>> /\ Len(p) = n + 1
  BY <1>2, PathShape
<1>12. IsVolume(raw)' /\ Paths' = Paths
  BY <1>6 DEF Inv, IsVolume, Paths
<1>13. ItemsBalanced'
  <2>1. w.objects = 1 + Parts(w.item) /\ Parts(w.item) \in Nat /\ Parts(NoItem) = 0
    BY <1>5, PartsNat DEF Good
  <2>2. objects' = IF r = NoItem THEN 0 ELSE 1 + Parts(r)
    BY <1>6, <1>7, <2>1
  <2>3. Parts(result)' = Parts(r)
    BY <1>7, <1>8
  <2> QED
    BY <1>7, <2>2, <2>3 DEF ItemsBalanced
<1>14. LookupSound'
  <2> SUFFICES ASSUME r # NoItem, ~NamesErased(p, n + 1), ~Climbs(p, n + 1)
               PROVE  /\ Entry(r).name = p[n + 1]
                      /\ \E dirs \in Walks(p, n + 1) : r.dir = dirs[n + 1]
    BY <1>6, <1>7, <1>8, <1>9, <1>11 DEF LookupSound
  <2>1. r = w.item
    BY <1>6, <1>7
  <2>2. PICK dirs \in Walks(p, n + 1) : Names(r, dirs[n + 1], p[n + 1])
    BY <1>5, <2>1 DEF Good, Reached
  <2> QED
    BY <2>2, SMTT(40) DEF Names
<1>15. LookupComplete'
  <2> SUFFICES ASSUME Exists(p), fail = 0, NothingDeleted, ~Climbs(p, n + 1)
               PROVE  r # NoItem /\ r.filled = TRUE
    BY <1>6, <1>7, <1>9, <1>10, <1>11, Zenon DEF LookupComplete
  <2>1. PICK dirs \in Walks(p, n + 1) : Live(dirs[n + 1], p[n + 1])
    BY <1>11 DEF Exists
  <2> QED
    BY <1>5, <1>6, <1>7, <2>1 DEF Good
<1> QED
  BY <1>6, <1>11, <1>12, <1>13, <1>14, <1>15 DEF Inv

\* A close frees the descriptor and every part of its item (fat16_close).
LEMMA CloseInv ==
  ASSUME Inv, fat16_close
  PROVE  Inv'
<1>1. path' = <<>> /\ result' = NoItem /\ raw' = raw
  BY DEF fat16_close
<1>2. objects' = 0
  BY PartsNat DEF fat16_close, fat16_free_item, Inv, ItemsBalanced
<1>3. IsVolume(raw)'
  BY <1>1 DEF Inv, IsVolume
<1>4. LookupSound' /\ LookupComplete' /\ ItemsBalanced'
  BY <1>1, <1>2 DEF LookupSound, LookupComplete, ItemsBalanced
<1> QED
  BY <1>1, <1>3, <1>4 DEF Inv

\* The invariant always holds.
LEMMA AlwaysInv == Spec => []Inv
<1>1. Inv /\ [Next]_vars => Inv'
  <2> SUFFICES ASSUME Inv, [Next]_vars PROVE Inv'
    OBVIOUS
  <2>1. CASE UNCHANGED vars
    <3>1. IsVolume(raw)' /\ Paths' = Paths
      BY <2>1, SMTT(40) DEF vars, Inv, IsVolume, Paths
    <3>2. \A m : /\ Walks(path, m)' = Walks(path, m)
                 /\ Climbs(path, m)' <=> Climbs(path, m)
                 /\ NamesErased(path, m)' <=> NamesErased(path, m)
      BY <2>1, SMTT(40) DEF vars, Walks, Opens, Climbs, NamesErased
    <3>3. (NothingDeleted' <=> NothingDeleted) /\ (Exists(path)' <=> Exists(path))
      BY <2>1, <3>2, SMTT(40) DEF vars, NothingDeleted, Exists, Live
    <3>4. LookupSound'
      BY <2>1, <3>2 DEF vars, Inv, LookupSound, Entry
    <3>5. LookupComplete'
      BY <2>1, <3>2, <3>3 DEF vars, Inv, LookupComplete
    <3>6. ItemsBalanced'
      BY <2>1 DEF vars, Inv, ItemsBalanced, Parts, Entry
    <3> QED
      BY <2>1, <3>1, <3>4, <3>5, <3>6 DEF vars, Inv
  <2>2. CASE Next
    <3>1. CASE fat16_close
      BY <3>1, CloseInv
    <3>2. ASSUME NEW p \in Paths, NEW fail \in 0..MaxAllocs(p), fat16_open(p, fail) PROVE Inv'
      BY <3>2, OpenInv
    <3> QED
      BY <2>2, <3>1, <3>2 DEF Next
  <2> QED
    BY <2>1, <2>2
<1> QED
  BY <1>1, InitInv, PTL DEF Spec

(* For volumes of any directories and paths of any depth: what a lookup     *)
(* returns is the entry with the name of the path's last part in the        *)
(* directory that the parts before it lead to, if no part begins with 0xE5  *)
(* and the path does not climb back to the root (fat16_get_dir_entry).      *)
THEOREM LookupsSound == Spec => []LookupSound
BY AlwaysInv, PTL DEF Inv

(* For volumes of any directories and paths of any depth: where nothing is  *)
(* deleted a lookup finds everything that exists, with its entry, unless an *)
(* allocation failed or the path climbs back to the root                    *)
(* (fat16_find_item_in_dir_by_name).                                        *)
THEOREM LookupsComplete == Spec => []LookupComplete
BY AlwaysInv, PTL DEF Inv

(* For every volume, path and failing allocation: an open keeps its         *)
(* descriptor and the parts of the item it returns, a failed open keeps     *)
(* nothing, and a close frees all of it (fat16_open, fat16_free_item).      *)
THEOREM LookupsBalanced == Spec => []ItemsBalanced
BY AlwaysInv, PTL DEF Inv
==============================================================================
