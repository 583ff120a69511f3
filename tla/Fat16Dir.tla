------------------------------ MODULE Fat16Dir -------------------------------
(***************************************************************************)
(* Finding a file by its path in a FAT16 volume: loading a directory and   *)
(* searching it, fat16_load_root_dir, fat16_load_fat_dir,                  *)
(* fat16_find_item_in_dir_by_name, fat16_get_dir_entry and fat16_open of   *)
(* src/fs/fat/fat16.c, with every allocation on the way that can fail.     *)
(*                                                                         *)
(* A directory is the sequence of its raw 32-byte entries up to the null   *)
(* entry.  Deleting an entry sets the first byte of its name to 0xE5 and   *)
(* leaves the rest: a deleted entry still has a name, a kind and a first   *)
(* cluster.  A live name never begins with that byte (FAT stores 0x05      *)
(* instead), but a part of a path may.  A name stands for the class of     *)
(* spellings that istrncmp takes for equal.  A subdirectory is one         *)
(* cluster, and is called by it.  An item says whether what it points to,  *)
(* a loaded directory or a copy of the entry, is there (filled) or null.   *)
(***************************************************************************)
EXTENDS Integers, Sequences, FiniteSets, FiniteSetsExt

CONSTANTS
  Name,      \* names of live entries, "." and ".." among them
  Erased,    \* names that begin with 0xE5
  SubDir,    \* the subdirectories of the volume
  Volumes,   \* volumes: the raw entries of every directory
  MaxPath    \* bound on the parts of a path

Root == "root"
Zero == "zero"        \* what lies where cluster 0 would be, no directory
Empty == "empty"      \* the part after a trailing '/'

NoItem == [dir |-> "none", index |-> 0, filled |-> FALSE]

Directory == {Root} \cup SubDir

\* What the first cluster of an entry may be: 0 is that of the ".." of a
\* directory in the root.
Cluster == SubDir \cup {Zero}

DirEntry == [name : Name \cup Erased, kind : {"file", "dir"}, first : Cluster]

\* No two live entries of a directory share a name.
IsVolume(v) ==
  /\ v \in [Directory \cup {Zero} -> Seq(DirEntry)]
  /\ \A d \in Directory : \A i, j \in DOMAIN v[d] :
       v[d][i].name = v[d][j].name /\ v[d][i].name \notin Erased => i = j

ASSUME DirAssumption ==
  /\ Name \cap Erased = {} /\ Empty \notin Name \cup Erased
  /\ Root \notin SubDir /\ Zero \notin SubDir
  /\ \A v \in Volumes : IsVolume(v)
  /\ MaxPath \in Nat

VARIABLES
  raw,      \* the raw entries of every directory of the volume
  path,     \* the path of the last lookup
  result,   \* the item it returned
  oom,      \* whether one of its allocations was made to fail
  objects   \* heap objects allocated and not freed by it

vars == <<raw, path, result, oom, objects>>

Init ==
  /\ raw \in Volumes
  /\ path = <<>>
  /\ result = NoItem
  /\ oom = FALSE
  /\ objects = 0

-----------------------------------------------------------------------------
\* Entries before the null entry, deleted ones not counted.
fat16_get_total_items_in_dir(d) ==
  Cardinality({i \in DOMAIN raw[d] : raw[d][i].name \notin Erased})

\* The whole table of the root directory is loaded, and of a subdirectory as
\* many raw entries as were counted.
fat16_load_root_dir ==
  [dir_entries |-> raw[Root], total_entries |-> fat16_get_total_items_in_dir(Root)]

fat16_load_fat_dir(cluster) ==
  LET total_items == fat16_get_total_items_in_dir(cluster)
  IN [dir_entries |-> SubSeq(raw[cluster], 1, total_items), total_entries |-> total_items]

Dir(d) == IF d = Root THEN fat16_load_root_dir ELSE fat16_load_fat_dir(d)

FirstHit(d, hits) == IF hits = {} THEN NoItem ELSE [dir |-> d, index |-> Min(hits), filled |-> TRUE]

\* As if the search stopped one entry early.
FindShort(d, name) ==
  FirstHit(d, {i \in 1..(Dir(d).total_entries - 1) : Dir(d).dir_entries[i].name = name})

\* The search goes by the count, through a table that has deleted entries too,
\* and does not tell them from live ones.
fat16_find_item_in_dir_by_name(d, name) ==
  FirstHit(d, {i \in 1..Dir(d).total_entries : Dir(d).dir_entries[i].name = name})

\* The entry an item was made from.
Entry(item) == raw[item.dir][item.index]

\* The objects of an item, which fat16_free_item and fat16_free_dir free:
\* itself and the copy of the entry, or the directory and its entries.
Parts(item) ==
  IF item = NoItem THEN 0
  ELSE IF ~item.filled THEN 1
  ELSE IF Entry(item).kind = "dir" THEN 3 ELSE 2

\* fat16_new_fat_item_from_dir_entry for what was found, if anything, when
\* allocation number fail of the open returns null.  A failure inside
\* fat16_load_fat_dir or fat16_clone_dir_entry gives an item with a null
\* pointer; fat16_load_fat_dir frees what it had taken.
New(w, found, fail) ==
  LET inner == (w.allocs + 2)..(w.allocs + Parts(found))
      item == IF found = NoItem \/ fail = w.allocs + 1 THEN NoItem
              ELSE [found EXCEPT !.filled = fail \notin inner]
  IN [item |-> item,
      allocs |-> w.allocs + Parts(found),
      objects |-> w.objects + Parts(item)]

fat16_free_item(w, item) == [w EXCEPT !.objects = @ - Parts(item)]

\* What the search of the directory behind an item finds.  If the directory is
\* null its count is read from address 4, which the kzalloc that failed has
\* just cleared.
Below(item, name) ==
  IF item.filled THEN fat16_find_item_in_dir_by_name(Entry(item).first, name) ELSE NoItem

\* As if the item of the parent directory were not freed.
StepKeepingParent(w, name, fail) ==
  IF w.item = NoItem THEN w
  ELSE IF Entry(w.item).kind # "dir" \/ name = Empty
    THEN fat16_free_item([w EXCEPT !.item = NoItem], w.item)
  ELSE New(w, Below(w.item, name), fail)

\* As if the type of the item were not looked at.
StepThroughFile(w, name, fail) ==
  IF w.item = NoItem THEN w
  ELSE IF name = Empty THEN fat16_free_item([w EXCEPT !.item = NoItem], w.item)
  ELSE fat16_free_item(New(w, Below(w.item, name), fail), w.item)

\* One turn of the loop of fat16_get_dir_entry, for the next part of the path.
\* After a part that was not found the loop goes on with a null item, whose
\* type and total_entries it reads from address 4: whatever it finds there, it
\* ends with no item and frees none.
Step(w, name, fail) ==
  IF w.item = NoItem THEN w
  ELSE IF Entry(w.item).kind # "dir" \/ name = Empty
    THEN fat16_free_item([w EXCEPT !.item = NoItem], w.item)
  ELSE fat16_free_item(New(w, Below(w.item, name), fail), w.item)

\* The item after the first part of the path, and after each further one.
fat16_get_dir_entry(w, p, fail) ==
  LET at[k \in 0..(Len(p) - 1)] ==
        IF k = 0 THEN New(w, fat16_find_item_in_dir_by_name(Root, Head(p)), fail)
        ELSE Step(at[k - 1], p[k + 1], fail)
  IN at[Len(p) - 1]

\* The descriptor is the first allocation; it keeps what the lookup returns.
fat16_open(p, fail) ==
  LET fd == [item |-> NoItem, allocs |-> 1, objects |-> 1]
      w == fat16_get_dir_entry(fd, p, fail)
  IN /\ path' = p
     /\ oom' = (fail # 0)
     /\ result' = IF fail = 1 THEN NoItem ELSE w.item
     /\ objects' = IF fail = 1 THEN 0 ELSE IF w.item = NoItem THEN w.objects - 1 ELSE w.objects
     /\ UNCHANGED raw

\* After an open that failed there is nothing to close.
fat16_close ==
  /\ path # <<>>
  /\ path' = <<>>
  /\ result' = NoItem
  /\ oom' = FALSE
  /\ objects' = IF result = NoItem THEN objects
                ELSE fat16_free_item([objects |-> objects], result).objects - 1
  /\ UNCHANGED raw

Paths == UNION {[1..n -> Name \cup Erased \cup {Empty}] : n \in 1..MaxPath}

\* The descriptor, and for each part at most an item, a directory and its
\* entries.  After an allocation that fails an open makes no other.
MaxAllocs(p) == 1 + 3 * Len(p)

\* kfopen refuses a path whose first part is empty.  Opens share nothing but
\* the volume, so one descriptor at a time is enough.
Next ==
  \/ /\ path = <<>>
     /\ \E p \in Paths : Head(p) # Empty /\ \E fail \in 0..MaxAllocs(p) : fat16_open(p, fail)
  \/ fat16_close

Spec == Init /\ [][Next]_vars

-----------------------------------------------------------------------------
Live(d, name) == name \notin Erased /\ \E i \in DOMAIN raw[d] : raw[d][i].name = name

\* The directory that a first cluster means: FAT writes 0 for the root.
Meant(cluster) == IF cluster = Zero THEN Root ELSE cluster

\* In directory d the name is that of directory e.
Opens(d, name, e) ==
  /\ name \notin Erased
  /\ \E i \in DOMAIN raw[d] :
       raw[d][i].name = name /\ raw[d][i].kind = "dir" /\ Meant(raw[d][i].first) = e

\* The directories that the first parts of a path pass through, from the root:
\* n of them.
Walks(p, n) ==
  {dirs \in [1..n -> Directory] :
     dirs[1] = Root /\ \A k \in 1..(n - 1) : Opens(dirs[k], p[k], dirs[k + 1])}

\* What the volume holds under a path.
Exists(p) == \E dirs \in Walks(p, Len(p)) : Live(dirs[Len(p)], p[Len(p)])

\* One of the first n directories of the path is the root again, by a "..".
Climbs(p, n) == \E m \in 2..n : \E dirs \in Walks(p, m) : dirs[m] = Root

NamesErased(p, n) == \E k \in 1..n : p[k] \in Erased

NothingDeleted == \A d \in Directory : \A i \in DOMAIN raw[d] : raw[d][i].name \notin Erased

(* What a lookup returns is the entry with the name of the path's last      *)
(* part, in the directory that the parts before it lead to, at any depth;   *)
(* a path with an empty part or through a file is not found                 *)
(* (fat16_get_dir_entry).  Two kinds of path are left out: one with a part  *)
(* that begins with 0xE5, which finds deleted entries, and one that climbs  *)
(* back to the root, which goes on in whatever lies at cluster 0.           *)
LookupSound ==
  result # NoItem /\ ~NamesErased(path, Len(path)) /\ ~Climbs(path, Len(path)) =>
    /\ Entry(result).name = path[Len(path)]
    /\ \E dirs \in Walks(path, Len(path)) : result.dir = dirs[Len(path)]

(* In directories without deleted entries everything that exists is found,  *)
(* and with its entry, unless memory runs out or the path climbs back to    *)
(* the root (fat16_find_item_in_dir_by_name).                               *)
LookupComplete ==
  path # <<>> /\ Exists(path) /\ ~oom /\ NothingDeleted /\ ~Climbs(path, Len(path))
    => result # NoItem /\ result.filled

(* Whichever allocation fails, an open leaves allocated the descriptor and  *)
(* the parts of the item it returns and no other object: the items of the   *)
(* directories on the way, and what a failure left half made, are freed     *)
(* once each (fat16_free_item, fat16_load_fat_dir, fat16_open).             *)
ItemsBalanced == objects = IF result = NoItem THEN 0 ELSE 1 + Parts(result)

(* The entries of a directory end at the null entry, as the comment in      *)
(* fat16_get_total_items_in_dir says: a live entry before it is found.      *)
EntriesEndAtNull ==
  path # <<>> /\ Exists(path) /\ ~oom /\ ~Climbs(path, Len(path)) => result # NoItem

(* What is found is not deleted.  fat16_get_total_items_in_dir calls such   *)
(* an entry unused; fat16_find_item_in_dir_by_name has no test for it.      *)
FoundIsLive == result # NoItem => Entry(result).name \notin Erased

(* The ".." of a directory in the root is the root: what exists in the root *)
(* is found through it.  fat16_load_fat_dir reads at cluster 0 instead.     *)
DotDotIsParent == path # <<>> /\ Exists(path) /\ ~oom /\ NothingDeleted => result # NoItem

(* An item that is returned has its entry.  fat16_read and fat16_stat rely  *)
(* on it; fat16_new_fat_item_from_dir_entry does not check for it.          *)
FoundIsFilled == result # NoItem => result.filled
==============================================================================
