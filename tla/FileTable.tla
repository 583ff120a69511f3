------------------------------ MODULE FileTable ------------------------------
(***************************************************************************)
(* Open files: the descriptor table of src/fs/file.c and the descriptors   *)
(* the FAT16 driver keeps behind it (fat16_open, fat16_seek, fat16_read    *)
(* and fat16_close of src/fs/fat/fat16.c).                                 *)
(*                                                                         *)
(* obj is the heap's view of the driver's descriptors: a freed one may be  *)
(* given out again.  held is a ghost, what the kernel code that opened a   *)
(* file knows of it: the file and the position its own calls brought it    *)
(* to.  The contents of files are those of module Fat16File.               *)
(***************************************************************************)
EXTENDS Integers, FiniteSets

CONSTANTS
  MaxFds,     \* MAX_FILE_DESCRIPTORS (1024)
  Obj,        \* addresses of struct fat16_file_descriptor
  File,       \* what a path can name
  Dirs,       \* those that are directories
  Size,       \* entry->file_size
  MaxPos,     \* bound on the position of a descriptor
  Null        \* a null pointer

ASSUME TableAssumption ==
  /\ MaxFds \in Nat \ {0}
  /\ Dirs \subseteq File
  /\ Size \in Nat
  /\ MaxPos \in Nat
  /\ Null \notin Obj
  /\ Null \notin [file : File, pos : Nat]

VARIABLES
  file_descriptors,  \* private_data of the descriptor in each slot
  obj,               \* contents of the driver's descriptors
  held,              \* ghost: the open files, by fd
  lost,              \* ghost: driver descriptors no table slot ever got
  ret                \* what the last kfopen returned

vars == <<file_descriptors, obj, held, lost, ret>>

Slot == 0..(MaxFds - 1)
Fd   == 1..MaxFds
Open == [file : File, pos : Nat]

TypeOK ==
  /\ file_descriptors \in [Slot -> Obj \cup {Null}]
  /\ obj \in [Obj -> Open \cup {Null}]
  /\ held \in [Fd -> Open \cup {Null}]
  /\ lost \in SUBSET Obj
  /\ ret \in 0..MaxFds

Init ==
  /\ file_descriptors = [i \in Slot |-> Null]
  /\ obj = [o \in Obj |-> Null]
  /\ held = [fd \in Fd |-> Null]
  /\ lost = {}
  /\ ret = 0

-----------------------------------------------------------------------------
Fresh(f) == [file |-> f, pos |-> 0]

\* new_file_descriptor takes the first empty slot, if there is one.
FreeSlots ==
  {i \in Slot : /\ file_descriptors[i] = Null
                /\ \A j \in 0..(i - 1) : file_descriptors[j] # Null}

kfopen(f, o) ==
  \E i \in FreeSlots :
    /\ obj[o] = Null
    /\ obj' = [obj EXCEPT ![o] = Fresh(f)]
    /\ file_descriptors' = [file_descriptors EXCEPT ![i] = o]
    /\ held' = [held EXCEPT ![i + 1] = Fresh(f)]
    /\ ret' = i + 1
    /\ UNCHANGED lost

\* The path, the drive or the mode is refused, the file is not found, or the
\* driver has no memory for its descriptor.
kfopen_refused ==
  /\ ret' = 0
  /\ UNCHANGED <<file_descriptors, obj, held, lost>>

\* fs->open succeeded, but the table is full or there is no memory for the
\* struct file_descriptor: the driver's descriptor is not closed.
kfopen_no_descriptor(f, o) ==
  /\ obj[o] = Null
  /\ obj' = [obj EXCEPT ![o] = Fresh(f)]
  /\ lost' = lost \cup {o}
  /\ ret' = 0
  /\ UNCHANGED <<file_descriptors, held>>

\* get_file_descriptor(fd) # NULL.
HasDescriptor(fd) == fd > 0 /\ fd <= MaxFds /\ file_descriptors[fd - 1] # Null

PrivateData(fd) == file_descriptors[fd - 1]

\* The position after a seek; a directory, an offset not inside the file and
\* FILE_SEEK_END are errors that leave it alone.
Sought(d, offset, whence) ==
  IF d.file \in Dirs \/ offset >= Size THEN d
  ELSE CASE whence = "FILE_SEEK_SET" -> [d EXCEPT !.pos = offset]
         [] whence = "FILE_SEEK_CUR" /\ offset + d.pos < Size -> [d EXCEPT !.pos = @ + offset]
         [] OTHER -> d

\* The kernel passes an fd it holds, or one the table refuses.
kfseek(fd, offset, whence) ==
  IF HasDescriptor(fd)
    THEN /\ held[fd] # Null
         /\ obj' = [obj EXCEPT ![PrivateData(fd)] = Sought(@, offset, whence)]
         /\ held' = [held EXCEPT ![fd] = Sought(@, offset, whence)]
         /\ UNCHANGED <<file_descriptors, lost, ret>>
    ELSE UNCHANGED vars

Advanced(d, n) == [d EXCEPT !.pos = @ + n]

\* Nothing stops a read at the end of the file.  Both callers stat first, and
\* fat16_stat refuses a directory.
kfread(fd, n) ==
  IF HasDescriptor(fd) /\ n > 0
    THEN /\ held[fd] # Null
         /\ held[fd].file \notin Dirs
         /\ held[fd].pos + n <= MaxPos
         /\ obj' = [obj EXCEPT ![PrivateData(fd)] = Advanced(@, n)]
         /\ held' = [held EXCEPT ![fd] = Advanced(@, n)]
         /\ UNCHANGED <<file_descriptors, lost, ret>>
    ELSE UNCHANGED vars

\* As if the two highest descriptors were out of range.
SlotsAfterFreeEarly(fd) ==
  IF fd > 0 /\ fd < MaxFds - 1 THEN [file_descriptors EXCEPT ![fd - 1] = Null]
  ELSE file_descriptors

\* As if the slot of fd were numbered fd.
SlotsAfterFreeNext(fd) ==
  IF fd > 0 /\ fd < MaxFds THEN [file_descriptors EXCEPT ![fd] = Null]
  ELSE file_descriptors

\* free_file_descriptor tests fd >= MAX_FILE_DESCRIPTORS, get_file_descriptor
\* fd > MAX_FILE_DESCRIPTORS: the slot of the last descriptor stays taken.
free_file_descriptor(fd) ==
  IF fd > 0 /\ fd < MaxFds THEN [file_descriptors EXCEPT ![fd - 1] = Null]
  ELSE file_descriptors

\* As if the driver did not free its descriptor.
ClosedNotFreed(o) == obj

\* fat16_close frees the item and the descriptor.
fat16_close(o) == [obj EXCEPT ![o] = Null]

kfclose(fd) ==
  IF HasDescriptor(fd)
    THEN /\ held[fd] # Null
         /\ obj' = fat16_close(PrivateData(fd))
         /\ file_descriptors' = free_file_descriptor(fd)
         /\ held' = [held EXCEPT ![fd] = Null]
         /\ UNCHANGED <<lost, ret>>
    ELSE UNCHANGED vars

Next ==
  \/ \E f \in File, o \in Obj : kfopen(f, o) \/ kfopen_no_descriptor(f, o)
  \/ kfopen_refused
  \/ \E fd \in 0..(MaxFds + 1) :
       \/ \E offset \in 0..Size, whence \in {"FILE_SEEK_SET", "FILE_SEEK_CUR", "FILE_SEEK_END"} :
            kfseek(fd, offset, whence)
       \/ \E n \in 0..Size : kfread(fd, n)
       \/ kfclose(fd)

Spec == Init /\ [][Next]_vars

-----------------------------------------------------------------------------
(* Two open files never share state: behind every fd the kernel holds is a  *)
(* driver descriptor of its own, and it has the file and the position that  *)
(* the holder's own calls brought it to, whatever was opened, closed and    *)
(* read through other descriptors (new_file_descriptor, kfclose).           *)
HandlesIndependent ==
  \A fd \in Fd : held[fd] # Null =>
    /\ file_descriptors[fd - 1] # Null
    /\ obj[file_descriptors[fd - 1]] = held[fd]
    /\ \A other \in Fd \ {fd} : held[other] # Null =>
         file_descriptors[other - 1] # file_descriptors[fd - 1]

(* Closing a file gives its slot back, so that the table cannot fill up     *)
(* with closed files: only the last slot, which free_file_descriptor takes  *)
(* to be out of range, can be taken by a file nobody holds.                 *)
SlotsReleased ==
  \A i \in Slot : file_descriptors[i] # Null => held[i + 1] # Null \/ i = MaxFds - 1

(* The driver's descriptors in the heap are those of the open files and     *)
(* those whose kfopen found no slot: no close and no other failure leaks    *)
(* one (fat16_close, kfopen).                                               *)
ObjectsAccounted ==
  {o \in Obj : obj[o] # Null} =
    lost \cup {file_descriptors[fd - 1] : fd \in {fd \in Fd : held[fd] # Null}}

(* The comment on kfopen: it returns a descriptor (>= 1), or < 0 on error.  *)
(* Stated of every call that returns something else than the call before.   *)
KfopenReturnsFdOrError == [][ret' # 0]_ret
==============================================================================
