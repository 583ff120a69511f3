--------------------------- MODULE FileTableProofs ---------------------------
(***************************************************************************)
(* Open files are independent of each other, for every size of the table   *)
(* and every heap.  The invariant is inductive as it stands: a driver      *)
(* descriptor is given out only while it is free, which those of the held  *)
(* descriptors are not, and a slot only while it is empty.                 *)
(*                                                                         *)
(* The second part accounts for the driver's descriptors: each one in the  *)
(* heap is behind an open file or was lost when the table was full.        *)
(***************************************************************************)
EXTENDS FileTable, TLAPS

Inv == TypeOK /\ HandlesIndependent /\ SlotsReleased

\* A seek leaves a file descriptor a file descriptor (fat16_seek).
LEMMA SoughtType ==
  ASSUME NEW d \in Open, NEW offset \in 0..Size, NEW whence
  PROVE  Sought(d, offset, whence) \in Open
BY TableAssumption DEF Sought, Open

\* So does a read (fat16_read).
LEMMA AdvancedType ==
  ASSUME NEW d \in Open, NEW n \in 0..Size
  PROVE  Advanced(d, n) \in Open
BY TableAssumption DEF Advanced, Open

\* The invariant holds of the empty table fs_init makes.
LEMMA InitInv == Init => Inv
<1> SUFFICES ASSUME Init PROVE Inv
  OBVIOUS
<1>1. TypeOK
  BY TableAssumption DEF Init, TypeOK, Slot, Fd
<1>2. HandlesIndependent /\ SlotsReleased
  BY DEF Init, HandlesIndependent, SlotsReleased, Fd, Slot
<1> QED
  BY <1>1, <1>2 DEF Inv

(* Opening a file keeps the files apart: kfopen. *)
LEMMA OpenInv ==
  ASSUME Inv, NEW f \in File, NEW o \in Obj, kfopen(f, o)
  PROVE  Inv'
<1>1. PICK i \in FreeSlots :
        /\ obj[o] = Null
        /\ obj' = [obj EXCEPT ![o] = Fresh(f)]
        /\ file_descriptors' = [file_descriptors EXCEPT ![i] = o]
        /\ held' = [held EXCEPT ![i + 1] = Fresh(f)]
        /\ ret' = i + 1
        /\ UNCHANGED lost
  BY Zenon DEF kfopen
<1>2. i \in Slot /\ i + 1 \in Fd /\ file_descriptors[i] = Null
  BY <1>1, TableAssumption DEF FreeSlots, Slot, Fd
<1>3. Fresh(f) \in Open /\ Fresh(f) # Null
  BY TableAssumption DEF Fresh, Open
<1>4. TypeOK'
  BY <1>1, <1>2, <1>3, TableAssumption DEF Inv, TypeOK, Slot, Fd
<1>5. held[i + 1] = Null
  BY <1>2 DEF Inv, HandlesIndependent, Fd, Slot
<1>6. \A fd \in Fd : fd - 1 \in Slot /\ (fd - 1 = i <=> fd = i + 1)
  BY <1>2, TableAssumption DEF Fd, Slot
<1>7. \A fd \in Fd : held[fd] # Null =>
        file_descriptors[fd - 1] \in Obj /\ file_descriptors[fd - 1] # o
  BY <1>1, <1>6 DEF Inv, TypeOK, HandlesIndependent
<1>8. \A fd \in Fd : fd # i + 1 =>
        held'[fd] = held[fd] /\ file_descriptors'[fd - 1] = file_descriptors[fd - 1]
  BY <1>1, <1>6 DEF Inv, TypeOK
<1>9. held'[i + 1] = Fresh(f) /\ file_descriptors'[i] = o /\ obj'[o] = Fresh(f)
  BY <1>1, <1>2 DEF Inv, TypeOK
<1>10. \A x \in Obj : x # o => obj'[x] = obj[x]
  BY <1>1 DEF Inv, TypeOK
<1>11. HandlesIndependent'
  <2> SUFFICES ASSUME NEW fd \in Fd, held'[fd] # Null
               PROVE  /\ file_descriptors'[fd - 1] # Null
                      /\ obj'[file_descriptors'[fd - 1]] = held'[fd]
                      /\ \A other \in Fd \ {fd} : held'[other] # Null =>
                           file_descriptors'[other - 1] # file_descriptors'[fd - 1]
    BY DEF HandlesIndependent
  <2>1. CASE fd = i + 1
    <3>1. fd - 1 = i
      BY <2>1, <1>6
    <3> QED
      BY <3>1, <2>1, <1>7, <1>8, <1>9, TableAssumption
  <2>2. CASE fd # i + 1
    <3>1. /\ held[fd] # Null /\ held'[fd] = held[fd]
          /\ file_descriptors'[fd - 1] = file_descriptors[fd - 1]
          /\ file_descriptors[fd - 1] \in Obj /\ file_descriptors[fd - 1] # o
      BY <2>2, <1>7, <1>8
    <3>2. obj'[file_descriptors'[fd - 1]] = held'[fd]
      BY <3>1, <1>10 DEF Inv, HandlesIndependent
    <3>3. ASSUME NEW other \in Fd \ {fd}, held'[other] # Null
          PROVE  file_descriptors'[other - 1] # file_descriptors'[fd - 1]
      <4>1. CASE other = i + 1
        BY <4>1, <3>1, <1>6, <1>9
      <4>2. CASE other # i + 1
        BY <4>2, <3>1, <3>3, <1>8 DEF Inv, HandlesIndependent
      <4> QED
        BY <4>1, <4>2
    <3> QED
      BY <3>1, <3>2, <3>3, TableAssumption
  <2> QED
    BY <2>1, <2>2
<1>12. SlotsReleased'
  <2> SUFFICES ASSUME NEW j \in Slot, file_descriptors'[j] # Null
               PROVE  held'[j + 1] # Null \/ j = MaxFds - 1
    BY DEF SlotsReleased
  <2>1. CASE j = i
    BY <2>1, <1>9, <1>3
  <2>2. CASE j # i
    <3>1. file_descriptors'[j] = file_descriptors[j] /\ j + 1 \in Fd /\ j + 1 # i + 1
      BY <2>2, <1>1, <1>2, TableAssumption DEF Inv, TypeOK, Slot, Fd
    <3> QED
      BY <3>1, <1>8 DEF Inv, SlotsReleased
  <2> QED
    BY <2>1, <2>2
<1> QED
  BY <1>4, <1>11, <1>12 DEF Inv

(* A step that changes one open file, in the table's eyes and in its        *)
(* holder's alike, keeps the files apart: kfseek and kfread.                *)
LEMMA MoveInv ==
  ASSUME Inv, NEW fd \in Fd, held[fd] # Null,
         NEW d \in Open, NEW e \in Open,
         d = e,
         obj' = [obj EXCEPT ![PrivateData(fd)] = d],
         held' = [held EXCEPT ![fd] = e],
         UNCHANGED <<file_descriptors, lost, ret>>
  PROVE  Inv'
<1>1. fd - 1 \in Slot /\ PrivateData(fd) \in Obj /\ d # Null
  BY TableAssumption DEF Inv, TypeOK, HandlesIndependent, PrivateData, Fd, Slot, Open
<1>2. TypeOK'
  BY <1>1 DEF Inv, TypeOK
<1>3. \A g \in Fd : held'[g] # Null <=> held[g] # Null
  BY <1>1 DEF Inv, TypeOK
<1>4. HandlesIndependent'
  <2> SUFFICES ASSUME NEW g \in Fd, held'[g] # Null
               PROVE  /\ file_descriptors[g - 1] # Null
                      /\ obj'[file_descriptors[g - 1]] = held'[g]
                      /\ \A other \in Fd \ {g} : held'[other] # Null =>
                           file_descriptors[other - 1] # file_descriptors[g - 1]
    BY DEF HandlesIndependent
  <2>1. held[g] # Null
    BY <1>3
  <2>2. /\ file_descriptors[g - 1] # Null
        /\ obj[file_descriptors[g - 1]] = held[g]
        /\ \A other \in Fd \ {g} : held'[other] # Null =>
             file_descriptors[other - 1] # file_descriptors[g - 1]
    BY <2>1, <1>3 DEF Inv, HandlesIndependent
  <2>3. obj'[file_descriptors[g - 1]] = held'[g]
    <3>1. CASE g = fd
      BY <3>1, <1>1 DEF Inv, TypeOK, PrivateData
    <3>2. CASE g # fd
      <4>1. file_descriptors[g - 1] \in Obj /\ file_descriptors[g - 1] # PrivateData(fd)
        BY <3>2, <2>1, <2>2, TableAssumption
           DEF Inv, TypeOK, HandlesIndependent, PrivateData, Fd, Slot
      <4> QED
        BY <4>1, <3>2, <2>2 DEF Inv, TypeOK
    <3> QED
      BY <3>1, <3>2
  <2> QED
    BY <2>2, <2>3
<1>5. SlotsReleased'
  BY <1>3, TableAssumption DEF Inv, SlotsReleased, Slot, Fd
<1> QED
  BY <1>2, <1>4, <1>5 DEF Inv

\* kfseek keeps the invariant.
LEMMA SeekInv ==
  ASSUME Inv, NEW fd \in 0..(MaxFds + 1), NEW offset \in 0..Size, NEW whence,
         kfseek(fd, offset, whence)
  PROVE  Inv'
<1>1. CASE HasDescriptor(fd)
  <2>1. /\ fd \in Fd /\ held[fd] # Null
        /\ obj' = [obj EXCEPT ![PrivateData(fd)] = Sought(obj[PrivateData(fd)], offset, whence)]
        /\ held' = [held EXCEPT ![fd] = Sought(held[fd], offset, whence)]
        /\ UNCHANGED <<file_descriptors, lost, ret>>
    BY <1>1, TableAssumption DEF kfseek, HasDescriptor, Fd
  <2>2. obj[PrivateData(fd)] = held[fd] /\ held[fd] \in Open
    BY <2>1 DEF Inv, TypeOK, HandlesIndependent, PrivateData
  <2>3. Sought(held[fd], offset, whence) \in Open
    BY <2>2, SoughtType
  <2> QED
    BY <2>1, <2>2, <2>3, MoveInv, Zenon
<1>2. CASE ~HasDescriptor(fd)
  BY <1>2 DEF kfseek, vars, Inv, TypeOK, HandlesIndependent, SlotsReleased
<1> QED
  BY <1>1, <1>2

\* kfread keeps the invariant.
LEMMA ReadInv ==
  ASSUME Inv, NEW fd \in 0..(MaxFds + 1), NEW n \in 0..Size, kfread(fd, n)
  PROVE  Inv'
<1>1. CASE HasDescriptor(fd) /\ n > 0
  <2>1. /\ fd \in Fd /\ held[fd] # Null
        /\ obj' = [obj EXCEPT ![PrivateData(fd)] = Advanced(obj[PrivateData(fd)], n)]
        /\ held' = [held EXCEPT ![fd] = Advanced(held[fd], n)]
        /\ UNCHANGED <<file_descriptors, lost, ret>>
    BY <1>1, TableAssumption DEF kfread, HasDescriptor, Fd
  <2>2. obj[PrivateData(fd)] = held[fd] /\ held[fd] \in Open
    BY <2>1 DEF Inv, TypeOK, HandlesIndependent, PrivateData
  <2>3. Advanced(held[fd], n) \in Open
    BY <2>2, AdvancedType
  <2> QED
    BY <2>1, <2>2, <2>3, MoveInv, Zenon
<1>2. CASE ~(HasDescriptor(fd) /\ n > 0)
  BY <1>2 DEF kfread, vars, Inv, TypeOK, HandlesIndependent, SlotsReleased
<1> QED
  BY <1>1, <1>2

\* kfclose keeps the invariant, of the last descriptor too, whose slot stays taken.
LEMMA CloseInv ==
  ASSUME Inv, NEW fd \in 0..(MaxFds + 1), kfclose(fd)
  PROVE  Inv'
<1>1. CASE HasDescriptor(fd)
  <2>1. /\ fd \in Fd /\ held[fd] # Null
        /\ obj' = [obj EXCEPT ![PrivateData(fd)] = Null]
        /\ held' = [held EXCEPT ![fd] = Null]
        /\ UNCHANGED <<lost, ret>>
    BY <1>1, TableAssumption DEF kfclose, fat16_close, HasDescriptor, Fd
  <2>2. /\ file_descriptors' \in [Slot -> Obj \cup {Null}]
        /\ \A i \in Slot : i # fd - 1 => file_descriptors'[i] = file_descriptors[i]
        /\ fd # MaxFds => file_descriptors'[fd - 1] = Null
    BY <1>1, <2>1, TableAssumption
       DEF kfclose, free_file_descriptor, Inv, TypeOK, Fd, Slot
  <2>3. TypeOK'
    BY <2>1, <2>2, Zenon DEF Inv, TypeOK
  <2>4. ASSUME NEW g \in Fd, held'[g] # Null
        PROVE  /\ g # fd /\ held[g] # Null /\ held'[g] = held[g]
               /\ file_descriptors'[g - 1] = file_descriptors[g - 1]
    <3>1. held'[fd] = Null /\ \A x \in Fd : x # fd => held'[x] = held[x]
      BY <2>1 DEF Inv, TypeOK
    <3>2. g # fd /\ held[g] # Null /\ held'[g] = held[g]
      BY <3>1, <2>4
    <3>3. g - 1 \in Slot /\ g - 1 # fd - 1
      BY <3>2, <2>1, TableAssumption DEF Fd, Slot
    <3> QED
      BY <3>2, <3>3, <2>2
  <2>5. HandlesIndependent'
    <3> SUFFICES ASSUME NEW g \in Fd, held'[g] # Null
                 PROVE  /\ file_descriptors'[g - 1] # Null
                        /\ obj'[file_descriptors'[g - 1]] = held'[g]
                        /\ \A other \in Fd \ {g} : held'[other] # Null =>
                             file_descriptors'[other - 1] # file_descriptors'[g - 1]
      BY DEF HandlesIndependent
    <3>1. /\ file_descriptors[g - 1] \in Obj
          /\ file_descriptors[g - 1] # PrivateData(fd)
          /\ file_descriptors[g - 1] # Null
          /\ obj[file_descriptors[g - 1]] = held[g]
      BY <2>1, <2>4, TableAssumption DEF Inv, TypeOK, HandlesIndependent, PrivateData, Fd, Slot
    <3>2. obj'[file_descriptors'[g - 1]] = held'[g]
      BY <3>1, <2>1, <2>4 DEF Inv, TypeOK
    <3>3. \A other \in Fd \ {g} : held'[other] # Null =>
            file_descriptors'[other - 1] # file_descriptors'[g - 1]
      BY <2>4 DEF Inv, HandlesIndependent
    <3> QED
      BY <3>1, <3>2, <3>3, <2>4
  <2>6. SlotsReleased'
    <3> SUFFICES ASSUME NEW i \in Slot, file_descriptors'[i] # Null
                 PROVE  held'[i + 1] # Null \/ i = MaxFds - 1
      BY DEF SlotsReleased
    <3>1. CASE i = fd - 1
      BY <3>1, <2>1, <2>2, TableAssumption DEF Fd, Slot
    <3>2. CASE i # fd - 1
      BY <3>2, <2>1, <2>2, TableAssumption DEF Inv, TypeOK, SlotsReleased, Fd, Slot
    <3> QED
      BY <3>1, <3>2
  <2> QED
    BY <2>3, <2>5, <2>6 DEF Inv
<1>2. CASE ~HasDescriptor(fd)
  BY <1>2 DEF kfclose, vars, Inv, TypeOK, HandlesIndependent, SlotsReleased
<1> QED
  BY <1>1, <1>2

(* A failed kfopen touches no open file. *)
LEMMA NoDescriptorInv ==
  ASSUME Inv, NEW f \in File, NEW o \in Obj, kfopen_no_descriptor(f, o)
  PROVE  Inv'
<1>1. Fresh(f) \in Open
  BY TableAssumption DEF Fresh, Open
<1>2. TypeOK'
  BY <1>1, TableAssumption DEF kfopen_no_descriptor, Inv, TypeOK
<1>3. HandlesIndependent'
  <2>1. ASSUME NEW fd \in Fd, held[fd] # Null
        PROVE  obj'[file_descriptors[fd - 1]] = held[fd]
    <3>1. file_descriptors[fd - 1] \in Obj /\ file_descriptors[fd - 1] # o
      BY <2>1, TableAssumption
         DEF kfopen_no_descriptor, Inv, TypeOK, HandlesIndependent, Fd, Slot
    <3> QED
      BY <3>1, <2>1 DEF kfopen_no_descriptor, Inv, TypeOK, HandlesIndependent
  <2> QED
    BY <2>1 DEF kfopen_no_descriptor, Inv, HandlesIndependent
<1>4. SlotsReleased'
  BY DEF kfopen_no_descriptor, Inv, SlotsReleased
<1> QED
  BY <1>2, <1>3, <1>4 DEF Inv

(* For every size of the descriptor table: two open files never share       *)
(* state, each is where its holder's own calls brought it, and only the     *)
(* last slot can be left taken by a closed file (src/fs/file.c).            *)
THEOREM OpenFilesIndependent == Spec => [](TypeOK /\ HandlesIndependent /\ SlotsReleased)
<1>1. Init => Inv
  BY InitInv
<1>2. Inv /\ [Next]_vars => Inv'
  <2> SUFFICES ASSUME Inv, [Next]_vars PROVE Inv'
    OBVIOUS
  <2>1. CASE UNCHANGED vars
    BY <2>1 DEF vars, Inv, TypeOK, HandlesIndependent, SlotsReleased
  <2>2. CASE kfopen_refused
    BY <2>2, TableAssumption
       DEF kfopen_refused, Inv, TypeOK, HandlesIndependent, SlotsReleased
  <2> QED
    BY <2>1, <2>2, OpenInv, NoDescriptorInv, SeekInv, ReadInv, CloseInv DEF Next
<1> QED
  BY <1>1, <1>2, PTL DEF Spec, Inv

-----------------------------------------------------------------------------
\* The driver's descriptor x is the one behind a file that is open.
Behind(x) == \E fd \in Fd : held[fd] # Null /\ file_descriptors[fd - 1] = x

(* ObjectsAccounted address by address, with what makes it inductive: a     *)
(* lost descriptor is behind no open file, so a close never frees one.      *)
Accounted ==
  /\ \A x \in Obj : obj[x] # Null <=> x \in lost \/ Behind(x)
  /\ \A fd \in Fd : held[fd] # Null => file_descriptors[fd - 1] \notin lost

\* Slots, descriptors and addresses, in the form the steps below use.
LEMMA HeldObjects ==
  ASSUME Inv
  PROVE  /\ \A fd \in Fd : fd - 1 \in Slot
         /\ \A i \in Slot : i + 1 \in Fd
         /\ \A fd \in Fd : held[fd] # Null => file_descriptors[fd - 1] \in Obj
<1>1. (\A fd \in Fd : fd - 1 \in Slot) /\ (\A i \in Slot : i + 1 \in Fd)
  BY TableAssumption DEF Fd, Slot
<1> QED
  BY <1>1 DEF Inv, TypeOK, HandlesIndependent

\* Every descriptor a kfopen takes is accounted for (kfopen).
LEMMA OpenAccounted ==
  ASSUME Inv, Accounted, NEW f \in File, NEW o \in Obj, kfopen(f, o)
  PROVE  Accounted'
<1>1. PICK i \in FreeSlots :
        /\ obj[o] = Null
        /\ obj' = [obj EXCEPT ![o] = Fresh(f)]
        /\ file_descriptors' = [file_descriptors EXCEPT ![i] = o]
        /\ held' = [held EXCEPT ![i + 1] = Fresh(f)]
        /\ UNCHANGED lost
  BY Zenon DEF kfopen
<1>2. i \in Slot /\ i + 1 \in Fd /\ file_descriptors[i] = Null
  BY <1>1, HeldObjects DEF FreeSlots
<1>3. Fresh(f) # Null
  BY TableAssumption DEF Fresh
<1>4. held[i + 1] = Null
  BY <1>2 DEF Inv, HandlesIndependent, Fd, Slot
<1>5. \A fd \in Fd : fd # i + 1 =>
        held'[fd] = held[fd] /\ file_descriptors'[fd - 1] = file_descriptors[fd - 1]
  <2>1. \A fd \in Fd : fd # i + 1 => fd - 1 \in Slot /\ fd - 1 # i
    BY <1>2, TableAssumption DEF Fd, Slot
  <2> QED
    BY <2>1, <1>1 DEF Inv, TypeOK
<1>6. /\ i \in Int /\ held'[i + 1] = Fresh(f) /\ file_descriptors'[i] = o
      /\ obj'[o] = Fresh(f) /\ \A x \in Obj : x # o => obj'[x] = obj[x]
  <2>1. i \in Int
    BY <1>2, TableAssumption DEF Slot
  <2> QED
    BY <1>1, <1>2, <2>1 DEF Inv, TypeOK
<1>7. \A x : Behind(x)' <=> x = o \/ Behind(x)
  <2>1. \A x : Behind(x) => Behind(x)'
    BY <1>4, <1>5, Zenon DEF Behind
  <2>2. Behind(o)'
    BY <1>2, <1>3, <1>6 DEF Behind
  <2>3. ASSUME NEW x, NEW fd \in Fd, held'[fd] # Null, file_descriptors'[fd - 1] = x
        PROVE  x = o \/ Behind(x)
    <3>1. CASE fd = i + 1
      BY <3>1, <2>3, <1>6
    <3>2. CASE fd # i + 1
      BY <3>2, <2>3, <1>5 DEF Behind
    <3> QED
      BY <3>1, <3>2
  <2>4. \A x : Behind(x)' => x = o \/ Behind(x)
    BY <2>3, Zenon DEF Behind
  <2> QED
    BY <2>1, <2>2, <2>4
<1>8. o \notin lost
  BY <1>1 DEF Accounted
<1>9. \A x \in Obj : obj'[x] # Null <=> x \in lost' \/ Behind(x)'
  BY <1>1, <1>3, <1>6, <1>7 DEF Accounted
<1>10. ASSUME NEW fd \in Fd, held'[fd] # Null
       PROVE  file_descriptors'[fd - 1] \notin lost'
  <2>1. CASE fd = i + 1
    BY <2>1, <1>1, <1>6, <1>8
  <2>2. CASE fd # i + 1
    BY <2>2, <1>1, <1>5, <1>10 DEF Accounted
  <2> QED
    BY <2>1, <2>2
<1> QED
  BY <1>9, <1>10 DEF Accounted

\* A descriptor whose kfopen found no slot is accounted for as lost.
LEMMA NoDescriptorAccounted ==
  ASSUME Inv, Accounted, NEW f \in File, NEW o \in Obj, kfopen_no_descriptor(f, o)
  PROVE  Accounted'
<1>1. /\ Fresh(f) # Null /\ obj[o] = Null
      /\ obj' = [obj EXCEPT ![o] = Fresh(f)]
      /\ lost' = lost \cup {o}
      /\ UNCHANGED <<file_descriptors, held>>
  BY TableAssumption DEF kfopen_no_descriptor, Fresh
<1>2. obj'[o] = Fresh(f) /\ \A x \in Obj : x # o => obj'[x] = obj[x]
  BY <1>1 DEF Inv, TypeOK
<1>3. \A x : Behind(x)' <=> Behind(x)
  BY <1>1 DEF Behind
<1>4. \A x \in Obj : obj'[x] # Null <=> x \in lost' \/ Behind(x)'
  BY <1>1, <1>2, <1>3 DEF Accounted
<1>5. \A fd \in Fd : held[fd] # Null => file_descriptors[fd - 1] # o
  BY <1>1, HeldObjects DEF Accounted, Behind
<1>6. \A fd \in Fd : held'[fd] # Null => file_descriptors'[fd - 1] \notin lost'
  BY <1>1, <1>5 DEF Accounted
<1> QED
  BY <1>4, <1>6 DEF Accounted

\* Seeking and reading take and free no descriptor.
LEMMA MoveAccounted ==
  ASSUME Inv, Accounted, NEW fd \in Fd, held[fd] # Null,
         NEW d \in Open,
         obj' = [obj EXCEPT ![PrivateData(fd)] = d],
         held' = [held EXCEPT ![fd] = d],
         UNCHANGED <<file_descriptors, lost>>
  PROVE  Accounted'
<1>1. d # Null
  BY TableAssumption DEF Open
<1>2. \A g \in Fd : held'[g] # Null <=> held[g] # Null
  BY <1>1 DEF Inv, TypeOK
<1>3. \A x \in Obj : obj'[x] # Null <=> obj[x] # Null
  BY <1>1 DEF Inv, TypeOK, HandlesIndependent, PrivateData
<1>4. \A x : Behind(x)' <=> Behind(x)
  BY <1>2 DEF Behind
<1> QED
  BY <1>2, <1>3, <1>4 DEF Accounted

\* A close frees the descriptor behind the file it closes and no other (fat16_close).
LEMMA CloseAccounted ==
  ASSUME Inv, Accounted, NEW fd \in Fd, HasDescriptor(fd), kfclose(fd)
  PROVE  Accounted'
<1>1. /\ held[fd] # Null
      /\ obj' = [obj EXCEPT ![PrivateData(fd)] = Null]
      /\ held' = [held EXCEPT ![fd] = Null]
      /\ UNCHANGED lost
  BY DEF kfclose, fat16_close
<1>2. \A i \in Slot : i # fd - 1 => file_descriptors'[i] = file_descriptors[i]
  BY DEF kfclose, free_file_descriptor, Inv, TypeOK
<1>3. PrivateData(fd) \in Obj
  BY <1>1, HeldObjects DEF PrivateData
<1>4. held'[fd] = Null /\ \A g \in Fd : g # fd =>
        held'[g] = held[g] /\ file_descriptors'[g - 1] = file_descriptors[g - 1]
  <2>1. \A g \in Fd : g # fd => g - 1 \in Slot /\ g - 1 # fd - 1
    BY TableAssumption DEF Fd, Slot
  <2> QED
    BY <1>1, <1>2, <2>1 DEF Inv, TypeOK
<1>5. obj'[PrivateData(fd)] = Null /\ \A x \in Obj : x # PrivateData(fd) => obj'[x] = obj[x]
  BY <1>1, <1>3 DEF Inv, TypeOK
<1>6. \A x : Behind(x)' <=> Behind(x) /\ x # PrivateData(fd)
  <2>1. \A g \in Fd : g # fd /\ held[g] # Null => file_descriptors[g - 1] # PrivateData(fd)
    BY <1>1 DEF Inv, HandlesIndependent, PrivateData
  <2> QED
    BY <1>1, <1>4, <2>1 DEF Behind, PrivateData
<1>7. PrivateData(fd) \notin lost
  BY <1>1 DEF Accounted, PrivateData
<1>8. \A x \in Obj : obj'[x] # Null <=> x \in lost' \/ Behind(x)'
  BY <1>1, <1>5, <1>6, <1>7 DEF Accounted
<1>9. \A g \in Fd : held'[g] # Null => file_descriptors'[g - 1] \notin lost'
  BY <1>1, <1>4 DEF Accounted
<1> QED
  BY <1>8, <1>9 DEF Accounted

(* Every call on the table keeps the account, whatever descriptor it is     *)
(* given (kfopen, kfseek, kfread, kfclose).                                 *)
LEMMA StepAccounted ==
  ASSUME Inv, Accounted, [Next]_vars
  PROVE  Accounted'
<1>1. ASSUME UNCHANGED <<file_descriptors, obj, held, lost>>
      PROVE  Accounted'
  BY <1>1 DEF Accounted, Behind
<1>2. CASE UNCHANGED vars \/ kfopen_refused
  BY <1>1, <1>2 DEF vars, kfopen_refused
<1>3. ASSUME NEW fd \in 0..(MaxFds + 1), NEW offset \in 0..Size, NEW whence,
             kfseek(fd, offset, whence)
      PROVE  Accounted'
  <2>1. CASE ~HasDescriptor(fd)
    BY <2>1, <1>1, <1>3 DEF kfseek, vars
  <2>2. CASE HasDescriptor(fd)
    <3>1. /\ fd \in Fd /\ held[fd] # Null
          /\ obj' = [obj EXCEPT ![PrivateData(fd)] = Sought(obj[PrivateData(fd)], offset, whence)]
          /\ held' = [held EXCEPT ![fd] = Sought(held[fd], offset, whence)]
          /\ UNCHANGED <<file_descriptors, lost>>
      BY <1>3, <2>2, TableAssumption DEF kfseek, HasDescriptor, Fd
    <3>2. obj[PrivateData(fd)] = held[fd] /\ held[fd] \in Open
      BY <3>1 DEF Inv, TypeOK, HandlesIndependent, PrivateData
    <3> QED
      BY <3>1, <3>2, SoughtType, MoveAccounted, Zenon
  <2> QED
    BY <2>1, <2>2
<1>4. ASSUME NEW fd \in 0..(MaxFds + 1), NEW n \in 0..Size, kfread(fd, n)
      PROVE  Accounted'
  <2>1. CASE ~(HasDescriptor(fd) /\ n > 0)
    BY <2>1, <1>1, <1>4 DEF kfread, vars
  <2>2. CASE HasDescriptor(fd) /\ n > 0
    <3>1. /\ fd \in Fd /\ held[fd] # Null
          /\ obj' = [obj EXCEPT ![PrivateData(fd)] = Advanced(obj[PrivateData(fd)], n)]
          /\ held' = [held EXCEPT ![fd] = Advanced(held[fd], n)]
          /\ UNCHANGED <<file_descriptors, lost>>
      BY <1>4, <2>2, TableAssumption DEF kfread, HasDescriptor, Fd
    <3>2. obj[PrivateData(fd)] = held[fd] /\ held[fd] \in Open
      BY <3>1 DEF Inv, TypeOK, HandlesIndependent, PrivateData
    <3> QED
      BY <3>1, <3>2, AdvancedType, MoveAccounted, Zenon
  <2> QED
    BY <2>1, <2>2
<1>5. ASSUME NEW fd \in 0..(MaxFds + 1), kfclose(fd)
      PROVE  Accounted'
  <2>1. CASE ~HasDescriptor(fd)
    BY <2>1, <1>1, <1>5 DEF kfclose, vars
  <2>2. CASE HasDescriptor(fd)
    <3>1. fd \in Fd
      BY <2>2, TableAssumption DEF HasDescriptor, Fd
    <3> QED
      BY <3>1, <2>2, <1>5, CloseAccounted
  <2> QED
    BY <2>1, <2>2
<1> QED
  BY <1>2, <1>3, <1>4, <1>5, OpenAccounted, NoDescriptorAccounted DEF Next

(* For every size of the table and every heap: the driver's descriptors in  *)
(* the heap are those of the open files and those whose kfopen found no     *)
(* slot, so no close, no seek, no read and no other failed kfopen leaks one *)
(* (fat16_open, fat16_close, kfopen, kfclose).                              *)
THEOREM DescriptorsAccounted == Spec => []ObjectsAccounted
<1>1. Init => Accounted
  BY DEF Init, Accounted, Behind, Fd
<1>2. Inv /\ Accounted /\ [Next]_vars => Accounted'
  BY StepAccounted
<1>3. Inv /\ Accounted => ObjectsAccounted
  <2> SUFFICES ASSUME Inv, Accounted
               PROVE  \A x : (x \in Obj /\ obj[x] # Null) <=> (x \in lost \/ Behind(x))
    BY ZenonT(40) DEF ObjectsAccounted, Behind
  <2>1. \A x : x \in lost \/ Behind(x) => x \in Obj
    BY HeldObjects DEF Behind, Inv, TypeOK
  <2> QED
    BY <2>1 DEF Accounted
<1>4. Spec => []Inv
  BY OpenFilesIndependent, PTL DEF Inv
<1> QED
  BY <1>1, <1>2, <1>3, <1>4, PTL DEF Spec
==============================================================================
