------------------------------ MODULE Fat16File ------------------------------
(***************************************************************************)
(* Reading a file of a FAT16 volume: fat16_read and fat16_seek of          *)
(* src/fs/fat/fat16.c, with the walk along the cluster chain and the       *)
(* 32-bit arithmetic it is done in.                                        *)
(*                                                                         *)
(* The driver loads a FAT entry with a 4-byte read although an entry has   *)
(* 2 bytes (FAT16_ENTRY_SIZE), so what it sees is the entry of the cluster *)
(* plus the following entry times 2^16.  The model keeps both widths: an   *)
(* entry is below EntryMod (2^16) and an int wraps at EntryMod^2 (2^32).   *)
(* A byte of the disk is its position (DiskStream).                        *)
(***************************************************************************)
EXTENDS DiskStream, SequencesExt, FiniteSets

CONSTANTS
  EntryMod,      \* 2^16: the values a FAT entry can have
  ClusterBytes,  \* sectors_per_cluster * sector_size (128 * 512)
  Clusters,      \* the data clusters of the volume
  Marks,         \* the entry values the walk tests for: 0xFF0, 0xFF6..0xFF8, 0xFFF
  DataStart,     \* byte position of cluster 2: dir_end_sector_pos * sector_size
  MaxChain,      \* bound on the clusters of the file
  ReadSizes      \* the sizes the kernel reads with

Eoc == EntryMod - 1            \* 0xFFFF, the end mark mkfs writes
IntMod == EntryMod * EntryMod  \* 2^32
IoError == -1                  \* -STATUS_IO_ERROR

ASSUME VolumeAssumption ==
  /\ EntryMod \in Nat /\ EntryMod % 2 = 0
  /\ ClusterBytes \in Nat \ {0} /\ ClusterBytes % SectorSize = 0
  /\ ClusterBytes % EntryMod = 0     \* 128 * 512 = 2^16 in boot.asm
  /\ \A c \in Clusters : c \in 2..(EntryMod \div 2 - 1) /\ c \notin Marks
  /\ Eoc \notin Marks
  /\ DataStart \in Nat

VARIABLES
  chain,   \* the clusters of the file, in order (what the table encodes)
  fat,     \* the file allocation table
  stray,   \* the 4 bytes at a position outside the table taken for an entry
  size,    \* entry->file_size
  pos,     \* fd->pos
  start,   \* ghost: the file position at which the last read began
  unit,    \* ghost: the size of one member of the last read
  out      \* what the last read stored

vars == <<chain, fat, stray, size, pos, start, unit, out>>

volume == <<chain, fat, stray, size>>

Chains == {s \in UNION {[1..n -> Clusters] : n \in 1..MaxChain} : IsInjective(s)}

\* Every volume that holds the file, the clusters not in its chain being
\* free or the last cluster of another file.
Init ==
  /\ chain \in Chains
  /\ fat \in {[c \in 0..(EntryMod - 1) |->
                 IF c \in Range(chain)
                   THEN LET i == CHOOSE i \in DOMAIN chain : chain[i] = c
                        IN IF i = Len(chain) THEN Eoc ELSE chain[i + 1]
                 ELSE IF c \in used THEN Eoc ELSE 0] :
                used \in SUBSET (Clusters \ Range(chain))}
  /\ stray \in {0, 3, EntryMod + 3, IntMod - 1}
  /\ size \in {Len(chain) * ClusterBytes - 1, Len(chain) * ClusterBytes}
  /\ pos = 0
  /\ start = 0
  /\ unit = 1
  /\ out = <<>>

-----------------------------------------------------------------------------
\* The value of a 32-bit pattern as an int.
AsInt(x) == LET u == x % IntMod IN IF u >= IntMod \div 2 THEN u - IntMod ELSE u

\* 4 bytes from the 2-byte entry of the cluster on.
fat16_get_fat_entry(c) ==
  IF c + 1 \in DOMAIN fat THEN AsInt(fat[c] + EntryMod * fat[c + 1]) ELSE AsInt(stray)

RECURSIVE Walk(_, _)
Walk(c, hops) ==
  IF hops = 0 THEN c
  ELSE LET entry == fat16_get_fat_entry(c)
       IN IF entry <= 0 \/ entry \in Marks THEN IoError ELSE Walk(entry, hops - 1)

\* As if the number of clusters were rounded up from the offset itself.
ClusterAtRoundedUp(offset) ==
  Walk(Head(chain), (offset + ClusterBytes - 1) \div ClusterBytes)

fat16_get_cluster_at_byte_offset_from_start(offset) ==
  LET num_clusters == (offset + 1 + ClusterBytes - 1) \div ClusterBytes
  IN Walk(Head(chain), num_clusters - 1)

\* curr_byte_pos, the position handed to disk_stream_seek.
BytePos(cluster, offset) ==
  (DataStart + (cluster - 2) * ClusterBytes + (offset % ClusterBytes)) % IntMod

\* A cluster number that is an error code is used like any other.
RECURSIVE fat16_read_file_data_from_cluster(_, _)
fat16_read_file_data_from_cluster(offset, total_bytes) ==
  IF total_bytes <= 0 THEN <<>>
  ELSE LET cluster == fat16_get_cluster_at_byte_offset_from_start(offset)
           to_read == IF total_bytes > ClusterBytes THEN ClusterBytes ELSE total_bytes
       IN disk_stream_read(BytePos(cluster, offset), to_read) \o
          fat16_read_file_data_from_cluster(offset + to_read, total_bytes - to_read)

\* The kernel reads what fat16_stat promised, so not past the end of the file.
fat16_read(n, nmembs) ==
  /\ pos + n * nmembs <= size
  /\ out' = FlattenSeq([i \in 1..nmembs |->
              fat16_read_file_data_from_cluster(pos + (i - 1) * n, n)])
  /\ start' = pos
  /\ unit' = n
  /\ pos' = pos + n * nmembs
  /\ UNCHANGED volume

fat16_seek(offset, seek_mode) ==
  /\ pos' = CASE seek_mode = "FILE_SEEK_SET" /\ offset < size -> offset
              [] seek_mode = "FILE_SEEK_CUR" /\ offset < size /\ offset + pos < size
                   -> pos + offset
              [] OTHER -> pos
  /\ start' = 0
  /\ unit' = 1
  /\ out' = <<>>
  /\ UNCHANGED volume

Next ==
  \/ \E n \in ReadSizes, nmembs \in 1..2 : fat16_read(n, nmembs)
  \/ \E offset \in 0..size, mode \in {"FILE_SEEK_SET", "FILE_SEEK_CUR", "FILE_SEEK_END"} :
       fat16_seek(offset, mode)

Spec == Init /\ [][Next]_vars

-----------------------------------------------------------------------------
\* Where byte k of the file is.
FileByte(k) == DataStart + (chain[k \div ClusterBytes + 1] - 2) * ClusterBytes + (k % ClusterBytes)

\* The entry the driver sees for the i-th cluster of the file is the entry of
\* the table.
SeenAlone(i) == fat[chain[i] + 1] = 0

\* The entry it sees is not negative: the entry after it is not an end mark.
SeenPositive(i) == fat[chain[i] + 1] < EntryMod \div 2

\* The member of the last read that begins at s does not run over the end of
\* a cluster from its middle.
InOnePiece(s) ==
  s % ClusterBytes = 0 \/ s \div ClusterBytes = (s + unit - 1) \div ClusterBytes

(* A read returns the bytes of the file, from the position of the           *)
(* descriptor on and in the order of the cluster chain, whenever no member  *)
(* of it runs over the end of a cluster from its middle, the entries after  *)
(* those it follows are free, and the entry after the last one it follows   *)
(* is no end mark: the high half of a 4-byte entry then vanishes in the     *)
(* 32-bit byte position.  In particular every read inside the first cluster *)
(* is right on every volume (fat16_read_file_data_from_cluster).            *)
ReadsFollowChain ==
  out # <<>> =>
    LET hops == (start + Len(out) - 1) \div ClusterBytes
    IN /\ \A k \in 0..(Len(out) \div unit - 1) : InOnePiece(start + k * unit)
       /\ \A i \in 1..(hops - 1) : SeenAlone(i)
       /\ hops > 0 => SeenPositive(hops)
       => out = [k \in 1..Len(out) |-> FileByte(start + k - 1)]

(* The walk gives up at a position inside the file only when, as the        *)
(* comment on that branch puts it, there are no more clusters according to  *)
(* the table.  Every position inside the file has a cluster in the table.   *)
GivesUpOnlyAtEnd ==
  \A k \in 0..(size - 1) : fat16_get_cluster_at_byte_offset_from_start(k) # IoError
==============================================================================
