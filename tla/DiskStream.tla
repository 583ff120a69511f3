------------------------------ MODULE DiskStream -----------------------------
(***************************************************************************)
(* The disk stream of src/disk/streamer.c: a byte-addressed read built     *)
(* from reads of whole sectors.  The byte at disk position p is p itself,  *)
(* so what a read returns says where every byte of it came from.           *)
(***************************************************************************)
EXTENDS Integers, Sequences

CONSTANT SectorSize     \* disk->sector_size (512)

ASSUME SectorAssumption == SectorSize \in Nat \ {0}

\* disk_read_sectors(disk, lba, 1, buf): the bytes of one sector.
disk_read_sectors(lba) == [i \in 1..SectorSize |-> lba * SectorSize + i - 1]

\* One turn of the loop of disk_stream_read: what it copies of the sector
\* that holds pos when size bytes are still to be read.
SectorPiece(pos, size) ==
  LET lba_offset == pos % SectorSize
      to_copy == IF lba_offset + size > SectorSize
                   THEN SectorSize - lba_offset ELSE size
  IN SubSeq(disk_read_sectors(pos \div SectorSize),
            lba_offset + 1, lba_offset + to_copy)

\* disk_stream_seek(stream, pos) followed by disk_stream_read(stream, size).
RECURSIVE disk_stream_read(_, _)
disk_stream_read(pos, size) ==
  IF size = 0 THEN <<>>
  ELSE LET piece == SectorPiece(pos, size)
       IN piece \o disk_stream_read(pos + Len(piece), size - Len(piece))
==============================================================================
