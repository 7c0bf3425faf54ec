----------------------------- MODULE FileRead -----------------------------
(***************************************************************************)
(* Reading a file: fat16_read and the functions below it in                *)
(* src/fs/fat/fat16.c, down to the sectors that src/disk/streamer.c asks   *)
(* the disk for and the drive delivers (module Drive).  One call is        *)
(* followed from its arguments to its end; the recursive calls are the     *)
(* iterations they amount to.  An entry of the allocation table is read in *)
(* one step; the wait for its sector is like that of any other.            *)
(*                                                                         *)
(* A byte of the output is the position on the disk that it came from, so  *)
(* that the properties can say which bytes arrive; JUNK is a byte from     *)
(* behind the sector buffer.                                               *)
(***************************************************************************)
EXTENDS Drive, Sequences, FiniteSetsExt

CONSTANTS
  SectorSize,         \* LAMEOS_SECTOR_SIZE
  SectorsPerCluster,  \* of the FAT header
  FatSector,          \* reserved_sectors, where the allocation table starts
  DataSector,         \* root_directory.ending_sector_pos
  Chain,              \* the clusters of the file, in order
  EndMark,            \* the entry of a file's last cluster, 0xFFFF
  StopValues,         \* the entries at which the walk gives up
  OtherValues,        \* what else the disk holds where the walk looks
  MaxReadPos, MaxSize, MaxItems   \* bounds of the call's arguments

ClusterBytes == SectorsPerCluster * SectorSize
FirstCluster == Chain[1]
JUNK         == -1
EIO          == 1
ENTRY_SIZE   == 2     \* LAMEOS_FAT16_FAT_ENTRY_SIZE

ASSUME FileReadAssumption ==
  /\ SectorSize \in Nat \ {0} /\ SectorsPerCluster \in Nat \ {0}
  /\ FatSector \in Nat \ {0} /\ DataSector \in Nat
  /\ Chain \in Seq(Nat \ {0, 1}) /\ Chain # <<>>
  /\ StopValues \subseteq Nat /\ 0 \in StopValues /\ OtherValues \subseteq Nat
  /\ EndMark \in Nat \ StopValues   \* the code compares with 12-bit markers
  \* The drive reaches the file's first cluster with 28 bits.
  /\ DataSector + ((Chain[1] - 1) * SectorsPerCluster) <= (Byte * Half) * Nibble
  /\ MaxReadPos \in Nat /\ MaxSize \in Nat \ {0} /\ MaxItems \in Nat \ {0}

VARIABLES
  stage,
  pos, size, nmemb,  \* descriptor->pos and the arguments of fat16_read
  items,             \* items that have been read
  offset, total,     \* the arguments of fat16_read_internal_from_stream
  cluster, ahead,    \* the walk of fat16_get_cluster_for_offset
  fat_pos,           \* where fat_read_stream was read last, -1 if never
  stream_pos, left,  \* cluster_read_stream->pos, and what is left to read
  out,               \* the bytes in the caller's buffer
  res

read_vars == <<stage, pos, size, nmemb, items, offset, total, cluster, ahead, fat_pos,
          stream_pos, left, out, res, drive>>

ReadInit ==
  /\ stage = "item"
  /\ pos \in 0 .. MaxReadPos /\ size \in 1 .. MaxSize /\ nmemb \in 1 .. MaxItems
  /\ items = 0 /\ offset = 0 /\ total = 0
  /\ cluster = FirstCluster /\ ahead = 0 /\ fat_pos = -1
  /\ stream_pos = 0 /\ left = 0
  /\ out = <<>>
  /\ res = 0
  /\ drive = DriveIdle

-----------------------------------------------------------------------------

(* fat16_get_cluster_for_offset starts at the file's first cluster. *)
StartWalk(o) ==
  /\ cluster' = FirstCluster
  /\ ahead' = o \div ClusterBytes
  /\ stage' = "walk"

(* One iteration of fat16_read's loop; the position of the descriptor      *)
(* itself is not advanced.                                                 *)
fat16_read ==
  /\ stage = "item"
  /\ \/ /\ items < nmemb
        /\ offset' = pos + (items * size)
        /\ total' = size
        /\ StartWalk(offset')
        /\ UNCHANGED res
     \/ /\ items = nmemb
        /\ res' = nmemb
        /\ stage' = "done"
        /\ UNCHANGED <<offset, total, cluster, ahead>>
  /\ UNCHANGED <<pos, size, nmemb, items, fat_pos, stream_pos, left, out, drive>>

(* The entry of a cluster in the allocation table. *)
EntryPosition(c) == (FatSector * SectorSize) + (c * ENTRY_SIZE)

(* The position that fat16_get_fat_entry seeks to. *)
SoughtPosition(c) == (FatSector * SectorSize) * (c * ENTRY_SIZE)

(* What may be read at a position: the entry of a cluster of the file, if  *)
(* it is there, and anything elsewhere on the disk.                        *)
FatValues(p) ==
  LET at == {k \in 1 .. Len(Chain) : EntryPosition(Chain[k]) = p}
  IN  IF at = {} THEN StopValues \cup OtherValues
      ELSE {IF k < Len(Chain) THEN Chain[k + 1] ELSE EndMark : k \in at}

(* Mutant of fat16_get_cluster_for_offset: the steps are not counted. *)
WalkStays ==
  /\ stage = "walk" /\ ahead > 0
  /\ fat_pos' = SoughtPosition(cluster)
  /\ \E entry \in FatValues(fat_pos') :
       \/ /\ entry \in StopValues
          /\ res' = -EIO
          /\ stage' = "done"
          /\ UNCHANGED <<cluster, ahead>>
       \/ /\ entry \notin StopValues
          /\ cluster' = entry
          /\ UNCHANGED <<stage, res, ahead>>
  /\ UNCHANGED <<pos, size, nmemb, items, offset, total, stream_pos, left, out, drive>>

(* One iteration of fat16_get_cluster_for_offset, with fat16_get_fat_entry *)
fat16_get_cluster_for_offset ==
  /\ stage = "walk" /\ ahead > 0
  /\ fat_pos' = SoughtPosition(cluster)
  /\ \E entry \in FatValues(fat_pos') :
       \/ /\ entry \in StopValues
          /\ res' = -EIO
          /\ stage' = "done"
          /\ UNCHANGED <<cluster, ahead>>
       \/ /\ entry \notin StopValues
          /\ cluster' = entry
          /\ ahead' = ahead - 1
          /\ UNCHANGED <<stage, res>>
  /\ UNCHANGED <<pos, size, nmemb, items, offset, total, stream_pos, left, out, drive>>

(* Mutant of fat16_cluster_to_sector: clusters are counted from 0. *)
SectorFromZero(c) == DataSector + (c * SectorsPerCluster)

(* Clusters are numbered from 2. *)
fat16_cluster_to_sector(c) == DataSector + ((c - 2) * SectorsPerCluster)

(* fat16_read_internal_from_stream before it reads: diskstreamer_seek. *)
diskstreamer_seek ==
  /\ stage = "walk" /\ ahead = 0
  /\ stream_pos' = (fat16_cluster_to_sector(cluster) * SectorSize) + (offset % ClusterBytes)
  /\ left' = Min({total, ClusterBytes})
  /\ stage' = "stream"
  /\ UNCHANGED <<pos, size, nmemb, items, offset, total, cluster, ahead, fat_pos, out, res, drive>>

(* diskstreamer_read asks for the sector that the stream is in. *)
disk_read_sector ==
  /\ stage = "stream"
  /\ read_command(stream_pos \div SectorSize, 1)
  /\ stage' = "sector"
  /\ UNCHANGED <<pos, size, nmemb, items, offset, total, cluster, ahead, fat_pos, stream_pos, left, out, res>>

(* Byte j that is copied out of the buffer, after the sector is read. *)
BufferByte(p, j) ==
  LET at == (p % SectorSize) + j
  IN  IF at < SectorSize THEN (drive.lba * SectorSize) + at ELSE JUNK

(* fat16_read_internal_from_stream after it read n bytes: the rest is read *)
(* by a call of itself, or the item is complete.                           *)
EndRead(n) ==
  /\ total' = total - n
  /\ IF total' > 0
     THEN offset' = offset + n /\ StartWalk(offset') /\ UNCHANGED items
     ELSE items' = items + 1 /\ stage' = "item" /\ UNCHANGED <<offset, cluster, ahead>>

(* Mutant of diskstreamer_read: a whole sector is copied at its end. *)
WholeSectors ==
  /\ stage = "sector" /\ Ready
  /\ take_sector
  /\ out' = out \o [j \in 1 .. SectorSize |-> BufferByte(stream_pos, j - 1)]
  /\ stream_pos' = stream_pos + SectorSize
  /\ IF left > SectorSize
     THEN left' = left - SectorSize /\ stage' = "stream" /\ UNCHANGED <<items, offset, total, cluster, ahead>>
     ELSE left' = 0 /\ EndRead(Min({total, ClusterBytes}))
  /\ UNCHANGED <<pos, size, nmemb, fat_pos, res>>

(* The drive has the sector: it is read into the buffer and up to          *)
(* SectorSize bytes are copied from the offset in it; the rest is left to  *)
(* the next call of diskstreamer_read.                                     *)
diskstreamer_read ==
  LET n == Min({left, SectorSize})
  IN  /\ stage = "sector" /\ Ready
      /\ take_sector
      /\ out' = out \o [j \in 1 .. n |-> BufferByte(stream_pos, j - 1)]
      /\ stream_pos' = stream_pos + n
      /\ IF left > SectorSize
         THEN /\ left' = left - SectorSize /\ stage' = "stream"
              /\ UNCHANGED <<items, offset, total, cluster, ahead>>
         ELSE /\ left' = 0
              /\ EndRead(Min({total, ClusterBytes}))
      /\ UNCHANGED <<pos, size, nmemb, fat_pos, res>>

ReadStep ==
  \/ fat16_read \/ fat16_get_cluster_for_offset \/ diskstreamer_seek
  \/ disk_read_sector \/ diskstreamer_read

DriveStep ==
  /\ DriveAnswers \/ DriveFails
  /\ UNCHANGED <<stage, pos, size, nmemb, items, offset, total, cluster, ahead, fat_pos,
                 stream_pos, left, out, res>>

ReadNext == ReadStep \/ DriveStep

(* A read runs to its end with interrupts off; the drive answers a         *)
(* command, one way or the other.                                          *)
ReadSpec == ReadInit /\ [][ReadNext]_read_vars /\ WF_read_vars(ReadStep) /\ WF_read_vars(DriveStep)

-----------------------------------------------------------------------------
(* Properties *)

ReadTypeOK ==
  /\ stage \in {"item", "walk", "stream", "sector", "done"}
  /\ items \in 0 .. nmemb /\ total \in 0 .. size
  /\ cluster \in Nat /\ ahead \in Nat /\ fat_pos \in Int
  /\ stream_pos \in Int /\ left \in 0 .. ClusterBytes
  /\ out \in Seq(Int) /\ res \in {0, -EIO, nmemb}

(* The position on the disk of byte b of the file, for its first cluster:  *)
(* cluster 2 is the first of the data area.                                *)
FilePosition(b) == (DataSector * SectorSize) + ((FirstCluster - 2) * ClusterBytes) + b

(* A read that stays in the file's first cluster, and whose items either   *)
(* start at a sector or end in the sector they start in.                   *)
Simple ==
  /\ pos + (size * nmemb) <= ClusterBytes
  /\ \A k \in 0 .. (nmemb - 1) :
       LET start == (pos + (k * size)) % SectorSize
       IN  start = 0 \/ start + size <= SectorSize

(* Such a read succeeds and delivers exactly the bytes of the file from    *)
(* the position of the descriptor: this is how process_load_binary reads a *)
(* program of at most one cluster.                                         *)
SimpleReadExact ==
  stage = "done" /\ Simple =>
    /\ res = nmemb
    /\ out = [j \in 1 .. (size * nmemb) |-> FilePosition(pos + j - 1)]

(* Whatever the allocation table says, no more bytes are written to the    *)
(* caller's buffer than it asked for, and if the read succeeds no fewer.   *)
BufferRespected ==
  /\ ReadTypeOK
  /\ Len(out) <= size * nmemb
  /\ stage = "done" /\ res >= 0 => Len(out) = size * nmemb

(* Every read ends, whatever the allocation table says, unless the drive   *)
(* fails: disk_read_sector polls for ever for a sector that never comes.   *)
ReadsEnd == <>(stage = "done" \/ drive.status = "error")

(* fat16.c:118 "Used to stream the file allocation table": fat_read_stream *)
(* is read at the entry of the cluster that the walk is at.                *)
FatStreamInTable ==
  [][fat_pos' # fat_pos => fat_pos' = EntryPosition(cluster)]_read_vars
=============================================================================
