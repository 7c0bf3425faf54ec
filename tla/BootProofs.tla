----------------------------- MODULE BootProofs -----------------------------
(***************************************************************************)
(* Proofs about the start of the kernel, for every width of a byte, every  *)
(* address of tss and of the handlers, and every number of sectors; and    *)
(* about the screen it prints on, for every size and every message.        *)
(***************************************************************************)
EXTENDS Boot, Terminal, DriveProofs, SequenceTheorems, TLAPS

-----------------------------------------------------------------------------
(* The inductive invariant *)

(* The places of kernel_main behind each call. *)
AfterLoad     == {"run", "user"}
AfterCommands == AfterLoad \cup {"load"}
AfterPaging   == AfterCommands \cup {"commands"}
AfterChunk    == AfterPaging \cup {"paging"}
AfterTss      == AfterChunk \cup {"chunk"}
AfterIdt      == AfterTss \cup {"tss"}
AfterDisk     == AfterIdt \cup {"idt"}
Resolving     == {"header", "root", "resolved", "not_resolved"}
AfterFs       == AfterDisk \cup Resolving \cup {"disk", "resolve"}
AfterHeap     == AfterFs \cup {"fs"}
AfterGdt      == AfterHeap \cup {"heap"}

Loader == {"real_mode", "loader", "next_sector"}

(* The boot loader's count of sectors is the drive's, and the sectors lie  *)
(* in order; later reads ask for one sector at a time.                     *)
Loading ==
  /\ drive \in [lba : 0 .. (LoadSectors + 1), sectors : 0 .. LoadSectors,
                status : {"idle", "busy", "ready", "error"}]
  /\ pc \in {"real_mode", "loader"} => memory = <<>>
  /\ pc = "next_sector" => /\ Len(memory) < LoadSectors
                           /\ drive.lba = Len(memory) + 1
                           /\ drive.sectors = LoadSectors - Len(memory)
  /\ pc \in {"header", "root"} => drive = DriveIdle \/ drive.sectors = 1
  /\ pc \notin Loader \cup {"header", "root"} => drive = DriveIdle
  /\ pc \notin Loader => Len(memory) = LoadSectors
  /\ \A s \in 1 .. Len(memory) : memory[s] = s

(* The processor's tables, in the order in which they are loaded. *)
Machine ==
  /\ pc # "real_mode" => "a20" \in cpu
  /\ pc \in AfterGdt \cup {"gdt"} => "pic" \in cpu
  /\ pc \in AfterGdt => "gdtr" \in cpu
  /\ pc \in AfterIdt => "idtr" \in cpu
  /\ pc \in AfterTss => "tr" \in cpu
  /\ "tr" \in cpu => "gdtr" \in cpu /\ tss
  /\ pc \in AfterChunk => "cr3" \in cpu /\ "kernel_chunk" \in heap
  /\ pc \in AfterPaging => "paging" \in cpu
  /\ "paging" \in cpu => "cr3" \in cpu /\ "kernel_chunk" \in heap
  /\ pc = "heap" => "paging" \notin cpu
  /\ pc \in Loader \cup {"start", "gdt"} => "paging" \notin cpu

(* What the tables hold. *)
TablesFilled ==
  /\ tss_address \in TssAddresses
  /\ pc \in AfterGdt =>
       gdt = [i \in DOMAIN gdt_structured(tss_address) |-> encodeGdtEntry(gdt_structured(tss_address)[i])]
  /\ pc \in AfterIdt =>
       idt = [v \in Vectors |->
                IdtGate(Handler[CASE v = "zero" -> "idt_zero" [] v = "keyboard" -> "int21h"
                                  [] v = "syscall" -> "isr80h_wrapper" [] OTHER -> "no_interrupt"])]
  /\ pc = "commands" => commands \in {{}, {"sum"}}
  /\ pc \in AfterCommands => commands = {"sum", "print"}
  /\ pc \notin AfterPaging \cup {"panic", "undefined"} => commands = {}

Whole ==
  /\ disk.filesystem = "FAT16" /\ disk.fs_private = "private"
  /\ {"private", "root_directory"} \cup fat16_init_private \subseteq heap

(* The disk, its file system and the heap. *)
DiskFound ==
  /\ disk \in [filesystem : {NONE, "FAT16"}, fs_private : {NONE, "private"}]
  /\ disk.fs_private # NONE => disk.fs_private \in heap
  /\ pc \in AfterHeap => NONE \notin heap
  /\ pc \in AfterFs => filesystems \in [1 .. FsSlots -> {NONE, "FAT16"}] /\ filesystems[1] = "FAT16"
  /\ pc \in Loader \cup {"start", "gdt", "heap", "fs", "disk", "resolve"} => disk.fs_private = NONE
  /\ pc \in Resolving => /\ disk.filesystem = "FAT16" /\ disk.fs_private = "private"
                         /\ {"private"} \cup fat16_init_private \subseteq heap
  /\ pc = "resolved" => "root_directory" \in heap
  /\ pc \in AfterDisk =>
       /\ "stream" \notin heap
       /\ Whole \/ (disk.filesystem = NONE /\ disk.fs_private = NONE)
  /\ pc \in AfterLoad => disk.filesystem # NONE /\ current_task = "task" /\ "task" \in heap

BootInv == TypeOK /\ Loading /\ Machine /\ TablesFilled /\ DiskFound

-----------------------------------------------------------------------------
(* The encodings *)

(* The pages that a limit is counted in, as products. *)
LEMMA PageWidth == Page \in Nat \ {0} /\ Word = Page * (Half * Nibble)
<1>1. Nibble \in Nat /\ Byte \in Nat /\ Half \in Nat /\ Byte = Nibble * Nibble /\ Half = Byte * Byte
  BY Widths
<1>2. \A x, y \in Nat \ {0} : x * y \in Nat \ {0}
  OBVIOUS
<1>3. Page \in Nat \ {0} /\ Page = Byte * Nibble
  BY <1>2, Widths DEF Page
<1>4. \A x, y, z \in Nat : (x * y) * (z * y) = ((y * y) * x) * z
  OBVIOUS
<1>5. (Byte * Nibble) * (Half * Nibble) = ((Nibble * Nibble) * Byte) * Half
  BY <1>1, <1>4
<1> QED BY <1>1, <1>3, <1>5 DEF Word

(* encodeGdtEntry loses nothing: the processor reads the segment that was  *)
(* asked for, a limit above 16 bits in pages, one up to 16 bits in bytes.  *)
LEMMA EncodedSegment ==
  ASSUME NEW base \in 0 .. (Word - 1), NEW lim \in 0 .. (Word - 1), NEW type,
         ~Refused([base |-> base, limit |-> lim, type |-> type])
  PROVE  LET source == [base |-> base, limit |-> lim, type |-> type]
         IN  Decoded(encodeGdtEntry(source)) = source
<1> DEFINE pages == lim > Half
           n     == IF pages THEN lim \div Page ELSE lim
           a == Digit(n, 1, Byte)
           b == Digit(n, Byte, Byte)
           c == Digit(n, Half, Nibble)
           e == Digit(base, 1, Byte)
           f == Digit(base, Byte, Byte)
           g == Digit(base, Half, Byte)
           h == Digit(base, Byte * Half, Byte)
           unit == IF pages THEN "pages" ELSE "bytes"
           source == [base |-> base, limit |-> lim, type |-> type]
<1>0. /\ Word \in Nat \ {0} /\ Word = (Byte * Half) * Byte /\ Byte \in Nat \ {0}
      /\ Half \in Nat \ {0} /\ Page \in Nat \ {0} /\ Half * Nibble \in Nat \ {0}
      /\ Word = Page * (Half * Nibble) /\ Nibble \in Nat \ {0, 1}
  BY Widths, PageWidth
<1>1. base \in Nat /\ lim \in Nat /\ base < Word /\ lim < Word
  BY <1>0
<1>2. e + (f * Byte) + (g * Half) + (h * Byte * Half) = base
  BY <1>0, <1>1, FourDigits
<1>3. /\ n \in Nat /\ n < Half * Nibble
      /\ pages => (n * Page) + Page - 1 = lim
      /\ ~pages => n = lim
  <2>1. CASE pages
    <3>1. lim % Page = Page - 1
      BY <2>1 DEF Refused
    <3> DEFINE q == lim \div Page
               room == Half * Nibble
    <3>2. q \in Nat /\ lim = (Page * q) + (Page - 1)
      <4>1. /\ lim \div Page \in Nat
            /\ lim = (Page * (lim \div Page)) + (lim % Page)
        BY <1>0, <1>1, DivMod
      <4> QED BY <3>1, <4>1
    <3> HIDE DEF q
    <3>3. n = q
      BY <2>1 DEF q
    <3>4. room \in Nat /\ Word = Page * room
      BY <1>0
    <3> HIDE DEF room
    <3>5. Page * q < Page * room /\ Page * q = q * Page /\ q * Page \in Nat
      BY <1>0, <1>1, <3>2, <3>4
    <3>6. \A x, y, z \in Nat : x * y < x * z => y < z
      OBVIOUS
    <3>7. q < room
      BY <1>0, <3>2, <3>4, <3>5, <3>6
    <3> HIDE DEF n
    <3> QED BY <1>0, <2>1, <3>2, <3>3, <3>5, <3>7 DEF room
  <2>2. CASE ~pages
    <3>1. \A x, y \in Nat : x > 0 /\ y > 1 => x < x * y
      OBVIOUS
    <3>2. Half < Half * Nibble
      BY <1>0, <3>1
    <3> QED BY <1>0, <1>1, <2>2, <3>2
  <2> QED BY <2>1, <2>2
<1> HIDE DEF n
<1>4. a + (b * Byte) + (c * Half) = n
  BY <1>3, ThreeDigits
<1>5. encodeGdtEntry(source) = <<a, b, e, f, g, type, <<unit, c>>, h>>
  BY DEF encodeGdtEntry, n
<1> HIDE DEF a, b, c, e, f, g, h
<1>6. Decoded(encodeGdtEntry(source)) =
        [base |-> e + (f * Byte) + (g * Half) + (h * Byte * Half),
         limit |-> IF unit = "pages" THEN ((a + (b * Byte) + (c * Half)) * Page) + Page - 1
                   ELSE a + (b * Byte) + (c * Half),
         type |-> type]
  BY <1>5 DEF Decoded
<1>7. (unit = "pages") <=> pages
  OBVIOUS
<1> HIDE DEF unit, pages
<1>8. (IF unit = "pages" THEN (n * Page) + Page - 1 ELSE n) = lim
  BY <1>3, <1>7
<1> QED BY <1>2, <1>4, <1>6, <1>8

(* The processor reads from a gate the address that idt_set split. *)
LEMMA GateExact ==
  ASSUME NEW address \in 0 .. (Word - 1)
  PROVE  GateAddress(IdtGate(address)) = address
<1>1. Half \in Nat \ {0} /\ address \in Nat
  BY Widths
<1>2. address \div Half \in Nat /\ address % Half \in Nat
      /\ address = (Half * (address \div Half)) + (address % Half)
  <2>1. address \div Half \in Nat /\ address % Half \in 0 .. (Half - 1)
        /\ address = (Half * (address \div Half)) + (address % Half)
    BY <1>1, DivMod
  <2> QED BY <1>1, <2>1
<1>3. Half * (address \div Half) = (address \div Half) * Half /\ Half * (address \div Half) \in Nat
  BY <1>1, <1>2
<1>4. (address % Half) + ((address \div Half) * Half) = address
  BY <1>2, <1>3
<1> QED BY <1>4 DEF GateAddress, IdtGate

-----------------------------------------------------------------------------
(* The order of the calls *)

(* The call behind each call of kernel_main. *)
LEMMA CallOrder ==
  /\ ToSet(kernel_main) = {"gdt", "heap", "fs", "disk", "idt", "tss", "chunk", "paging", "commands", "load", "run"}
  /\ Head(kernel_main) = "gdt"
  /\ After("gdt") = "heap" /\ After("heap") = "fs" /\ After("fs") = "disk" /\ After("disk") = "idt"
  /\ After("idt") = "tss" /\ After("tss") = "chunk" /\ After("chunk") = "paging"
  /\ After("paging") = "commands" /\ After("commands") = "load" /\ After("load") = "run"
<1>1. DOMAIN kernel_main = 1 .. 11
  BY DEF kernel_main
<1>2. /\ kernel_main[1] = "gdt" /\ kernel_main[2] = "heap" /\ kernel_main[3] = "fs"
      /\ kernel_main[4] = "disk" /\ kernel_main[5] = "idt" /\ kernel_main[6] = "tss"
      /\ kernel_main[7] = "chunk" /\ kernel_main[8] = "paging" /\ kernel_main[9] = "commands"
      /\ kernel_main[10] = "load" /\ kernel_main[11] = "run"
  BY DEF kernel_main
<1>3. \A i \in 1 .. 11 : i \in {1, 2, 3, 4, 5, 6, 7, 8, 9, 10, 11}
  OBVIOUS
<1>4. ToSet(kernel_main) = {kernel_main[i] : i \in 1 .. 11}
  BY <1>1 DEF ToSet
<1>5. Head(kernel_main) = "gdt"
  BY DEF kernel_main
<1>6. ASSUME NEW k \in 1 .. 10, \A i \in 1 .. 11 : kernel_main[i] = kernel_main[k] => i = k
      PROVE  After(kernel_main[k]) = kernel_main[k + 1]
  <2>1. k \in 1 .. 11
    OBVIOUS
  <2>2. (CHOOSE i \in 1 .. 11 : kernel_main[i] = kernel_main[k]) = k
    BY <1>6, <2>1, Zenon
  <2> QED BY <1>1, <2>2 DEF After
<1>7. \A i, j \in 1 .. 11 : kernel_main[i] = kernel_main[j] => i = j
  BY <1>2, <1>3
<1> HIDE DEF kernel_main
<1>8. \A k \in 1 .. 10 : After(kernel_main[k]) = kernel_main[k + 1]
  <2> TAKE k \in 1 .. 10
  <2>1. k \in 1 .. 11
    OBVIOUS
  <2> QED BY <1>6, <1>7, <2>1
<1>9. /\ After("gdt") = "heap" /\ After("heap") = "fs" /\ After("fs") = "disk" /\ After("disk") = "idt"
      /\ After("idt") = "tss" /\ After("tss") = "chunk" /\ After("chunk") = "paging"
      /\ After("paging") = "commands" /\ After("commands") = "load" /\ After("load") = "run"
  <2>1. /\ After(kernel_main[1]) = kernel_main[2] /\ After(kernel_main[2]) = kernel_main[3]
        /\ After(kernel_main[3]) = kernel_main[4] /\ After(kernel_main[4]) = kernel_main[5]
        /\ After(kernel_main[5]) = kernel_main[6] /\ After(kernel_main[6]) = kernel_main[7]
        /\ After(kernel_main[7]) = kernel_main[8] /\ After(kernel_main[8]) = kernel_main[9]
        /\ After(kernel_main[9]) = kernel_main[10] /\ After(kernel_main[10]) = kernel_main[11]
    BY <1>8
  <2> QED BY <1>2, <2>1
<1>10. ToSet(kernel_main) = {"gdt", "heap", "fs", "disk", "idt", "tss", "chunk", "paging", "commands", "load", "run"}
  BY <1>2, <1>3, <1>4
<1> QED BY <1>5, <1>9, <1>10

-----------------------------------------------------------------------------
(* The invariant holds *)

(* The six segments of gdt_structured can be encoded, and the processor    *)
(* reads them back.                                                        *)
LEMMA Segments ==
  ASSUME NEW address \in TssAddresses
  PROVE  /\ DOMAIN gdt_structured(address) = 1 .. 6
         /\ \A i \in 1 .. 6 :
              /\ ~Refused(gdt_structured(address)[i])
              /\ Decoded(encodeGdtEntry(gdt_structured(address)[i])) = gdt_structured(address)[i]
<1> DEFINE segment(base, limit, type) == [base |-> base, limit |-> limit, type |-> type]
<1>0. /\ Word \in Nat \ {0} /\ Page \in Nat \ {0} /\ Half \in Nat \ {0} /\ Half < Word
      /\ Half * Nibble \in Nat \ {0} /\ Word = Page * (Half * Nibble)
  BY Widths, PageWidth
<1>1. address \in 0 .. (Word - 1) /\ TssSize \in 0 .. (Word - 1) /\ TssSize <= Half
      /\ 0 \in 0 .. (Word - 1) /\ Word - 1 \in 0 .. (Word - 1) /\ 0 <= Half
  BY <1>0, BootAssumption
<1>2. (Word - 1) % Page = Page - 1
  <2> DEFINE room == Half * Nibble
  <2>1. room \in Nat \ {0} /\ Word = Page * room
    BY <1>0
  <2> HIDE DEF room
  <2> DEFINE below == Page * (room - 1)
  <2>2. Word = below + Page /\ room - 1 \in Nat /\ below \in Nat
    <3>1. \A x, y \in Nat : x * (y + 1) = (x * y) + x /\ x * y \in Nat
      OBVIOUS
    <3>2. room - 1 \in Nat /\ (room - 1) + 1 = room
      BY <2>1
    <3> QED BY <1>0, <2>1, <3>1, <3>2
  <2>4. (below + (Page - 1)) % Page = Page - 1
    <3>1. Page - 1 \in 0 .. (Page - 1)
      BY <1>0
    <3> QED BY <1>0, <2>2, <3>1, DivModUnique
  <2> HIDE DEF below
  <2>3. Word - 1 = below + (Page - 1)
    BY <1>0, <2>2
  <2> QED BY <2>3, <2>4
<1>3. ASSUME NEW base \in 0 .. (Word - 1), NEW lim \in 0 .. (Word - 1), NEW type,
             lim <= Half \/ lim = Word - 1
      PROVE  ~Refused(segment(base, lim, type))
             /\ Decoded(encodeGdtEntry(segment(base, lim, type))) = segment(base, lim, type)
  <2>1. ~Refused(segment(base, lim, type))
    BY <1>0, <1>2, <1>3 DEF Refused
  <2> QED BY <2>1, EncodedSegment
<1>4. /\ gdt_structured(address)[1] = segment(0, 0, "null")
      /\ gdt_structured(address)[2] = segment(0, Word - 1, "kernel code")
      /\ gdt_structured(address)[3] = segment(0, Word - 1, "kernel data")
      /\ gdt_structured(address)[4] = segment(0, Word - 1, "user code")
      /\ gdt_structured(address)[5] = segment(0, Word - 1, "user data")
      /\ gdt_structured(address)[6] = segment(address, TssSize, "tss")
  BY DEF gdt_structured
<1>5. DOMAIN gdt_structured(address) = 1 .. 6
  BY DEF gdt_structured
<1> HIDE DEF segment
<1>6. ASSUME NEW i \in 1 .. 6
      PROVE  \E base, lim \in 0 .. (Word - 1) : \E type :
                /\ gdt_structured(address)[i] = segment(base, lim, type)
                /\ lim <= Half \/ lim = Word - 1
  <2>1. i \in {1, 2, 3, 4, 5, 6}
    OBVIOUS
  <2> QED BY <1>1, <1>4, <2>1, Zenon
<1>7. ASSUME NEW i \in 1 .. 6
      PROVE  ~Refused(gdt_structured(address)[i])
             /\ Decoded(encodeGdtEntry(gdt_structured(address)[i])) = gdt_structured(address)[i]
  <2>1. PICK base \in 0 .. (Word - 1), lim \in 0 .. (Word - 1) :
          \E type : /\ gdt_structured(address)[i] = segment(base, lim, type)
                    /\ lim <= Half \/ lim = Word - 1
    BY <1>6
  <2>2. PICK type : /\ gdt_structured(address)[i] = segment(base, lim, type)
                    /\ lim <= Half \/ lim = Word - 1
    BY <2>1
  <2> QED BY <1>3, <2>2, Zenon
<1> QED BY <1>5, <1>7

(* The machine before the boot loader runs. *)
LEMMA BootInit == Init => BootInv
<1> SUFFICES ASSUME Init PROVE BootInv
  OBVIOUS
<1>1. /\ pc = "real_mode" /\ drive = DriveIdle /\ memory = <<>> /\ cpu = {} /\ tss = FALSE
      /\ tss_address \in TssAddresses /\ commands = {} /\ current_task = NONE
      /\ disk = [filesystem |-> NONE, fs_private |-> NONE]
  BY DEF Init
<1>2. LoadSectors \in Nat \ {0}
  BY BootAssumption, Widths
<1>3. drive.lba = 0 /\ drive.sectors = 0 /\ drive.status = "idle" /\ Len(memory) = 0 /\ memory \in Seq(Nat)
      /\ drive \in [lba : 0 .. (LoadSectors + 1), sectors : 0 .. LoadSectors,
                    status : {"idle", "busy", "ready", "error"}]
  BY <1>1, <1>2 DEF DriveIdle
<1>4. TypeOK
  <2>1. memory \in Seq(Nat) /\ Len(memory) <= LoadSectors /\ drive.lba \in 0 .. (LoadSectors + 1)
        /\ drive.sectors \in 0 .. LoadSectors
    BY <1>2, <1>3
  <2> QED BY <1>1, <2>1, Zenon DEF TypeOK
<1>5. Loading
  BY <1>1, <1>2, <1>3 DEF Loading, Loader
<1> USE DEF AfterLoad, AfterCommands, AfterPaging, AfterChunk, AfterTss, AfterIdt, AfterDisk,
            Resolving, AfterFs, AfterHeap, AfterGdt, Loader
<1>6. Machine /\ TablesFilled
  BY <1>1 DEF Machine, TablesFilled
<1>7. DiskFound
  BY <1>1 DEF DiskFound, NONE
<1> QED BY <1>4, <1>5, <1>6, <1>7 DEF BootInv

(* An action of the boot loader or of _start: the loop's count, the        *)
(* drive's count and the number of sectors in memory agree.                *)
LEMMA LoaderSteps ==
  ASSUME BootInv, load_protected \/ ata_lba_read \/ next_sector \/ start
  PROVE  BootInv'
<1>0. TypeOK /\ Loading /\ Machine /\ TablesFilled /\ DiskFound
  BY DEF BootInv
<1>1. /\ LoadSectors \in Nat \ {0} /\ LoadSectors <= Byte /\ Byte \in Nat /\ Byte >= 1
  BY BootAssumption, Widths
<1>2. /\ drive.lba \in Nat /\ drive.sectors \in Nat /\ Len(memory) \in Nat /\ memory \in Seq(Nat)
      /\ drive.lba <= LoadSectors + 1 /\ drive.sectors <= LoadSectors
  BY <1>0, <1>1 DEF TypeOK
<1> USE DEF AfterLoad, AfterCommands, AfterPaging, AfterChunk, AfterTss, AfterIdt, AfterDisk,
            Resolving, AfterFs, AfterHeap, AfterGdt, Loader
<1>3. /\ pc \in Loader \cup {"start"}
      /\ pc' \in {"loader", "next_sector", "start", "gdt"}
      /\ UNCHANGED <<tss_address, signature, gdt, tss, heap, filesystems, disk, idt, commands, current_task>>
  BY CallOrder DEF load_protected, ata_lba_read, next_sector, start, given, loaded, kept
<1>4. TablesFilled'
  BY <1>0, <1>3 DEF TablesFilled
<1>5. DiskFound'
  BY <1>0, <1>3 DEF DiskFound
<1>6. Machine' /\ cpu' \subseteq {"a20", "pic", "gdtr", "idtr", "tr", "cr3", "paging"}
  <2>1. CASE load_protected
    BY <1>0, <1>3, <2>1 DEF load_protected, Machine, TypeOK
  <2>2. CASE ata_lba_read
    BY <1>0, <1>3, <2>2 DEF ata_lba_read, Machine, TypeOK, loaded
  <2>3. CASE next_sector
    BY <1>0, <1>3, <2>3 DEF next_sector, Machine, TypeOK, loaded
  <2>4. CASE start
    BY <1>0, <1>3, <2>4, CallOrder DEF start, Machine, TypeOK
  <2> QED BY <2>1, <2>2, <2>3, <2>4
<1>7. Loading' /\ memory' \in Seq(Nat) /\ Len(memory') <= LoadSectors
  <2>1. CASE load_protected
    <3>1. pc = "real_mode" /\ pc' = "loader" /\ UNCHANGED <<drive, memory>>
      BY <2>1 DEF load_protected
    <3> QED BY <1>0, <1>1, <3>1 DEF Loading, TypeOK
  <2>2. CASE ata_lba_read
    <3>1. /\ pc = "loader" /\ pc' = "next_sector" /\ memory' = memory /\ memory = <<>>
          /\ drive' = [lba |-> Addressed(CommandRegisters(1)), sectors |-> LoadSectors, status |-> "busy"]
      BY <1>0, <2>2 DEF ata_lba_read, read_command, Loading
    <3>2. Addressed(CommandRegisters(1)) = 1 /\ Len(memory) = 0
      BY <1>1, <3>1, LowSectorAddressed
    <3> QED BY <1>0, <1>1, <3>1, <3>2 DEF Loading, TypeOK
  <2>3. CASE next_sector
    <3>1. /\ pc = "next_sector" /\ memory' = Append(memory, drive.lba) /\ take_sector
          /\ pc' = IF drive.sectors = 1 THEN "start" ELSE "next_sector"
      BY <2>3 DEF next_sector
    <3>2. Len(memory) < LoadSectors /\ drive.lba = Len(memory) + 1 /\ drive.sectors = LoadSectors - Len(memory)
      BY <1>0, <3>1 DEF Loading
    <3>3. /\ memory' \in Seq(Nat) /\ Len(memory') = Len(memory) + 1
          /\ \A s \in 1 .. Len(memory) : memory'[s] = memory[s]
          /\ memory'[Len(memory) + 1] = drive.lba
      BY <1>2, <3>1
    <3>4. \A s \in 1 .. Len(memory') : memory'[s] = s
      <4>1. \A s \in 1 .. (Len(memory) + 1) : s \in 1 .. Len(memory) \/ s = Len(memory) + 1
        BY <1>2
      <4> QED BY <1>0, <3>2, <3>3, <4>1 DEF Loading
    <3>5. CASE drive.sectors = 1
      <4>1. drive' = DriveIdle /\ pc' = "start" /\ Len(memory') = LoadSectors
        BY <1>1, <1>2, <3>1, <3>2, <3>3, <3>5 DEF take_sector
      <4> QED BY <1>1, <3>3, <3>4, <4>1 DEF Loading, DriveIdle
    <3>6. CASE drive.sectors # 1
      <4>1. /\ drive' = [drive EXCEPT !.lba = @ + 1, !.sectors = @ - 1, !.status = "busy"]
            /\ pc' = "next_sector" /\ Len(memory') < LoadSectors
        BY <1>1, <1>2, <3>1, <3>2, <3>3, <3>6 DEF take_sector
      <4>2. /\ drive'.lba = Len(memory') + 1 /\ drive'.sectors = LoadSectors - Len(memory')
            /\ drive' \in [lba : 0 .. (LoadSectors + 1), sectors : 0 .. LoadSectors,
                           status : {"idle", "busy", "ready", "error"}]
        <5>1. drive' = [lba |-> drive.lba + 1, sectors |-> drive.sectors - 1, status |-> "busy"]
          BY <1>0, <4>1 DEF Loading
        <5>2. /\ drive.lba + 1 \in 0 .. (LoadSectors + 1) /\ drive.sectors - 1 \in 0 .. LoadSectors
              /\ drive.lba + 1 = Len(memory') + 1 /\ drive.sectors - 1 = LoadSectors - Len(memory')
          BY <1>1, <1>2, <3>2, <3>3, <4>1
        <5> QED BY <5>1, <5>2
      <4> QED BY <1>1, <3>3, <3>4, <4>1, <4>2 DEF Loading
    <3> QED BY <3>5, <3>6
  <2>4. CASE start
    <3>1. pc = "start" /\ pc' = "gdt" /\ UNCHANGED <<drive, memory>>
      BY <2>4, CallOrder DEF start
    <3> QED BY <1>0, <1>1, <3>1 DEF Loading, TypeOK
  <2> QED BY <2>1, <2>2, <2>3, <2>4
<1>8. TypeOK'
  <2>1. drive'.lba \in 0 .. (LoadSectors + 1) /\ drive'.sectors \in 0 .. LoadSectors
    BY <1>7 DEF Loading
  <2> QED BY <1>0, <1>3, <1>6, <1>7, <2>1, CallOrder DEF TypeOK
<1> QED BY <1>4, <1>5, <1>6, <1>7, <1>8 DEF BootInv

(* A call of kernel_main sets up its part and leaves the others alone.     *)
LEMMA SetUpSteps ==
  ASSUME BootInv,
         \/ gdt_structured_to_gdt \/ kheap_init \/ fs_init \/ idt_init \/ tss_load \/ paging_new_4gb
         \/ enable_paging \/ isr80h_register_commands \/ process_load \/ process_load_fails
         \/ task_run_first_ever_task \/ kzalloc_fails
  PROVE  BootInv'
<1>0. TypeOK /\ Loading /\ Machine /\ TablesFilled /\ DiskFound
  BY DEF BootInv
<1> USE DEF AfterLoad, AfterCommands, AfterPaging, AfterChunk, AfterTss, AfterIdt, AfterDisk,
            Resolving, AfterFs, AfterHeap, AfterGdt, Loader
<1>1. UNCHANGED <<drive, memory, tss_address, signature>>
  BY DEF gdt_structured_to_gdt, kheap_init, fs_init, idt_init, tss_load, paging_new_4gb, enable_paging,
         isr80h_register_commands, process_load, process_load_fails, task_run_first_ever_task,
         kzalloc_fails, given
<1>2. ASSUME pc \notin Loader \cup {"header", "root"}, pc' \notin Loader \cup {"header", "root"}
      PROVE  Loading'
  BY <1>0, <1>1, <1>2 DEF Loading
<1>3. ASSUME NEW p \in {"gdt", "heap", "fs", "disk", "idt", "tss", "chunk", "paging", "commands", "load",
                        "run", "user", "panic", "undefined"},
             pc' = p, cpu' \subseteq cpu \cup {"gdtr", "idtr", "tr", "cr3", "paging"}, tss' \in {tss, TRUE},
             commands' \subseteq commands \cup {"sum", "print"}, current_task' \in {current_task, "task"}
      PROVE  TypeOK'
  <2>1. pc' \in ToSet(kernel_main) \cup {"user", "panic", "undefined"}
    BY <1>3, CallOrder
  <2>2. cpu' \subseteq {"a20", "pic", "gdtr", "idtr", "tr", "cr3", "paging"} /\ tss' \in BOOLEAN
    BY <1>0, <1>3 DEF TypeOK
  <2>3. commands' \subseteq {"sum", "print"} /\ current_task' \in {NONE, "task"}
    BY <1>0, <1>3 DEF TypeOK
  <2> QED BY <1>0, <1>1, <2>1, <2>2, <2>3 DEF TypeOK
<1>4. CASE gdt_structured_to_gdt
  <2> DEFINE source == gdt_structured(tss_address)
  <2>1. ~(\E i \in DOMAIN source : Refused(source[i]))
    BY <1>0, Segments DEF TablesFilled
  <2> HIDE DEF source
  <2>2. /\ pc = "gdt" /\ pc' = "heap" /\ gdt' = [i \in DOMAIN source |-> encodeGdtEntry(source[i])]
        /\ cpu' = cpu \cup {"gdtr"}
        /\ UNCHANGED <<tss, heap, filesystems, disk, idt, commands, current_task>>
    BY <1>4, <2>1, CallOrder DEF gdt_structured_to_gdt, source, kept
  <2>3. Machine' /\ DiskFound'
    BY <1>0, <2>2 DEF Machine, DiskFound
  <2>4. TablesFilled'
    BY <1>0, <1>1, <2>2 DEF TablesFilled, source
  <2> QED BY <1>2, <1>3, <2>2, <2>3, <2>4 DEF BootInv
<1>5. CASE kheap_init
  <2>1. /\ pc = "heap" /\ pc' = "fs" /\ heap' = {}
        /\ UNCHANGED <<gdt, cpu, tss, filesystems, disk, idt, commands, current_task>>
    BY <1>5, CallOrder DEF kheap_init, loaded
  <2>2. Machine' /\ DiskFound'
    BY <1>0, <2>1 DEF Machine, DiskFound
  <2>3. TablesFilled'
    BY <1>0, <1>1, <2>1 DEF TablesFilled
  <2> QED BY <1>2, <1>3, <2>1, <2>2, <2>3 DEF BootInv
<1>6. CASE fs_init
  <2>1. /\ pc = "fs" /\ pc' = "disk"
        /\ filesystems' = [s \in 1 .. FsSlots |-> IF s = 1 THEN "FAT16" ELSE NONE]
        /\ UNCHANGED <<gdt, cpu, tss, heap, disk, idt, commands, current_task>>
    BY <1>6, CallOrder DEF fs_init, loaded
  <2>2. filesystems' \in [1 .. FsSlots -> {NONE, "FAT16"}] /\ filesystems'[1] = "FAT16"
    BY <2>1, BootAssumption
  <2>3. Machine' /\ DiskFound'
    BY <1>0, <2>1, <2>2 DEF Machine, DiskFound
  <2>4. TablesFilled'
    BY <1>0, <1>1, <2>1 DEF TablesFilled
  <2> QED BY <1>2, <1>3, <2>1, <2>3, <2>4 DEF BootInv
<1>7. CASE idt_init
  <2>1. /\ pc = "idt" /\ pc' = "tss" /\ cpu' = cpu \cup {"idtr"}
        /\ UNCHANGED <<gdt, tss, heap, filesystems, disk, commands, current_task>>
    BY <1>7, CallOrder DEF idt_init, kept
  <2>2. Machine' /\ DiskFound'
    BY <1>0, <2>1 DEF Machine, DiskFound, Whole
  <2>3. TablesFilled'
    BY <1>0, <1>1, <1>7, <2>1 DEF TablesFilled, idt_init
  <2> QED BY <1>2, <1>3, <2>1, <2>2, <2>3 DEF BootInv
<1>8. CASE tss_load
  <2>1. /\ pc = "tss" /\ pc' = "chunk" /\ cpu' = cpu \cup {"tr"} /\ tss' = TRUE
        /\ UNCHANGED <<gdt, heap, filesystems, disk, idt, commands, current_task>>
    BY <1>8, CallOrder DEF tss_load, kept
  <2>2. Machine' /\ DiskFound'
    BY <1>0, <2>1 DEF Machine, DiskFound, Whole
  <2>3. TablesFilled'
    BY <1>0, <1>1, <2>1 DEF TablesFilled
  <2> QED BY <1>2, <1>3, <2>1, <2>2, <2>3 DEF BootInv
<1>9. CASE paging_new_4gb
  <2>1. /\ pc = "chunk" /\ pc' = "paging" /\ cpu' = cpu \cup {"cr3"} /\ heap' = heap \cup {"kernel_chunk"}
        /\ UNCHANGED <<gdt, tss, filesystems, disk, idt, commands, current_task>>
    BY <1>9, CallOrder DEF paging_new_4gb
  <2>2. Machine' /\ DiskFound'
    BY <1>0, <2>1 DEF Machine, DiskFound, Whole, NONE
  <2>3. TablesFilled'
    BY <1>0, <1>1, <2>1 DEF TablesFilled
  <2> QED BY <1>2, <1>3, <2>1, <2>2, <2>3 DEF BootInv
<1>10. CASE enable_paging
  <2>1. /\ pc = "paging" /\ pc' = "commands" /\ cpu' = cpu \cup {"paging"}
        /\ UNCHANGED <<gdt, tss, heap, filesystems, disk, idt, commands, current_task>>
    BY <1>10, CallOrder DEF enable_paging, kept
  <2>2. Machine' /\ DiskFound'
    BY <1>0, <2>1 DEF Machine, DiskFound, Whole
  <2>3. TablesFilled'
    BY <1>0, <1>1, <2>1 DEF TablesFilled
  <2> QED BY <1>2, <1>3, <2>1, <2>2, <2>3 DEF BootInv
<1>11. CASE isr80h_register_commands
  <2>1. /\ pc = "commands" /\ isr80h_register_command(IF commands = {} THEN "sum" ELSE "print")
        /\ UNCHANGED <<gdt, cpu, tss, heap, filesystems, disk, idt, current_task>>
    BY <1>11 DEF isr80h_register_commands, kept
  <2>2. \/ commands = {} /\ commands' = {"sum"} /\ pc' = "commands"
        \/ commands = {"sum"} /\ commands' = {"sum", "print"} /\ pc' = "load"
    <3>1. CASE commands = {}
      BY <2>1, <3>1 DEF isr80h_register_command
    <3>2. CASE commands = {"sum"}
      BY <2>1, <3>2, CallOrder DEF isr80h_register_command
    <3> QED BY <1>0, <2>1, <3>1, <3>2 DEF TablesFilled
  <2>3. Machine' /\ DiskFound'
    BY <1>0, <2>1, <2>2 DEF Machine, DiskFound, Whole
  <2>4. TablesFilled'
    BY <1>0, <1>1, <2>1, <2>2 DEF TablesFilled
  <2> QED BY <1>2, <1>3, <2>1, <2>2, <2>3, <2>4 DEF BootInv
<1>12. CASE process_load
  <2>1. /\ pc = "load" /\ pc' = "run" /\ disk.filesystem # NONE /\ heap' = heap \cup {"process", "task"}
        /\ current_task' = "task" /\ UNCHANGED <<gdt, cpu, tss, filesystems, disk, idt, commands>>
    BY <1>12, CallOrder DEF process_load, loaded
  <2>2. Machine' /\ DiskFound'
    BY <1>0, <2>1 DEF Machine, DiskFound, Whole, NONE
  <2>3. TablesFilled'
    BY <1>0, <1>1, <2>1 DEF TablesFilled
  <2> QED BY <1>2, <1>3, <2>1, <2>2, <2>3 DEF BootInv
<1>13. CASE process_load_fails \/ task_run_first_ever_task \/ kzalloc_fails
  <2>1. /\ \/ pc = "load" /\ pc' = "panic"
           \/ pc = "run" /\ pc' = "user"
           \/ pc \in {"resolve", "chunk"} /\ pc' = "undefined"
        /\ UNCHANGED <<gdt, cpu, tss, heap, filesystems, disk, idt, commands, current_task>>
    BY <1>13 DEF process_load_fails, task_run_first_ever_task, kzalloc_fails, loaded, kept
  <2>2. Machine' /\ DiskFound'
    BY <1>0, <2>1 DEF Machine, DiskFound, Whole
  <2>3. TablesFilled'
    BY <1>0, <1>1, <2>1 DEF TablesFilled
  <2> QED BY <1>2, <1>3, <2>1, <2>2, <2>3 DEF BootInv
<1> QED BY <1>4, <1>5, <1>6, <1>7, <1>8, <1>9, <1>10, <1>11, <1>12, <1>13

(* Searching the disk: its pointers lead to memory that is allocated at    *)
(* every step, and every sector that is asked for is read.                 *)
LEMMA DiskSteps ==
  ASSUME BootInv,
         \/ disk_search_and_init \/ fat16_resolve \/ disk_read_sector \/ read_header
         \/ fat16_get_root_directory \/ resolved \/ not_resolved
  PROVE  BootInv'
<1>0. TypeOK /\ Loading /\ Machine /\ TablesFilled /\ DiskFound
  BY DEF BootInv
<1> USE DEF AfterLoad, AfterCommands, AfterPaging, AfterChunk, AfterTss, AfterIdt, AfterDisk,
            Resolving, AfterFs, AfterHeap, AfterGdt, Loader
<1>1. /\ UNCHANGED <<memory, tss_address, signature, gdt, cpu, tss, idt, commands, filesystems, current_task>>
      /\ pc \in Resolving \cup {"disk", "resolve"} /\ pc' \in Resolving \cup {"resolve", "idt"}
  BY CallOrder DEF disk_search_and_init, fat16_resolve, disk_read_sector, read_header,
         fat16_get_root_directory, resolved, not_resolved, given, loaded, kept
<1>2. LoadSectors \in Nat \ {0} /\ LoadSectors + 1 <= Byte /\ Byte \in Nat /\ 0 <= Byte
  BY BootAssumption, Widths
<1>3. TablesFilled'
  BY <1>0, <1>1 DEF TablesFilled
<1>4. ASSUME heap \subseteq heap' \cup {"stream", "private"} PROVE Machine'
  BY <1>0, <1>1, <1>4 DEF Machine
<1>5. ASSUME Loading' PROVE TypeOK'
  <2>1. drive'.lba \in 0 .. (LoadSectors + 1) /\ drive'.sectors \in 0 .. LoadSectors
    BY <1>5 DEF Loading
  <2> QED BY <1>0, <1>1, <2>1, CallOrder DEF TypeOK
<1>6. ASSUME drive' = DriveIdle PROVE Loading'
  BY <1>0, <1>1, <1>2, <1>6 DEF Loading, DriveIdle
<1>7. ASSUME pc \in {"header", "root"}, Ready, take_sector PROVE drive' = DriveIdle
  <2>1. drive.sectors = 1
    BY <1>0, <1>7 DEF Loading, Ready, DriveIdle
  <2> QED BY <1>7, <2>1 DEF take_sector
<1>8. ASSUME pc \notin {"header", "root"}, drive' = drive PROVE drive' = DriveIdle
  BY <1>0, <1>1, <1>8 DEF Loading
<1>9. CASE disk_search_and_init
  <2>1. /\ pc = "disk" /\ pc' = "resolve" /\ disk' = [filesystem |-> NONE, fs_private |-> NONE]
        /\ drive' = drive /\ heap' = heap
    BY <1>9 DEF disk_search_and_init
  <2>2. DiskFound'
    BY <1>0, <1>1, <2>1 DEF DiskFound
  <2> QED BY <1>3, <1>4, <1>5, <1>6, <1>8, <2>1, <2>2 DEF BootInv
<1>10. CASE fat16_resolve
  <2>1. /\ pc = "resolve" /\ pc' = "header" /\ disk' = [filesystem |-> "FAT16", fs_private |-> "private"]
        /\ drive' = drive /\ heap' = heap \cup fat16_init_private \cup {"private", "stream"}
    BY <1>10 DEF fat16_resolve
  <2>2. DiskFound'
    BY <1>0, <1>1, <2>1 DEF DiskFound, fat16_init_private, NONE
  <2> QED BY <1>3, <1>4, <1>5, <1>6, <1>8, <2>1, <2>2 DEF BootInv
<1>11. CASE disk_read_sector
  <2> DEFINE lba == IF pc = "header" THEN 0 ELSE LoadSectors + 1
  <2>1. /\ pc \in {"header", "root"} /\ pc' = pc /\ UNCHANGED <<heap, disk>>
        /\ drive' = [lba |-> Addressed(CommandRegisters(lba)), sectors |-> 1, status |-> "busy"]
    BY <1>11 DEF disk_read_sector, read_command, kept
  <2>2. lba \in 0 .. (LoadSectors + 1) /\ lba \in Nat /\ lba <= Byte
    BY <1>2
  <2> HIDE DEF lba
  <2>3. drive' = [lba |-> lba, sectors |-> 1, status |-> "busy"]
    BY <2>1, <2>2, LowSectorAddressed
  <2>4. Loading'
    <3>1. drive'.sectors = 1 /\ drive' \in [lba : 0 .. (LoadSectors + 1), sectors : 0 .. LoadSectors,
                                            status : {"idle", "busy", "ready", "error"}]
      BY <1>2, <2>2, <2>3
    <3> QED BY <1>0, <1>1, <2>1, <3>1 DEF Loading
  <2>5. DiskFound'
    BY <1>0, <1>1, <2>1 DEF DiskFound
  <2> QED BY <1>3, <1>4, <1>5, <2>1, <2>4, <2>5 DEF BootInv
<1>12. CASE read_header
  <2>1. /\ pc = "header" /\ Ready /\ take_sector /\ pc' \in {"root", "not_resolved"}
        /\ UNCHANGED <<heap, disk>>
    BY <1>12 DEF read_header, kept
  <2>2. DiskFound'
    BY <1>0, <1>1, <2>1 DEF DiskFound
  <2> QED BY <1>3, <1>4, <1>5, <1>6, <1>7, <2>1, <2>2 DEF BootInv
<1>13. CASE fat16_get_root_directory
  <2>1. /\ pc = "root" /\ Ready /\ take_sector /\ disk' = disk
        /\ \/ heap' = heap \cup {"root_directory"} /\ pc' = "resolved"
           \/ heap' = heap /\ pc' = "not_resolved"
    BY <1>13 DEF fat16_get_root_directory
  <2>2. DiskFound'
    BY <1>0, <1>1, <2>1 DEF DiskFound, NONE
  <2> QED BY <1>3, <1>4, <1>5, <1>6, <1>7, <2>1, <2>2 DEF BootInv
<1>14. CASE resolved
  <2>1. fs_resolve(0) = "FAT16"
    BY <1>0, <1>1, BootAssumption DEF fs_resolve, DiskFound
  <2>2. /\ pc = "resolved" /\ pc' = "idt" /\ heap' = heap \ {"stream"} /\ drive' = drive
        /\ disk' = [disk EXCEPT !.filesystem = "FAT16"]
    BY <1>14, <2>1, CallOrder DEF resolved
  <2>3. disk'.filesystem = "FAT16" /\ disk'.fs_private = "private"
        /\ disk' \in [filesystem : {NONE, "FAT16"}, fs_private : {NONE, "private"}]
    BY <1>0, <2>2 DEF DiskFound
  <2>4. DiskFound'
    BY <1>0, <1>1, <2>2, <2>3 DEF DiskFound, Whole, fat16_init_private
  <2> QED BY <1>3, <1>4, <1>5, <1>6, <1>8, <2>2, <2>4 DEF BootInv
<1>15. CASE not_resolved
  <2>1. fs_resolve(-1) = NONE
    BY DEF fs_resolve
  <2>2. /\ pc = "not_resolved" /\ pc' = "idt" /\ heap' = heap \ {"stream", "private"} /\ drive' = drive
        /\ disk' = [filesystem |-> NONE, fs_private |-> NONE]
    BY <1>15, <2>1, CallOrder DEF not_resolved
  <2>3. DiskFound'
    BY <1>0, <1>1, <2>2 DEF DiskFound
  <2> QED BY <1>3, <1>4, <1>5, <1>6, <1>8, <2>2, <2>3 DEF BootInv
<1> QED BY <1>9, <1>10, <1>11, <1>12, <1>13, <1>14, <1>15

(* The drive's answer, or its failure, changes its status only. *)
LEMMA DriveSteps ==
  ASSUME BootInv, DriveStep
  PROVE  BootInv'
<1>0. TypeOK /\ Loading /\ Machine /\ TablesFilled /\ DiskFound
  BY DEF BootInv
<1>1. UNCHANGED <<pc, memory, tss_address, signature, gdt, cpu, tss, heap, filesystems, disk, idt,
                  commands, current_task>>
  BY DEF DriveStep, given, loaded, kept
<1>2. PICK status \in {"ready", "error"} : drive.status = "busy" /\ drive' = [drive EXCEPT !.status = status]
  BY DEF DriveStep, DriveAnswers, DriveFails
<1>3. /\ drive'.lba = drive.lba /\ drive'.sectors = drive.sectors /\ drive # DriveIdle
      /\ drive' \in [lba : 0 .. (LoadSectors + 1), sectors : 0 .. LoadSectors,
                     status : {"idle", "busy", "ready", "error"}]
  BY <1>0, <1>2 DEF Loading, DriveIdle
<1>4. Loading'
  BY <1>0, <1>1, <1>3 DEF Loading
<1>5. Machine' /\ TablesFilled' /\ DiskFound'
  BY <1>0, <1>1 DEF Machine, TablesFilled, DiskFound, Whole
<1>6. TypeOK'
  BY <1>0, <1>1, <1>3 DEF TypeOK
<1> QED BY <1>4, <1>5, <1>6 DEF BootInv

(* Through the boot loader and kernel_main, what each call needs is there  *)
(* when it runs.                                                           *)
THEOREM BootInvariant == Spec => []BootInv
<1>1. BootInv /\ [Next]_vars => BootInv'
  <2> SUFFICES ASSUME BootInv, [Next]_vars PROVE BootInv'
    OBVIOUS
  <2>1. CASE Step
    BY <2>1, LoaderSteps, SetUpSteps, DiskSteps DEF Step
  <2>2. CASE DriveStep
    BY <2>2, DriveSteps
  <2>3. CASE UNCHANGED vars
    BY <2>3 DEF vars, given, loaded, kept, BootInv, TypeOK, Loading, Machine, TablesFilled, DiskFound, Whole
  <2> QED BY <2>1, <2>2, <2>3 DEF Next
<1> QED BY <1>1, BootInit, PTL DEF Spec

(* Nothing is used before it is set up. *)
THEOREM NothingUsedEarly == Spec => []SetUpBeforeUse
<1>1. BootInv => SetUpBeforeUse
  <2> SUFFICES ASSUME BootInv PROVE SetUpBeforeUse
    OBVIOUS
  <2>0. TypeOK /\ Loading /\ Machine /\ DiskFound
    BY DEF BootInv
  <2> USE DEF AfterLoad, AfterCommands, AfterPaging, AfterChunk, AfterTss, AfterIdt, AfterDisk,
              Resolving, AfterFs, AfterHeap, AfterGdt, Loader
  <2>1. KernelInMemory
    <3>1. LoadSectors \in Nat /\ KernelSectors \in 1 .. LoadSectors
      BY BootAssumption, Widths
    <3>2. \A s \in 1 .. KernelSectors : s \in 1 .. LoadSectors
      BY <3>1
    <3> QED BY <2>0, <3>2 DEF KernelInMemory, Loading
  <2>2. memory # <<>> => "a20" \in cpu
    BY <2>0 DEF Loading, Machine
  <2>3. pc = "resolve" => \E s \in 1 .. FsSlots : filesystems[s] # NONE
    <3>1. 1 \in 1 .. FsSlots /\ "FAT16" # NONE
      BY BootAssumption DEF NONE
    <3> QED BY <2>0, <3>1 DEF DiskFound
  <2>4. pc \in {"resolve", "header", "root", "resolved", "not_resolved", "chunk", "load"} => NONE \notin heap
    BY <2>0 DEF DiskFound
  <2>5. /\ "paging" \in cpu => "cr3" \in cpu /\ "kernel_chunk" \in heap
        /\ "tr" \in cpu => "gdtr" \in cpu /\ tss
    BY <2>0 DEF Machine
  <2> QED BY <2>0, <2>1, <2>2, <2>3, <2>4, <2>5 DEF SetUpBeforeUse
<1> QED BY <1>1, BootInvariant, PTL

(* Every descriptor that encodeGdtEntry makes is exact, wherever the       *)
(* linker put tss.                                                         *)
THEOREM EveryEncodingExact == Spec => []EncodingExact
<1>1. BootInv => EncodingExact
  <2> SUFFICES ASSUME BootInv, NEW limit \in 0 .. (Word - 1),
                      ~Refused([base |-> tss_address, limit |-> limit, type |-> "tss"])
      PROVE  Decoded(encodeGdtEntry([base |-> tss_address, limit |-> limit, type |-> "tss"]))
               = [base |-> tss_address, limit |-> limit, type |-> "tss"]
    BY DEF EncodingExact
  <2>1. tss_address \in 0 .. (Word - 1)
    BY BootAssumption DEF BootInv, TablesFilled
  <2> QED BY <2>1, EncodedSegment
<1> QED BY <1>1, BootInvariant, PTL

(* The disk never points to private data that was freed, and has all of    *)
(* its file system or none of it.                                          *)
THEOREM DiskIsWholeOrNone == Spec => []DiskWholeOrNone
<1>1. BootInv => DiskWholeOrNone
  BY DEF BootInv, DiskFound, DiskWholeOrNone, Whole, AfterLoad, AfterCommands, AfterPaging, AfterChunk,
         AfterTss, AfterIdt, AfterDisk, fat16_init_private
<1> QED BY <1>1, BootInvariant, PTL

(* User code starts only on a machine that is ready for it. *)
THEOREM UserStartsReady == Spec => []ReadyForUser
<1>1. BootInv => ReadyForUser
  <2> SUFFICES ASSUME BootInv, pc = "user" PROVE ReadyForUser
    BY DEF ReadyForUser
  <2>0. TypeOK /\ Machine /\ TablesFilled /\ DiskFound
    BY DEF BootInv
  <2> USE DEF AfterLoad, AfterCommands, AfterPaging, AfterChunk, AfterTss, AfterIdt, AfterDisk,
              Resolving, AfterFs, AfterHeap, AfterGdt, Loader
  <2>1. cpu = {"a20", "pic", "gdtr", "idtr", "tr", "cr3", "paging"} /\ tss
    BY <2>0 DEF Machine, TypeOK
  <2>2. \A i \in 1 .. 6 : Decoded(gdt[i]) = gdt_structured(tss_address)[i]
    BY <2>0, Segments DEF TablesFilled
  <2> DEFINE name(v) == CASE v = "zero" -> "idt_zero" [] v = "keyboard" -> "int21h"
                          [] v = "syscall" -> "isr80h_wrapper" [] OTHER -> "no_interrupt"
  <2>3. idt = [v \in Vectors |-> IdtGate(Handler[name(v)])]
    BY <2>0 DEF TablesFilled
  <2>4. \A v : name(v) \in {"idt_zero", "int21h", "isr80h_wrapper", "no_interrupt"}
    OBVIOUS
  <2>5. name("syscall") = "isr80h_wrapper"
    OBVIOUS
  <2> HIDE DEF name
  <2>6. \A v : name(v) \in DOMAIN Handler /\ Handler[name(v)] \in 0 .. (Word - 1)
    BY <2>4, BootAssumption
  <2>7. \A v \in Vectors : GateAddress(idt[v]) = Handler[name(v)]
    BY <2>3, <2>6, GateExact
  <2>8. "syscall" \in Vectors
    BY BootAssumption
  <2>9. commands = {"sum", "print"} /\ disk.filesystem # NONE /\ current_task \in heap
    BY <2>0 DEF TablesFilled, DiskFound
  <2>10. \A v \in Vectors : GateAddress(idt[v]) \in {Handler[h] : h \in DOMAIN Handler}
    BY <2>6, <2>7
  <2>11. GateAddress(idt["syscall"]) = Handler["isr80h_wrapper"]
    BY <2>5, <2>7, <2>8
  <2> QED BY <2>1, <2>2, <2>9, <2>10, <2>11 DEF ReadyForUser
<1> QED BY <1>1, BootInvariant, PTL

-----------------------------------------------------------------------------
(* The text screen *)

(* A cell of one row lies before the first cell of the next one, and inside *)
(* of a screen that has the row.                                            *)
LEMMA CellsInOrder ==
  ASSUME NEW y \in 0 .. (RowMod - 1), NEW x \in 0 .. (VGA_WIDTH - 1)
  PROVE  /\ term_putchar(x, y) \in 0 .. (RowMod * VGA_WIDTH)
         /\ term_putchar(x, y) < term_putchar(0, y + 1)
         /\ term_putchar(x, y) + 1 = term_putchar(x + 1, y)
<1>1. VGA_WIDTH \in Nat \ {0} /\ RowMod \in Nat \ {0} /\ x \in Nat /\ y \in Nat
  BY TerminalAssumption
<1>2. \A a, b \in Nat : (a + 1) * b = (a * b) + b /\ a * b \in Nat
  OBVIOUS
<1>3. \A a, b, c \in Nat : a < b => (a + 1) * c <= b * c
  <2>1. \A a, d, c \in Nat : (a + 1 + d) * c = ((a + 1) * c) + (d * c) /\ d * c \in Nat /\ (a + 1) * c \in Nat
    OBVIOUS
  <2> SUFFICES ASSUME NEW a \in Nat, NEW b \in Nat, NEW c \in Nat, a < b PROVE (a + 1) * c <= b * c
    OBVIOUS
  <2>2. b - (a + 1) \in Nat /\ a + 1 + (b - (a + 1)) = b
    OBVIOUS
  <2>3. b * c = ((a + 1) * c) + ((b - (a + 1)) * c) /\ (b - (a + 1)) * c \in Nat /\ (a + 1) * c \in Nat
    BY <2>1, <2>2
  <2> QED BY <2>3
<1> DEFINE row == y * VGA_WIDTH
           all == RowMod * VGA_WIDTH
<1>4. (y + 1) * VGA_WIDTH = row + VGA_WIDTH /\ row \in Nat /\ all \in Nat
  BY <1>1, <1>2
<1>5. row + VGA_WIDTH <= all
  BY <1>1, <1>3, <1>4
<1>6. term_putchar(x, y) = row + x /\ term_putchar(x + 1, y) = row + (x + 1)
  BY DEF term_putchar
<1>7. term_putchar(0, y + 1) = row + VGA_WIDTH
  BY <1>1, <1>4 DEF term_putchar
<1> HIDE DEF row, all
<1>8. row + x \in 0 .. all /\ row + x < row + VGA_WIDTH /\ (row + x) + 1 = row + (x + 1)
  BY <1>1, <1>4, <1>5
<1> QED BY <1>6, <1>7, <1>8 DEF all

(* A new row keeps the cursor behind the cell that was written last. *)
LEMMA NextRowBehind ==
  ASSUME TermTypeOK, NEW c \in -1 .. (RowMod * VGA_WIDTH),
         c <= term_putchar(term_col, term_row), NextRow(c), str' \in Seq({"\n", "x"})
  PROVE  CursorBehindText'
<1>1. VGA_WIDTH \in Nat \ {0} /\ RowMod \in Nat \ {0}
  BY TerminalAssumption
<1>2. term_row \in 0 .. (RowMod - 1) /\ term_col \in 0 .. (VGA_WIDTH - 1)
  BY DEF TermTypeOK
<1>3. /\ term_row' = (term_row + 1) % RowMod /\ term_col' = 0
      /\ cell' = IF term_row' = 0 THEN -1 ELSE c
  BY DEF NextRow
<1>4. RowMod * VGA_WIDTH \in Nat
  BY <1>1
<1>5. term_col' \in 0 .. (VGA_WIDTH - 1)
  BY <1>1, <1>3
<1>6. CASE term_row + 1 = RowMod
  <2>1. term_row' = 0 /\ cell' = -1
    BY <1>1, <1>2, <1>3, <1>6
  <2>2. term_putchar(term_col', term_row') = 0
    BY <1>1, <1>3, <2>1 DEF term_putchar
  <2>3. 0 \in 0 .. (RowMod - 1) /\ -1 \in -1 .. (RowMod * VGA_WIDTH)
    BY <1>1, <1>4
  <2>4. TermTypeOK'
    BY <1>5, <2>1, <2>3 DEF TermTypeOK
  <2>5. term_putchar(term_col', term_row') > cell'
    BY <2>1, <2>2
  <2> QED BY <2>4, <2>5 DEF CursorBehindText, term_putchar
<1>7. CASE term_row + 1 < RowMod
  <2>1. term_row' = term_row + 1 /\ cell' = c /\ term_row' \in 0 .. (RowMod - 1)
    BY <1>1, <1>2, <1>3, <1>7
  <2>2. /\ term_putchar(term_col, term_row) \in 0 .. (RowMod * VGA_WIDTH)
        /\ term_putchar(term_col, term_row) < term_putchar(0, term_row + 1)
    BY <1>2, CellsInOrder
  <2>3. term_putchar(0, term_row + 1) \in 0 .. (RowMod * VGA_WIDTH)
    BY <1>1, <2>1, CellsInOrder
  <2>4. term_putchar(0, term_row + 1) > c
    BY <1>4, <2>2, <2>3
  <2>5. term_putchar(term_col', term_row') > cell'
    BY <1>3, <2>1, <2>4
  <2>6. TermTypeOK'
    BY <1>5, <2>1 DEF TermTypeOK
  <2> QED BY <2>5, <2>6 DEF CursorBehindText, term_putchar
<1> QED BY <1>1, <1>2, <1>6, <1>7

(* print and term_writechar never put a character on one that is still on  *)
(* the screen, for every width, every modulus of the row and every message. *)
THEOREM NothingOverwritten == TermSpec => []CursorBehindText
<1>1. TermInit => CursorBehindText
  <2> SUFFICES ASSUME TermInit PROVE CursorBehindText
    OBVIOUS
  <2>1. VGA_WIDTH \in Nat \ {0} /\ RowMod \in Nat \ {0} /\ RowMod * VGA_WIDTH \in Nat
    BY TerminalAssumption
  <2>2. term_row = 0 /\ term_col = 0 /\ cell = -1 /\ str = <<>>
    BY DEF TermInit
  <2>3. term_putchar(term_col, term_row) = 0
    BY <2>1, <2>2 DEF term_putchar
  <2> QED BY <2>1, <2>2, <2>3 DEF CursorBehindText, TermTypeOK
<1>2. CursorBehindText /\ [TermNext]_term_vars => CursorBehindText'
  <2> SUFFICES ASSUME CursorBehindText, [TermNext]_term_vars PROVE CursorBehindText'
    OBVIOUS
  <2>1. /\ VGA_WIDTH \in Nat \ {0} /\ RowMod \in Nat \ {0} /\ RowMod * VGA_WIDTH \in Nat
        /\ Messages \subseteq Seq({"\n", "x"})
    BY TerminalAssumption
  <2>2. TermTypeOK /\ term_putchar(term_col, term_row) > cell
    BY DEF CursorBehindText
  <2>3. /\ term_row \in 0 .. (RowMod - 1) /\ term_col \in 0 .. (VGA_WIDTH - 1)
        /\ cell \in -1 .. (RowMod * VGA_WIDTH) /\ str \in Seq({"\n", "x"})
    BY <2>2 DEF TermTypeOK
  <2>4. /\ term_putchar(term_col, term_row) \in 0 .. (RowMod * VGA_WIDTH)
        /\ term_putchar(term_col, term_row) + 1 = term_putchar(term_col + 1, term_row)
    BY <2>3, CellsInOrder
  <2>5. CASE print
    <3>1. str' \in Seq({"\n", "x"}) /\ UNCHANGED <<term_row, term_col, cell>>
      BY <2>1, <2>5 DEF print
    <3> QED BY <2>2, <2>3, <3>1 DEF CursorBehindText, TermTypeOK, term_putchar
  <2>6. CASE term_writechar
    <3>1. str' \in Seq({"\n", "x"})
      BY <2>3, <2>6 DEF term_writechar
    <3>2. CASE NextRow(cell)
      BY <2>1, <2>2, <2>3, <2>4, <3>1, <3>2, NextRowBehind
    <3>3. CASE Advance(term_putchar(term_col, term_row))
      <4>1. CASE NextRow(term_putchar(term_col, term_row))
        BY <2>1, <2>2, <2>4, <3>1, <4>1, NextRowBehind
      <4>2. CASE /\ term_col + 1 < VGA_WIDTH /\ term_col' = term_col + 1
                 /\ cell' = term_putchar(term_col, term_row) /\ UNCHANGED term_row
        <5>1. term_col' \in 0 .. (VGA_WIDTH - 1)
          BY <2>1, <2>3, <4>2
        <5>2. term_putchar(term_col', term_row') > cell'
          BY <2>1, <2>4, <4>2
        <5>3. TermTypeOK'
          BY <2>3, <2>4, <3>1, <4>2, <5>1 DEF TermTypeOK
        <5> QED BY <5>2, <5>3 DEF CursorBehindText, term_putchar
      <4> QED BY <3>3, <4>1, <4>2 DEF Advance
    <3> QED BY <2>6, <3>2, <3>3 DEF term_writechar
  <2>7. CASE UNCHANGED term_vars
    BY <2>2, <2>3, <2>7 DEF CursorBehindText, TermTypeOK, term_putchar, term_vars
  <2> QED BY <2>5, <2>6, <2>7 DEF TermNext
<1> QED BY <1>1, <1>2, PTL DEF TermSpec
=============================================================================
