------------------------------- MODULE Drive -------------------------------
(***************************************************************************)
(* Reading sectors from the ATA drive by polling: disk_read_sector of      *)
(* src/disk/disk.c, and ata_lba_read of src/boot/boot.asm, which uses the  *)
(* same ports.  The drive itself is the environment: it makes a sector     *)
(* ready some time after the command, or meets an error and never does.    *)
(***************************************************************************)
EXTENDS Words

VARIABLE drive   \* the sector it is at, the sectors still to deliver, its status

DriveIdle == [lba |-> 0, sectors |-> 0, status |-> "idle"]

(* What goes to ports 0x1F3, 0x1F4, 0x1F5 and, under the drive's 0xE0, to  *)
(* port 0x1F6.                                                             *)
CommandRegisters(lba) ==
  <<Digit(lba, 1, Byte), Digit(lba, Byte, Byte), Digit(lba, Half, Byte), Digit(lba, Byte * Half, Nibble)>>

(* The sector that the drive makes of its registers: 28 bits. *)
Addressed(r) == r[1] + (r[2] * Byte) + (r[3] * Half) + (r[4] * Byte * Half)

(* The command to read sectors. *)
read_command(lba, total) ==
  drive' = [lba |-> Addressed(CommandRegisters(lba)), sectors |-> total, status |-> "busy"]

(* The status the polling loop waits for. *)
Ready == drive.status = "ready"

(* The words of a sector are copied; the drive goes on to the next one. *)
take_sector ==
  drive' = IF drive.sectors = 1 THEN DriveIdle
           ELSE [drive EXCEPT !.lba = @ + 1, !.sectors = @ - 1, !.status = "busy"]

(* The drive's own steps. *)
DriveAnswers == drive.status = "busy" /\ drive' = [drive EXCEPT !.status = "ready"]
DriveFails   == drive.status = "busy" /\ drive' = [drive EXCEPT !.status = "error"]
=============================================================================
