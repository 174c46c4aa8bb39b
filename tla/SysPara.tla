------------------------------ MODULE SysPara ------------------------------
(***************************************************************************)
(* The parameter file through starts, crashes and power cuts.  ParaInit    *)
(* (store/para.c) reads /opt/syspara into fresh memory and falls back to   *)
(* defaults when SetFlag, the first field, is not the magic number; main() *)
(* then puts the address of the third network interface into the record,   *)
(* or, when the board came up with its factory address, gives the          *)
(* interface the address the record remembers.  The record is saved two or *)
(* three times in every start, each time by truncating the file and        *)
(* writing it again (store/store.c, WriteFile), and no result of a file    *)
(* operation is looked at.                                                 *)
(*                                                                         *)
(* A short file, a file that cannot be opened or read, and fresh memory    *)
(* look alike to the code: a record is what reading the file gives, "junk" *)
(* where the file ends too early.  The record is smaller than a page of    *)
(* the page cache, so that the kernel gives all of it or nothing.  The     *)
(* fields are cut down to SetFlag, IP_Addr and DIP_Addr, in their order.   *)
(* The fields no default covers (MAC, Port, res1..res10) stay junk for     *)
(* good once the defaults were taken; nothing reads them.                  *)
(***************************************************************************)
EXTENDS Integers

CONSTANTS
  Leases,    \* addresses DHCP may give the board
  MaxBoots   \* bound: starts of the program

ASSUME ParaAssumption ==
  /\ Leases \cap {"factory", "default", "none", "junk"} = {}
  /\ MaxBoots \in Nat

Flag == 1
Ip == 2
Dip == 3
ParaFields == Flag .. Dip

\* The addresses main() can find: 0x8802a8c0, "none" where ip[2] is still -1,
\* a lease.
Found == Leases \cup {"factory", "none"}

VARIABLES
  file,    \* what a read of the file gives, in the page cache
  disk,    \* the same of what has reached the flash
  para,    \* the record in memory
  step,    \* of main(): where the start is
  saving,  \* the file is truncated and not yet written
  boots,   \* starts so far
  hurt,    \* history: a crash left an empty file, a start could not read the
           \* file, or a write was cut short
  full,    \* history: a write was cut short by a full disk
  latest,  \* history: the address this start found, or was left with
  known    \* history: the addresses the file may lawfully remember

paraVars == <<file, disk, para, step, saving, boots, hurt, full, latest, known>>

Empty == [f \in ParaFields |-> "junk"]

\* The file after the first k fields of r were written.
Cut(r, k) == [f \in ParaFields |-> IF f <= k THEN r[f] ELSE "junk"]

\* As delivered: a complete record with the customer's server address.
ParaStart ==
  /\ file = <<"set", "default", "own">>
  /\ disk = file
  /\ para = Empty
  /\ step = "off"
  /\ saving = FALSE
  /\ boots = 0
  /\ hurt = FALSE
  /\ full = FALSE
  /\ latest = "default"
  /\ known = {"default"}

-----------------------------------------------------------------------------
(* main(), up to the second SetSysPara.                                    *)

PowerOn ==
  /\ step = "off" /\ boots < MaxBoots
  /\ boots' = boots + 1
  /\ step' = "para"
  /\ para' = Empty
  /\ UNCHANGED <<file, disk, saving, hurt, full, latest, known>>

\* The defaults, and SetFlag.
Defaults == <<"set", "default", "default">>

\* Mutant of IsSet: the record is taken as it was read.
Trusts(r) == TRUE

\* if(pt_Sys_Para->SetFlag!=0x12345678)
IsSet(r) == r[Flag] = "set"

\* ReadFile: the record stays as malloc gave it when fopen or fread fails.
GetSysPara(ok) == IF ok THEN file ELSE Empty

\* GetSysPara's result is printed, and the start goes on with what there is.
ParaInit ==
  /\ step = "para"
  /\ \E ok \in BOOLEAN :
       /\ IF IsSet(GetSysPara(ok))
          THEN para' = GetSysPara(ok) /\ step' = "address"
          ELSE para' = Defaults /\ step' = "default"
       /\ hurt' = (hurt \/ ~ok)
       /\ known' = IF ok THEN known ELSE known \cup {"default"}
  /\ UNCHANGED <<file, disk, saving, boots, full, latest>>

\* Mutant of Remembered: the address is not put into the record.
Forgotten(a) == para

Remembered(a) == [para EXCEPT ![Ip] = a]

\* getlocalhostip: a lease is put into the record.
GetAddress ==
  /\ step = "address"
  /\ \E a \in Found \ {"factory"} :
       /\ para' = Remembered(a)
       /\ latest' = a
       /\ known' = known \cup {a}
  /\ step' = "found"
  /\ UNCHANGED <<file, disk, saving, boots, hurt, full>>

\* getlocalhostip: the factory address; setip is next.
FactoryAddress ==
  /\ step = "address"
  /\ latest' = para[Ip]
  /\ step' = "setip"
  /\ UNCHANGED <<file, disk, para, saving, boots, hurt, full, known>>

\* setip(Para->IP_Addr), whether the ioctl succeeds or not.
setip ==
  /\ step = "setip"
  /\ step' = "again"
  /\ UNCHANGED <<file, disk, para, saving, boots, hurt, full, latest, known>>

-----------------------------------------------------------------------------
(* SetSysPara, at the three places it is called from.                      *)

After == [default |-> "address", found |-> "again", again |-> "up"]
Saves == DOMAIN After

\* fopen(name,"wb+") fails: the old file stays.
Refused ==
  /\ step \in Saves /\ ~saving
  /\ step' = After[step]
  /\ UNCHANGED <<file, disk, para, saving, boots, hurt, full, latest, known>>

Truncate ==
  /\ step \in Saves /\ ~saving
  /\ saving' = TRUE
  /\ file' = Empty
  /\ UNCHANGED <<disk, para, step, boots, hurt, full, latest, known>>

\* fwrite and fclose; on a full disk only the first fields get there.
WriteFile ==
  /\ saving
  /\ \E k \in 0 .. Dip :
       /\ file' = Cut(para, k)
       /\ full' = (full \/ k < Dip)
       /\ hurt' = (hurt \/ k < Dip)
  /\ saving' = FALSE
  /\ step' = After[step]
  /\ UNCHANGED <<disk, para, boots, latest, known>>

SetSysPara == Refused \/ Truncate \/ WriteFile

-----------------------------------------------------------------------------
(* The flash and the crashes.                                              *)

\* The kernel writes the file back, at any time.
WriteBack ==
  /\ disk # file \/ (step = "up" /\ known # {latest} /\ file = para)
  /\ disk' = file
  /\ known' = IF step = "up" /\ file = para THEN {latest} ELSE known
  /\ UNCHANGED <<file, para, step, saving, boots, hurt, full, latest>>

\* What the next start reads.
Left(f) ==
  /\ file' = f
  /\ disk' = f
  /\ hurt' = (hurt \/ f = Empty)
  /\ known' = IF f = Empty THEN known \cup {"default"} ELSE known
  /\ step' = "off"
  /\ saving' = FALSE
  /\ para' = Empty
  /\ latest' = "default"
  /\ UNCHANGED <<boots, full>>

\* The program is killed: the page cache survives; the power is cut: only what
\* reached the flash does.
Kill == step # "off" /\ Left(file)
PowerCut == step # "off" /\ Left(disk)

ParaSteps ==
  \/ PowerOn \/ ParaInit \/ GetAddress \/ FactoryAddress \/ setip
  \/ SetSysPara \/ WriteBack

ParaNext == ParaSteps \/ Kill \/ PowerCut

ParaSpec == ParaStart /\ [][ParaNext]_paraVars

-----------------------------------------------------------------------------
(* Properties.                                                             *)

Values == Found \cup {"set", "junk", "default", "own"}

\* Type invariant.
ParaTypeOK ==
  /\ file \in [ParaFields -> Values]
  /\ disk \in [ParaFields -> Values]
  /\ para \in [ParaFields -> Values]
  /\ step \in Saves \cup {"off", "para", "address", "setip", "up"}
  /\ saving \in BOOLEAN
  /\ boots \in 0 .. MaxBoots
  /\ hurt \in BOOLEAN
  /\ full \in BOOLEAN
  /\ latest \in Values
  /\ known \subseteq Values

\* However often the program was killed or the power cut while the file was
\* truncated, unwritten or not yet on the flash: the program goes on with the
\* customer's server address, or, after a crash that left an empty file or a
\* start that could not read it, with the default; and none of its addresses is
\* ever uninitialised memory.  A disk so full that a record was cut behind its
\* SetFlag breaks this.
KeepsSettings ==
  step \in {"setip", "again", "up"} =>
    \/ full
    \/ /\ para[Dip] = "own" \/ (hurt /\ para[Dip] = "default")
       /\ para[Ip] # "junk"

\* A board that comes up with its factory address is given the address of its
\* last completed start, or of one begun since, or the default, if since then a
\* file was found empty or could not be read - "none", 255.255.255.255, when
\* that start saw fewer than three interfaces.
RemembersAddress == step = "setip" => full \/ para[Ip] \in known
=============================================================================
