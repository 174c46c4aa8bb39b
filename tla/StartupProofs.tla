---------------------------- MODULE StartupProofs ----------------------------
(***************************************************************************)
(* Proofs about main() through starts and crashes: the parameter file      *)
(* (SysPara), for any leases and any number of starts, and the devices     *)
(* (Devices), for any ports and any number of clients.                     *)
(*                                                                         *)
(* The file: what a start finds is either a complete record or an empty    *)
(* file, and an empty file, or one that could not be read, has left its    *)
(* trace (hurt, the default among the known addresses) before the record   *)
(* is used.                                                                *)
(*                                                                         *)
(* The devices: who holds a descriptor knows its number (Own), what main() *)
(* has not come to yet has none (Fresh), and a thread whose read failed    *)
(* has none either (GivenBack).  So a close hits its own descriptor only.  *)
(***************************************************************************)
EXTENDS Startup, FiniteSetTheorems, TLAPS

Records == [ParaFields -> Values]

LEMMA Three == ParaFields = {1, 2, 3} /\ Flag = 1 /\ Ip = 2 /\ Dip = 3
  BY DEF ParaFields, Flag, Ip, Dip

LEMMA KnownValues ==
  /\ {"set", "junk", "default", "own", "factory", "none"} \subseteq Values
  /\ Found \subseteq Values
  /\ "junk" \notin Found
  BY ParaAssumption DEF Values, Found

\* The records the program starts from.
LEMMA Delivered ==
  /\ <<"set", "default", "own">> \in Records
  /\ <<"set", "default", "own">>[Flag] = "set"
  /\ <<"set", "default", "own">>[Ip] = "default"
  /\ <<"set", "default", "own">>[Dip] = "own"
  BY Three, KnownValues DEF Records

LEMMA TheDefaults ==
  /\ Defaults \in Records
  /\ Defaults[Flag] = "set" /\ Defaults[Ip] = "default" /\ Defaults[Dip] = "default"
  BY Three, KnownValues DEF Records, Defaults

LEMMA TheEmpty == Empty \in Records /\ Empty[Flag] = "junk"
  BY Three, KnownValues DEF Records, Empty

\* A record written to its last field is in the file as it was in memory.
LEMMA CutType ==
  ASSUME NEW x \in Records, NEW k \in 0 .. Dip
  PROVE  Cut(x, k) \in Records
  BY KnownValues DEF Records, Cut

LEMMA CutWhole ==
  ASSUME NEW x \in Records, NEW k \in 0 .. Dip, ~(k < Dip)
  PROVE  Cut(x, k) = x
<1>1. \A f \in ParaFields : f <= k
  BY Three
<1> QED
  BY <1>1 DEF Records, Cut

-----------------------------------------------------------------------------
(* Types.                                                                  *)

LEMMA SaveSteps ==
  /\ Saves = {"default", "found", "again"}
  /\ \A s \in Saves : After[s] \in {"address", "again", "up"}
  BY DEF Saves, After

\* The file is truncated only at the three places where it is saved.
Saving == saving => step \in Saves

Typed == ParaTypeOK /\ Saving

LEMMA ParaTypeInit == ParaStart => Typed
<1> SUFFICES ASSUME ParaStart PROVE Typed
  OBVIOUS
<1>1. file \in Records /\ disk \in Records /\ para \in Records
  BY Delivered, TheEmpty DEF ParaStart
<1>2. boots \in 0 .. MaxBoots
  BY ParaAssumption DEF ParaStart
<1> QED
  BY <1>1, <1>2, KnownValues DEF ParaStart, ParaTypeOK, Typed, Saving, Records

LEMMA SavingStep == Saving /\ [ParaNext]_paraVars => Saving'
  BY SaveSteps
     DEF Saving, ParaNext, ParaSteps, SetSysPara, paraVars, PowerOn, ParaInit, GetAddress,
         FactoryAddress, setip, Refused, Truncate, WriteFile, WriteBack, Kill, PowerCut, Left

LEMMA ParaTypeStep == Typed /\ [ParaNext]_paraVars => ParaTypeOK'
<1> SUFFICES ASSUME ParaTypeOK, Saving, [ParaNext]_paraVars PROVE ParaTypeOK'
  BY DEF Typed
<1> USE KnownValues DEF Records
<1>1. CASE PowerOn
  BY <1>1, SaveSteps, TheEmpty, ParaAssumption DEF PowerOn, ParaTypeOK
<1>2. CASE ParaInit
  <2>1. PICK ok \in BOOLEAN :
          /\ IF IsSet(GetSysPara(ok))
             THEN para' = GetSysPara(ok) /\ step' = "address"
             ELSE para' = Defaults /\ step' = "default"
          /\ hurt' = (hurt \/ ~ok)
          /\ known' = IF ok THEN known ELSE known \cup {"default"}
    BY <1>2 DEF ParaInit
  <2>2. GetSysPara(ok) \in Records
    BY TheEmpty DEF GetSysPara, ParaTypeOK
  <2>3. para' \in Records /\ step' \in {"address", "default"}
    BY <2>1, <2>2, TheDefaults
  <2>4. hurt' \in BOOLEAN /\ known' \subseteq Values
    BY <2>1 DEF ParaTypeOK
  <2> QED
    BY <1>2, <2>3, <2>4, SaveSteps DEF ParaInit, ParaTypeOK
<1>3. CASE GetAddress
  <2>1. PICK a \in Found \ {"factory"} :
          para' = Remembered(a) /\ latest' = a /\ known' = known \cup {a}
    BY <1>3 DEF GetAddress
  <2>2. para' \in Records
    BY <2>1 DEF Remembered, ParaTypeOK
  <2> QED
    BY <1>3, SaveSteps, <2>1, <2>2 DEF GetAddress, ParaTypeOK
<1>4. CASE FactoryAddress
  BY <1>4, SaveSteps, Three DEF FactoryAddress, ParaTypeOK
<1>5. CASE setip
  BY <1>5, SaveSteps DEF setip, ParaTypeOK
<1>6. CASE Refused
  BY <1>6, SaveSteps DEF Refused, ParaTypeOK
<1>7. CASE Truncate
  BY <1>7, SaveSteps, TheEmpty DEF Truncate, ParaTypeOK
<1>8. CASE WriteFile
  <2>1. file' \in Records /\ full' \in BOOLEAN /\ hurt' \in BOOLEAN
    BY <1>8, CutType DEF WriteFile, ParaTypeOK
  <2>2. step' \in Saves \cup {"off", "para", "address", "setip", "up"}
    BY <1>8, SaveSteps DEF WriteFile, Saving
  <2> QED
    BY <1>8, <2>1, <2>2 DEF WriteFile, ParaTypeOK
<1>9. CASE WriteBack
  BY <1>9 DEF WriteBack, ParaTypeOK
<1>10. CASE Kill \/ PowerCut
  <2>1. PICK f \in {file, disk} : Left(f)
    BY <1>10 DEF Kill, PowerCut
  <2> QED
    BY <2>1, SaveSteps, TheEmpty DEF Left, ParaTypeOK
<1>11. CASE UNCHANGED paraVars
  BY <1>11 DEF paraVars, ParaTypeOK
<1> QED
  BY <1>1, <1>2, <1>3, <1>4, <1>5, <1>6, <1>7, <1>8, <1>9, <1>10, <1>11
     DEF ParaNext, ParaSteps, SetSysPara

\* Every variable keeps its type.
THEOREM ParaTypes == ParaSpec => []Typed
<1>1. Typed /\ [ParaNext]_paraVars => Typed'
  BY ParaTypeStep, SavingStep DEF Typed
<1> QED
  BY ParaTypeInit, <1>1, PTL DEF ParaSpec

-----------------------------------------------------------------------------
(* The settings.                                                           *)

\* A record that was saved whole.
Complete(x, h) ==
  /\ x[Flag] = "set" /\ x[Ip] # "junk"
  /\ x[Dip] = "own" \/ (h /\ x[Dip] = "default")

\* While no write was cut short: what a start may find.
Kept ==
  full \/
    /\ file = Empty \/ Complete(file, hurt)
    /\ disk = Empty \/ Complete(disk, hurt)
    /\ step \in {"off", "para"} /\ file = Empty => hurt
    /\ step \in {"default", "address", "setip", "found", "again", "up"} => Complete(para, hurt)

LEMMA StaysFull == ASSUME [ParaNext]_paraVars, full PROVE full'
  BY DEF ParaNext, ParaSteps, SetSysPara, paraVars, PowerOn, ParaInit, GetAddress,
         FactoryAddress, setip, Refused, Truncate, WriteFile, WriteBack, Kill, PowerCut, Left

LEMMA KeptInit == ParaStart => Kept
<1> SUFFICES ASSUME ParaStart PROVE Kept
  OBVIOUS
<1>1. file[Flag] = "set" /\ file[Ip] = "default" /\ file[Dip] = "own"
  BY Delivered DEF ParaStart
<1>2. disk = file /\ step = "off" /\ file # Empty
  BY <1>1, TheEmpty DEF ParaStart
<1>3. Complete(file, hurt)
  BY <1>1 DEF Complete
<1> QED
  BY <1>2, <1>3 DEF Kept

LEMMA KeptStep == Typed /\ Kept /\ [ParaNext]_paraVars => Kept'
<1> SUFFICES ASSUME ParaTypeOK, Saving, Kept, [ParaNext]_paraVars, ~full' PROVE Kept'
  BY DEF Kept, Typed
<1>0. ~full
  BY StaysFull
<1>1. CASE PowerOn
  BY <1>0, <1>1 DEF PowerOn, Kept
<1>2. CASE ParaInit
  <2>0. PICK ok \in BOOLEAN :
          /\ IF IsSet(GetSysPara(ok))
             THEN para' = GetSysPara(ok) /\ step' = "address"
             ELSE para' = Defaults /\ step' = "default"
          /\ hurt' = (hurt \/ ~ok)
    BY <1>2 DEF ParaInit
  <2>1. CASE IsSet(GetSysPara(ok))
    <3>1. ok /\ para' = file /\ step' = "address" /\ file # Empty
      BY <2>0, <2>1, TheEmpty DEF GetSysPara, IsSet
    <3>2. hurt' = hurt
      BY <2>0, <3>1 DEF ParaTypeOK
    <3> QED
      BY <1>0, <1>2, <3>1, <3>2 DEF ParaInit, Kept
  <2>2. CASE ~IsSet(GetSysPara(ok))
    <3>1. hurt' /\ (hurt => hurt')
      BY <1>0, <1>2, <2>0, <2>2 DEF ParaInit, GetSysPara, IsSet, Kept, Complete
    <3>2. Complete(Defaults, hurt')
      BY <3>1, TheDefaults DEF Complete
    <3>3. para' = Defaults /\ step' = "default" /\ UNCHANGED <<file, disk>>
      BY <1>2, <2>0, <2>2 DEF ParaInit
    <3> QED
      BY <1>0, <3>1, <3>2, <3>3 DEF Kept, Complete
  <2> QED
    BY <2>1, <2>2
<1>3. CASE GetAddress
  <2>1. PICK a \in Found : para' = [para EXCEPT ![Ip] = a]
    BY <1>3 DEF GetAddress, Remembered
  <2>2. a # "junk"
    BY KnownValues
  <2>3. para'[Ip] = a /\ para'[Flag] = para[Flag] /\ para'[Dip] = para[Dip]
    BY <2>1, Three DEF ParaTypeOK
  <2>4. Complete(para, hurt)
    BY <1>0, <1>3 DEF GetAddress, Kept
  <2>5. Complete(para', hurt)
    BY <2>2, <2>3, <2>4 DEF Complete
  <2> QED
    BY <1>0, <1>3, <2>5 DEF GetAddress, Kept
<1>4. CASE FactoryAddress \/ setip
  BY <1>0, <1>4 DEF FactoryAddress, setip, Kept
<1>5. CASE Refused
  BY <1>0, <1>5, SaveSteps DEF Refused, Kept
<1>6. CASE Truncate
  BY <1>0, <1>6, SaveSteps DEF Truncate, Kept
<1>7. CASE WriteFile
  <2>1. PICK k \in 0 .. Dip : /\ file' = Cut(para, k)
                             /\ full' = (full \/ k < Dip) /\ hurt' = (hurt \/ k < Dip)
    BY <1>7 DEF WriteFile
  <2>2. ~(k < Dip)
    BY <2>1
  <2>3. file' = para
    BY <2>1, <2>2, CutWhole DEF ParaTypeOK, Records
  <2>4. hurt' = hurt
    BY <2>1, <2>2 DEF ParaTypeOK
  <2>5. step \in Saves /\ step' = After[step] /\ UNCHANGED <<disk, para>>
    BY <1>7 DEF WriteFile, Saving
  <2> QED
    BY <1>0, <2>3, <2>4, <2>5, SaveSteps DEF Kept
<1>8. CASE WriteBack
  BY <1>0, <1>8 DEF WriteBack, Kept
<1>9. CASE Kill \/ PowerCut
  <2>1. PICK f \in {file, disk} : Left(f)
    BY <1>9 DEF Kill, PowerCut
  <2>2. /\ file' = f /\ disk' = f /\ step' = "off" /\ (f = Empty => hurt') /\ (hurt => hurt')
    BY <2>1 DEF Left
  <2> QED
    BY <1>0, <2>2 DEF Kept, Complete
<1>10. CASE UNCHANGED paraVars
  BY <1>10 DEF paraVars, Kept
<1> QED
  BY <1>1, <1>2, <1>3, <1>4, <1>5, <1>6, <1>7, <1>8, <1>9, <1>10
     DEF ParaNext, ParaSteps, SetSysPara

\* However often the program was killed or the power cut: it goes on with the
\* customer's server address, or, after a crash that left an empty file or a
\* start that could not read it, with the default, unless a full disk has cut a
\* record short.
THEOREM SettingsKept == ParaSpec => []KeepsSettings
<1>1. Kept => KeepsSettings
  BY DEF Kept, Complete, KeepsSettings
<1> QED
  BY <1>1, KeptInit, KeptStep, ParaTypes, PTL DEF ParaSpec

-----------------------------------------------------------------------------
(* The address.                                                            *)

\* While no write was cut short: the files remember known addresses, and so
\* does the record in memory once it was read; before the last save it holds
\* the address this start found.
Remembers ==
  full \/
    /\ file = Empty \/ (file[Flag] = "set" /\ file[Ip] \in known)
    /\ disk = Empty \/ (disk[Flag] = "set" /\ disk[Ip] \in known)
    /\ step \in {"off", "para"} /\ file = Empty => "default" \in known
    /\ step \in {"default", "address", "setip", "found", "again", "up"} =>
         para[Flag] = "set" /\ para[Ip] \in known
    /\ step \in {"setip", "found", "again", "up"} => para[Ip] = latest

LEMMA RemembersInit == ParaStart => Remembers
  BY Delivered DEF ParaStart, Remembers

LEMMA RemembersStep == Typed /\ Remembers /\ [ParaNext]_paraVars => Remembers'
<1> SUFFICES ASSUME ParaTypeOK, Saving, Remembers, [ParaNext]_paraVars, ~full' PROVE Remembers'
  BY DEF Remembers, Typed
<1>0. ~full
  BY StaysFull
<1>1. CASE PowerOn
  BY <1>0, <1>1 DEF PowerOn, Remembers
<1>2. CASE ParaInit
  <2>0. PICK ok \in BOOLEAN :
          /\ IF IsSet(GetSysPara(ok))
             THEN para' = GetSysPara(ok) /\ step' = "address"
             ELSE para' = Defaults /\ step' = "default"
          /\ known' = IF ok THEN known ELSE known \cup {"default"}
    BY <1>2 DEF ParaInit
  <2>1. CASE IsSet(GetSysPara(ok))
    <3>1. ok /\ para' = file /\ step' = "address" /\ file # Empty
      BY <2>0, <2>1, TheEmpty DEF GetSysPara, IsSet
    <3>2. known' = known
      BY <2>0, <3>1
    <3> QED
      BY <1>0, <1>2, <3>1, <3>2 DEF ParaInit, Remembers
  <2>2. CASE ~IsSet(GetSysPara(ok))
    <3>1. "default" \in known' /\ known \subseteq known'
      BY <1>0, <1>2, <2>0, <2>2 DEF ParaInit, GetSysPara, IsSet, Remembers
    <3>2. para' = Defaults /\ step' = "default" /\ UNCHANGED <<file, disk>>
      BY <1>2, <2>0, <2>2 DEF ParaInit
    <3> QED
      BY <1>0, <3>1, <3>2, TheDefaults DEF Remembers
  <2> QED
    BY <2>1, <2>2
<1>3. CASE GetAddress
  <2>1. PICK a \in Found :
          para' = [para EXCEPT ![Ip] = a] /\ latest' = a /\ known' = known \cup {a}
    BY <1>3 DEF GetAddress, Remembered
  <2>2. para'[Ip] = a /\ para'[Flag] = para[Flag]
    BY <2>1, Three DEF ParaTypeOK
  <2> QED
    BY <1>0, <1>3, <2>1, <2>2 DEF GetAddress, Remembers
<1>4. CASE FactoryAddress \/ setip
  BY <1>0, <1>4 DEF FactoryAddress, setip, Remembers
<1>5. CASE Refused
  BY <1>0, <1>5, SaveSteps DEF Refused, Remembers, After, Saves
<1>6. CASE Truncate
  BY <1>0, <1>6, SaveSteps DEF Truncate, Remembers
<1>7. CASE WriteFile
  <2>1. PICK k \in 0 .. Dip : file' = Cut(para, k) /\ full' = (full \/ k < Dip)
    BY <1>7 DEF WriteFile
  <2>2. ~(k < Dip)
    BY <2>1
  <2>3. file' = para
    BY <2>1, <2>2, CutWhole DEF ParaTypeOK, Records
  <2>4. step \in Saves /\ step' = After[step] /\ UNCHANGED <<disk, para, latest, known>>
    BY <1>7 DEF WriteFile, Saving
  <2> QED
    BY <1>0, <2>3, <2>4, SaveSteps DEF Remembers, After, Saves
<1>8. CASE WriteBack
  <2>1. UNCHANGED <<file, para, step, latest>> /\ disk' = file
    BY <1>8 DEF WriteBack
  <2>2. CASE step = "up" /\ file = para
    <3>1. known' = {latest} /\ para[Ip] = latest /\ para[Flag] = "set"
      BY <1>0, <1>8, <2>2 DEF WriteBack, Remembers
    <3> QED
      BY <1>0, <2>1, <2>2, <3>1 DEF Remembers
  <2>3. CASE ~(step = "up" /\ file = para)
    BY <1>0, <1>8, <2>1, <2>3 DEF WriteBack, Remembers
  <2> QED
    BY <2>2, <2>3
<1>9. CASE Kill \/ PowerCut
  <2>1. PICK f \in {file, disk} : Left(f)
    BY <1>9 DEF Kill, PowerCut
  <2>2. /\ file' = f /\ disk' = f /\ step' = "off" /\ known \subseteq known'
        /\ (f = Empty => "default" \in known')
    BY <2>1 DEF Left
  <2> QED
    BY <1>0, <2>2 DEF Remembers
<1>10. CASE UNCHANGED paraVars
  BY <1>10 DEF paraVars, Remembers
<1> QED
  BY <1>1, <1>2, <1>3, <1>4, <1>5, <1>6, <1>7, <1>8, <1>9, <1>10
     DEF ParaNext, ParaSteps, SetSysPara

\* A board that comes up with its factory address is given the address of its
\* last completed start, or of one begun since, or the default, if since then a
\* file was found empty or could not be read, unless a full disk has cut a
\* record short.
THEOREM AddressRemembered == ParaSpec => []RemembersAddress
<1>1. Remembers => RemembersAddress
  BY DEF Remembers, RemembersAddress
<1> QED
  BY <1>1, RemembersInit, RemembersStep, ParaTypes, PTL DEF ParaSpec

-----------------------------------------------------------------------------
(* The devices.  First what the steps of Devices do to the descriptors and *)
(* the threads, whoever takes them.                                        *)

BeforeCan == {"export", "value", "direction", "out", "low", "can"}

\* main() has not come to x yet, or the client x is not connected.
NotYet(x) ==
  \/ x = "export" /\ pc = "export"
  \/ x = "value" /\ pc \in {"export", "value"}
  \/ x = "direction" /\ pc \in {"export", "value", "direction"}
  \/ x = "can" /\ pc \in BeforeCan
  \/ /\ x \in Ports
     /\ \/ pc \in BeforeCan \cup {"add"}
        \/ pc = "usart" /\ \E k \in at .. Len(Wanted) : x = Wanted[k]
  \/ x = "server" /\ (pc # "run" \/ thread["server"] = "start")
  \/ x \in Clients /\ (pc # "run" \/ thread[x] = "none")

LEMMA TheNames ==
  /\ Names = {"export", "value", "direction", "can", "server"} \cup Ports \cup Clients
  /\ Readers = {"can", "server"} \cup Ports \cup Clients
  /\ Readers \subseteq Names
  /\ "nobody" \notin Names
  BY DeviceAssumption DEF Names, Entries, Pins, Readers

LEMMA Apart ==
  /\ Ports \cap Clients = {}
  /\ \A x \in Ports \cup Clients : x \notin Pins /\ x # "can" /\ x # "server"
  /\ \A x \in Clients : x \notin Entries
  BY DeviceAssumption DEF Entries, Pins

LEMMA TheWanted ==
  /\ Len(Wanted) \in Nat /\ Len(Wanted) >= 1
  /\ \A k \in 1 .. Len(Wanted) : Wanted[k] \in Ports
  BY DeviceAssumption

LEMMA SomePort == ASSUME NEW x \in Ports PROVE \E k \in 1 .. Len(Wanted) : x = Wanted[k]
  BY DeviceAssumption DEF Ports, ToSet

LEMMA FiniteNames == IsFiniteSet(Names) /\ IsFiniteSet(Ports)
<1>1. IsFiniteSet(Ports) /\ IsFiniteSet(Clients)
  <2>1. IsFiniteSet(1 .. Len(Wanted))
    BY FS_Interval, TheWanted
  <2>2. Ports = {Wanted[i] : i \in 1 .. Len(Wanted)}
    BY DeviceAssumption DEF Ports, ToSet
  <2> DEFINE f == [i \in 1 .. Len(Wanted) |-> Wanted[i]]
  <2>3. f \in Surjection(1 .. Len(Wanted), Ports)
    BY <2>2 DEF Surjection
  <2> QED
    BY <2>1, <2>3, FS_Surjection, DeviceAssumption
<1>2. IsFiniteSet({"export", "value", "direction", "can", "server"})
  <2>1. \A S, y : IsFiniteSet(S) => IsFiniteSet(S \cup {y})
    BY FS_AddElement
  <2> DEFINE Five == (((({} \cup {"export"}) \cup {"value"}) \cup {"direction"}) \cup {"can"})
                        \cup {"server"}
  <2>2. IsFiniteSet(Five)
    BY <2>1, FS_EmptySet
  <2> QED
    BY <2>2
<1> QED
  BY <1>1, <1>2, FS_Union, TheNames

-----------------------------------------------------------------------------
(* The lowest free descriptor.                                             *)

\* Who holds a descriptor knows its number.
Own == \A f \in Fds : holder[f] # "nobody" => fd[holder[f]] = f

LEMMA LeastNumber ==
  ASSUME NEW S \in SUBSET Nat, S # {}
  PROVE  \E m \in S : \A n \in S : m <= n
<1> DEFINE Less == {p \in Nat \X Nat : p[1] < p[2]}
<1>1. IsWellFoundedOn(Less, Nat)
  BY NatLessThanWellFounded DEF OpToRel
<1> HIDE DEF Less
<1>2. PICK m \in S : \A n \in S : <<n, m>> \notin Less
  BY <1>1, WFMin
<1>3. ASSUME NEW n \in S, n < m PROVE <<n, m>> \in Less
  <2>1. <<n, m>> \in Nat \X Nat
    OBVIOUS
  <2>2. <<n, m>>[1] < <<n, m>>[2]
    BY <1>3
  <2> QED
    BY <2>1, <2>2, Zenon DEF Less
<1>4. \A n \in S : ~(n < m)
  BY <1>2, <1>3, Zenon
<1> QED
  BY <1>4

\* While something is closed there is a free descriptor, for there are as many
\* as there are names.
LEMMA SomeFree ==
  ASSUME DevTypeOK, Own, NEW x \in Names, fd[x] = -1
  PROVE  \E g \in Fds : holder[g] = "nobody"
<1> SUFFICES ASSUME \A g \in Fds : holder[g] # "nobody" PROVE FALSE
  OBVIOUS
<1>1. holder \in [Fds -> Names \ {x}]
  <2>1. \A g \in Fds : holder[g] \in Names /\ fd[holder[g]] = g
    BY DEF DevTypeOK, Own
  <2>2. \A g \in Fds : g # -1
    BY DeviceAssumption DEF Fds
  <2>3. \A g \in Fds : holder[g] \in Names \ {x}
    BY <2>1, <2>2
  <2> QED
    BY <2>3 DEF DevTypeOK
<1>2. IsFiniteSet(Fds) /\ Cardinality(Fds) = NFds
  BY FS_Interval, DeviceAssumption DEF Fds
<1>3. IsFiniteSet(Names \ {x}) /\ Cardinality(Names \ {x}) = Cardinality(Names) - 1
  BY FiniteNames, FS_RemoveElement
<1>4. Cardinality(Names) \in Nat /\ NFds >= Cardinality(Names) /\ NFds \in Nat
  BY FiniteNames, FS_CardinalityType, DeviceAssumption DEF Names
<1>5. PICK f \in Fds, g \in Fds : f # g /\ holder[f] = holder[g]
  BY <1>1, <1>2, <1>3, <1>4, FS_PigeonHole
<1> QED
  BY <1>5 DEF Own

LEMMA LowestFree ==
  ASSUME DevTypeOK, Own, NEW x \in Names, fd[x] = -1
  PROVE  Lowest \in Fds /\ holder[Lowest] = "nobody"
<1> DEFINE Free == {g \in Fds : holder[g] = "nobody"}
<1>1. Free \in SUBSET Nat /\ Free # {}
  BY SomeFree DEF Fds
<1>2. \E m \in Free : \A n \in Free : m <= n
  BY <1>1, LeastNumber
<1>3. \E g \in Fds : /\ holder[g] = "nobody"
                     /\ \A h \in Fds : holder[h] = "nobody" => g <= h
  BY <1>2
<1> QED
  BY <1>3 DEF Lowest

-----------------------------------------------------------------------------
(* What a step does to the descriptors.                                    *)

\* The list is as far as main() has come with the ports it wants.
Registered ==
  /\ list \in Seq(Ports) /\ Len(list) <= Len(Wanted)
  /\ \A k \in 1 .. Len(list) : list[k] = Wanted[k]
  /\ pc \in BeforeCan => list = <<>>
  /\ pc = "add" => Len(list) < Len(Wanted)
  /\ pc \in {"usart", "server", "run"} => Len(list) = Len(Wanted)

Fresh == \A x \in Names : NotYet(x) => fd[x] = -1

\* A thread reads, or has read, something that was opened.
Opened == \A r \in Readers : thread[r] \in {"read", "put"} => fd[r] # -1

\* A thread whose read failed no longer has a descriptor open.
GivenBack == \A r \in Readers, f \in Fds : thread[r] = "put" => holder[f] # r

\* The listening thread is started last.
Served == thread["server"] = "start" => pc = "run"

Core == DevTypeOK /\ Registered /\ Fresh /\ Opened /\ Served /\ Own

\* x gets the lowest free descriptor.
Enters(x) ==
  /\ NotYet(x) /\ ~NotYet(x)'
  /\ fd[x] = -1 /\ Lowest \in Fds /\ holder[Lowest] = "nobody"
  /\ Opens(x)
  /\ \A r \in Readers : r # x => thread'[r] = thread[r]
  /\ x \in Readers => thread'[x] \in {thread[x], "none", "read"}
  /\ UNCHANGED broken

\* Nothing is opened, closed, read or forgotten.
Quiet ==
  /\ UNCHANGED <<fd, holder, broken>>
  /\ \A r \in Readers : \/ thread'[r] = thread[r]
                          \/ {thread[r], thread'[r]} \subseteq {"none", "start"}

\* The files of the pin are closed, once or again.
Shuts ==
  /\ pc \in {"out", "low"}
  /\ holder' = Closed({fd["value"], fd["direction"]})
  /\ UNCHANGED <<fd, thread, broken>>

LEMMA OpensOrFails ==
  ASSUME Core, NEW x \in Names, NotYet(x), ~NotYet(x)',
         Opens(x) \/ Fails(x),
         \A r \in Readers : r # x => thread'[r] = thread[r],
         x \in Readers => thread'[x] \in {thread[x], "none", "read"},
         Fails(x) /\ x \in Readers => thread'[x] = thread[x] \/
                                        {thread[x], thread'[x]} \subseteq {"none", "start"},
         UNCHANGED broken
  PROVE  Enters(x) \/ Quiet
<1>1. fd[x] = -1
  BY DEF Core, Fresh
<1>2. Lowest \in Fds /\ holder[Lowest] = "nobody"
  BY <1>1, LowestFree DEF Core
<1>3. CASE Opens(x)
  BY <1>1, <1>2, <1>3 DEF Enters
<1>4. CASE Fails(x)
  <2>1. fd' = fd /\ holder' = holder
    BY <1>1, <1>4 DEF Fails, Core, DevTypeOK
  <2> QED
    BY <2>1, <1>4 DEF Quiet
<1> QED
  BY <1>3, <1>4

LEMMA PinSteps ==
  ASSUME Core, GPIO_init \/ open_set_value_file \/ open_set_dir_file \/ set_dir \/ set_value
  PROVE  Quiet \/ Shuts \/ \E x \in Names : Enters(x)
<1> USE Apart, TheNames
<1>1. CASE GPIO_init
  <2>1. NotYet("export") /\ ~NotYet("export")'
    BY <1>1 DEF GPIO_init, NotYet, Pins
  <2> QED
    BY <1>1, <2>1, OpensOrFails DEF GPIO_init, Pins
<1>2. CASE open_set_value_file
  <2>1. NotYet("value") /\ ~NotYet("value")'
    BY <1>2 DEF open_set_value_file, NotYet, Pins
  <2> QED
    BY <1>2, <2>1, OpensOrFails DEF open_set_value_file, Pins
<1>3. CASE open_set_dir_file
  <2>1. NotYet("direction") /\ ~NotYet("direction")'
    BY <1>3 DEF open_set_dir_file, NotYet, Pins
  <2> QED
    BY <1>3, <2>1, OpensOrFails DEF open_set_dir_file, Pins
<1>4. CASE set_dir
  BY <1>4 DEF set_dir, Pin, Quiet, Shuts
<1>5. CASE set_value
  BY <1>5 DEF set_value, Pin, Quiet, Shuts
<1> QED
  BY <1>1, <1>2, <1>3, <1>4, <1>5

LEMMA CanSteps ==
  ASSUME Core, CANDevInit
  PROVE  Quiet \/ \E x \in Names : Enters(x)
<1> USE Apart, TheNames
<1>1. NotYet("can") /\ ~NotYet("can")'
  BY DEF CANDevInit, NotYet, BeforeCan
<1>2. Opens("can") \/ Fails("can")
  BY DEF CANDevInit, CAN_init
<1>3. /\ \A r \in Readers : r # "can" => thread'[r] = thread[r]
      /\ thread'["can"] \in {thread["can"], "read"}
  BY DEF CANDevInit, ComRead, Core, DevTypeOK
<1>4. Fails("can") => Opens("can") \/ thread' = thread
  BY DEF CANDevInit, CAN_init
<1>5. CASE Opens("can") \/ thread' = thread
  <2>1. UNCHANGED broken
    BY DEF CANDevInit
  <2>2. fd["can"] = -1
    BY <1>1 DEF Core, Fresh
  <2>3. Lowest \in Fds /\ holder[Lowest] = "nobody"
    BY <2>2, LowestFree DEF Core
  <2>4. CASE Opens("can")
    BY <1>1, <1>3, <2>1, <2>2, <2>3, <2>4 DEF Enters
  <2>5. CASE ~Opens("can")
    BY <1>1, <1>2, <1>3, <1>5, <2>1, <2>5, OpensOrFails
  <2> QED
    BY <2>4, <2>5
<1> QED
  BY <1>2, <1>4, <1>5

LEMMA PortSteps ==
  ASSUME Core, UsartDevInit
  PROVE  Quiet \/ \E x \in Names : Enters(x)
<1> USE Apart, TheNames
<1>0. /\ at \in 1 .. Len(Wanted) /\ list[at] = Wanted[at]
      /\ pc = "usart" /\ Len(list) = Len(Wanted)
  BY TheWanted DEF UsartDevInit, Core, DevTypeOK, Registered
<1>1. PICK p \in Ports : p = list[at] /\ p = Wanted[at]
  BY <1>0, TheWanted
<1>2. NotYet(p)
  BY <1>0, <1>1, TheWanted DEF NotYet
<1>3. ~NotYet(p)'
  <2>1. p \notin Pins /\ p \notin {"can", "server"} /\ p \notin Clients
    BY <1>1
  <2>2. \/ pc' = "server"
        \/ pc' = "usart" /\ at' = at + 1
    BY <1>0, <1>1 DEF UsartDevInit
  <2>3. \A k \in at + 1 .. Len(Wanted) : Wanted[k] # p
    BY <1>0, <1>1, TheWanted, DeviceAssumption
  <2> QED
    BY <2>1, <2>2, <2>3 DEF NotYet, BeforeCan, Pins
<1>4. Opens(p) \/ (Fails(p) /\ thread' = thread)
  BY <1>1 DEF UsartDevInit, USARTOpen, NotSet
<1>5. /\ \A r \in Readers : r # p => thread'[r] = thread[r]
      /\ thread'[p] \in {thread[p], "read"}
  BY <1>1 DEF UsartDevInit, ComRead, Core, DevTypeOK
<1>6. UNCHANGED broken
  BY DEF UsartDevInit
<1>7. fd[p] = -1
  BY <1>1, <1>2 DEF Core, Fresh
<1>8. Lowest \in Fds /\ holder[Lowest] = "nobody"
  BY <1>1, <1>7, LowestFree DEF Core
<1>9. CASE Opens(p)
  BY <1>1, <1>2, <1>3, <1>5, <1>6, <1>7, <1>8, <1>9 DEF Enters
<1>10. CASE ~Opens(p)
  BY <1>1, <1>2, <1>3, <1>4, <1>5, <1>6, <1>10, OpensOrFails
<1> QED
  BY <1>9, <1>10

LEMMA ListenSteps ==
  ASSUME Core, Thread_listen
  PROVE  Quiet \/ \E x \in Names : Enters(x)
<1> USE Apart, TheNames
<1>1. NotYet("server") /\ thread["server"] = "start" /\ pc = "run" /\ pc' = "run"
  BY DEF Thread_listen, Core, NotYet, Served
<1>2. \A r \in Readers : r # "server" => thread'[r] = thread[r]
  BY DEF Thread_listen, ComRead, Core, DevTypeOK
<1>3. thread'["server"] \in {"none", "read"} /\ (Fails("server") => thread'["server"] = "none"
                                                \/ Opens("server"))
  BY DEF Thread_listen, ComRead, Core, DevTypeOK
<1>4. ~NotYet("server")'
  BY <1>1, <1>3 DEF NotYet, Pins, BeforeCan
<1>5. Opens("server") \/ Fails("server")
  BY DEF Thread_listen
<1>6. UNCHANGED broken
  BY DEF Thread_listen
<1>7. fd["server"] = -1
  BY <1>1 DEF Core, Fresh
<1>8. Lowest \in Fds /\ holder[Lowest] = "nobody"
  BY <1>7, LowestFree DEF Core
<1>9. CASE Opens("server")
  BY <1>1, <1>2, <1>3, <1>4, <1>6, <1>7, <1>8, <1>9 DEF Enters
<1>10. CASE ~Opens("server")
  BY <1>1, <1>2, <1>3, <1>4, <1>5, <1>6, <1>10, OpensOrFails
<1> QED
  BY <1>9, <1>10

LEMMA AcceptSteps ==
  ASSUME Core, NEW c \in Clients, Accept(c)
  PROVE  Enters(c)
<1> USE Apart, TheNames
<1>1. pc = "run" /\ pc' = "run"
  BY DEF Accept, Core, Opened, Fresh, NotYet
<1>2. NotYet(c) /\ thread'[c] = "read"
  BY DEF Accept, ComRead, NotYet, Core, DevTypeOK
<1>3. ~NotYet(c)'
  BY <1>1, <1>2 DEF NotYet, Pins
<1>4. \A r \in Readers : r # c => thread'[r] = thread[r]
  BY DEF Accept, ComRead, Core, DevTypeOK
<1>5. UNCHANGED broken /\ Opens(c)
  BY DEF Accept
<1>6. fd[c] = -1
  BY <1>2 DEF Core, Fresh
<1>7. Lowest \in Fds /\ holder[Lowest] = "nobody"
  BY <1>6, LowestFree DEF Core
<1> QED
  BY <1>2, <1>3, <1>4, <1>5, <1>6, <1>7 DEF Enters

LEMMA OtherStarts ==
  ASSUME Core, AddUsartDevice \/ InitTcpServer
  PROVE  Quiet
<1>1. CASE AddUsartDevice
  BY <1>1 DEF AddUsartDevice, Quiet
<1>2. CASE InitTcpServer
  <2>1. thread["server"] \in {"none", "start"}
    BY <1>2, TheNames DEF InitTcpServer, Core, DevTypeOK, Opened, Fresh, NotYet
  <2>2. \A r \in Readers : r # "server" => thread'[r] = thread[r]
    BY <1>2 DEF InitTcpServer, SnlListen, Core, DevTypeOK
  <2>3. thread'["server"] = "start"
    BY <1>2, TheNames DEF InitTcpServer, SnlListen, Core, DevTypeOK
  <2> QED
    BY <1>2, <2>1, <2>2, <2>3 DEF InitTcpServer, Quiet
<1> QED
  BY <1>1, <1>2

\* Every step is of one of these kinds.
LEMMA DevSteps ==
  ASSUME Core, DevNext
  PROVE  \/ Quiet \/ Shuts \/ \E x \in Names : Enters(x)
         \/ \E r \in Readers : Close(r) \/ Callback(r)
  BY PinSteps, CanSteps, PortSteps, ListenSteps, AcceptSteps, OtherStarts, TheNames
     DEF DevNext, Start

-----------------------------------------------------------------------------
(* Who holds what.                                                         *)

LEMMA ShutFds == ASSUME NEW F, NEW f \in Fds
                 PROVE  Closed(F)[f] = IF f \in F THEN "nobody" ELSE holder[f]
  BY DEF Closed

\* The main thread goes forward only.
LEMMA Forward ==
  ASSUME Core, DevNext, NEW x \in Names, NotYet(x)', ~NotYet(x)
  PROVE  x \in Clients /\ Callback(x)
<1> USE Apart, TheNames DEF NotYet, BeforeCan, Pins
<1>1. CASE GPIO_init \/ open_set_value_file \/ open_set_dir_file \/ set_dir \/ set_value
  BY <1>1 DEF GPIO_init, open_set_value_file, open_set_dir_file, set_dir, set_value
<1>2. CASE CANDevInit
  <2>1. \A c \in Clients : thread'[c] = thread[c]
    BY <1>2 DEF CANDevInit, ComRead, Core, DevTypeOK
  <2> QED
    BY <1>2, <2>1 DEF CANDevInit
<1>3. CASE AddUsartDevice
  <2>1. x \in Ports => x \in Ports /\ pc = "add"
    BY <1>3 DEF AddUsartDevice
  <2> QED
    BY <1>3, <2>1 DEF AddUsartDevice
<1>4. CASE UsartDevInit
  <2>1. at' = at + 1 \/ pc' = "server"
    BY <1>4 DEF UsartDevInit
  <2>2. at \in Nat /\ pc = "usart" /\ pc' \in {"usart", "server"}
    BY <1>4, TheWanted DEF UsartDevInit, Core, DevTypeOK
  <2>3. \A k \in at + 1 .. Len(Wanted) : k \in at .. Len(Wanted)
    BY <2>2, TheWanted
  <2> QED
    BY <2>1, <2>2, <2>3
<1>5. CASE InitTcpServer
  <2>1. \A c \in Clients : thread'[c] = thread[c]
    BY <1>5 DEF InitTcpServer, SnlListen, Core, DevTypeOK
  <2> QED
    BY <1>5, <2>1 DEF InitTcpServer
<1>6. CASE Thread_listen
  <2>1. pc = "run" /\ pc' = pc /\ thread["server"] = "start"
    BY <1>6 DEF Thread_listen, Core, Served
  <2>2. \A c \in Clients : thread'[c] = thread[c]
    BY <1>6 DEF Thread_listen, ComRead, Core, DevTypeOK
  <2> QED
    BY <2>1, <2>2
<1>7. ASSUME NEW c \in Clients, Accept(c) PROVE FALSE
  <2>1. UNCHANGED <<pc, at>> /\ thread' = [thread EXCEPT ![c] = "read"]
    BY <1>7 DEF Accept, ComRead
  <2>2. \A r \in Readers : thread'[r] = thread[r] \/ thread'[r] = "read"
    BY <2>1 DEF Core, DevTypeOK
  <2> QED
    BY <2>1, <2>2
<1>9. ASSUME NEW r \in Readers, Close(r) PROVE FALSE
  <2>1. UNCHANGED <<pc, at>> /\ thread' = [thread EXCEPT ![r] = "put"]
    BY <1>9 DEF Close
  <2>2. \A q \in Readers : thread'[q] = thread[q] \/ thread'[q] = "put"
    BY <2>1 DEF Core, DevTypeOK
  <2> QED
    BY <2>1, <2>2
<1>10. ASSUME NEW r \in Readers, Callback(r) PROVE x = r /\ x \in Clients
  <2>1. UNCHANGED <<pc, at>> /\ thread' = [thread EXCEPT ![r] = "none"]
    BY <1>10 DEF Callback
  <2>2. \A q \in Readers : q # r => thread'[q] = thread[q]
    BY <2>1 DEF Core, DevTypeOK
  <2>3. thread'[r] = "none"
    BY <2>1 DEF Core, DevTypeOK
  <2> QED
    BY <2>1, <2>2, <2>3
<1> QED
  BY <1>1, <1>2, <1>3, <1>4, <1>5, <1>6, <1>7, <1>9, <1>10 DEF DevNext, Start

LEMMA RegisteredStep == Core /\ [DevNext]_devVars => Registered'
<1> SUFFICES ASSUME Core, [DevNext]_devVars PROVE Registered'
  OBVIOUS
<1> USE DEF Core, Registered, BeforeCan
<1>1. CASE AddUsartDevice
  <2>1. pc = "add" /\ Len(list) < Len(Wanted) /\ list' = Append(list, Wanted[Len(list) + 1])
    BY <1>1 DEF AddUsartDevice, RegisterUsartDeviceOpr
  <2>2. Wanted[Len(list) + 1] \in Ports
    BY <2>1, TheWanted
  <2>3. /\ list' \in Seq(Ports) /\ Len(list') = Len(list) + 1
        /\ \A k \in 1 .. Len(list) : list'[k] = list[k]
        /\ list'[Len(list) + 1] = Wanted[Len(list) + 1]
    BY <2>1, <2>2
  <2>4. \A k \in 1 .. Len(list') : list'[k] = Wanted[k]
    BY <2>1, <2>3, TheWanted
  <2>5. pc' \in {"add", "usart"} /\ (pc' = "usart" <=> Len(list') = Len(Wanted))
    BY <1>1, <2>3 DEF AddUsartDevice
  <2> QED
    BY <2>1, <2>3, <2>4, <2>5, TheWanted
<1>2. CASE CANDevInit
  BY <1>2, TheWanted DEF CANDevInit
<1>3. CASE UsartDevInit
  BY <1>3 DEF UsartDevInit
<1>4. CASE \/ GPIO_init \/ open_set_value_file \/ open_set_dir_file \/ set_dir \/ set_value
           \/ InitTcpServer
  BY <1>4 DEF GPIO_init, open_set_value_file, open_set_dir_file, set_dir, set_value,
              InitTcpServer
<1>5. CASE \/ Thread_listen \/ UNCHANGED devVars
           \/ \E c \in Clients : Accept(c)
           \/ \E r \in Readers : Close(r) \/ Callback(r)
  <2>1. UNCHANGED <<pc, list>>
    BY <1>5 DEF Thread_listen, devVars, Accept, Close, Callback
  <2> QED
    BY <2>1
<1> QED
  BY <1>1, <1>2, <1>3, <1>4, <1>5 DEF DevNext, Start

LEMMA FreshStep == Core /\ [DevNext]_devVars => Fresh'
<1> SUFFICES ASSUME Core, [DevNext]_devVars, NEW x \in Names, NotYet(x)' PROVE fd'[x] = -1
  BY DEF Fresh, Names
<1>1. CASE UNCHANGED devVars
  BY <1>1 DEF devVars, Core, Fresh, NotYet
<1>2. CASE DevNext /\ ~NotYet(x)
  <2>1. x \in Clients /\ Callback(x)
    BY <1>2, Forward
  <2> QED
    BY <2>1, TheNames DEF Callback, Core, DevTypeOK
<1>3. CASE DevNext /\ NotYet(x)
  <2>1. fd[x] = -1
    BY <1>3 DEF Core, Fresh
  <2>2. CASE \E y \in Names : Enters(y)
    <3>1. PICK y \in Names : Enters(y)
      BY <2>2
    <3>2. x # y /\ fd' = [fd EXCEPT ![y] = Lowest]
      BY <3>1 DEF Enters, Opens
    <3> QED
      BY <2>1, <3>2 DEF Core, DevTypeOK
  <2>3. CASE Quiet \/ Shuts
    BY <2>1, <2>3 DEF Quiet, Shuts
  <2>5. CASE \E r \in Readers : Close(r) \/ Callback(r)
    <3>1. fd' = fd \/ \E r \in Clients : fd' = [fd EXCEPT ![r] = -1]
      BY <2>5 DEF Close, Callback
    <3> QED
      BY <2>1, <3>1 DEF Core, DevTypeOK
  <2> QED
    BY <1>3, <2>2, <2>3, <2>5, DevSteps
<1> QED
  BY <1>1, <1>2, <1>3

LEMMA OpenedStep == Core /\ [DevNext]_devVars => Opened'
<1> SUFFICES ASSUME Core, [DevNext]_devVars,
                    NEW r \in Readers, thread'[r] \in {"read", "put"}
             PROVE  fd'[r] # -1
  BY DEF Opened
<1> USE TheNames
<1>1. CASE UNCHANGED devVars
  BY <1>1 DEF devVars, Core, Opened
<1>2. CASE \E y \in Names : Enters(y)
  <2>1. PICK y \in Names : Enters(y)
    BY <1>2
  <2>2. fd' = [fd EXCEPT ![y] = Lowest] /\ Lowest \in Fds
    BY <2>1 DEF Enters, Opens
  <2>3. CASE r = y
    BY <2>2, <2>3, DeviceAssumption DEF Core, DevTypeOK, Fds
  <2>4. CASE r # y
    BY <2>1, <2>2, <2>4 DEF Enters, Core, DevTypeOK, Opened
  <2> QED
    BY <2>3, <2>4
<1>3. CASE Quiet
  <2>1. thread'[r] = thread[r] /\ fd' = fd
    BY <1>3 DEF Quiet
  <2> QED
    BY <2>1 DEF Core, Opened
<1>4. CASE Shuts
  <2>1. thread' = thread /\ fd' = fd
    BY <1>4 DEF Shuts
  <2> QED
    BY <2>1 DEF Core, Opened
<1>5. ASSUME NEW q \in Readers, Close(q) PROVE fd'[r] # -1
  <2>1. fd' = fd
    BY <1>5 DEF Close
  <2>2. CASE thread[r] \in {"read", "put"}
    BY <2>1, <2>2 DEF Core, Opened
  <2>3. CASE thread[r] \notin {"read", "put"}
    <3>1. q # r /\ thread' = [thread EXCEPT ![q] = "put"]
      BY <1>5, <2>3 DEF Close
    <3> QED
      BY <2>3, <3>1 DEF Core, DevTypeOK
  <2> QED
    BY <2>2, <2>3
<1>6. ASSUME NEW q \in Readers, Callback(q) PROVE fd'[r] # -1
  <2>1. thread' = [thread EXCEPT ![q] = "none"] /\ (fd' = fd \/ fd' = [fd EXCEPT ![q] = -1])
    BY <1>6 DEF Callback
  <2>2. q # r /\ thread[r] = thread'[r]
    BY <2>1 DEF Core, DevTypeOK
  <2>3. fd'[r] = fd[r]
    BY <2>1, <2>2 DEF Core, DevTypeOK
  <2> QED
    BY <2>2, <2>3 DEF Core, Opened
<1> QED
  BY <1>1, <1>2, <1>3, <1>4, <1>5, <1>6, DevSteps

LEMMA ServedStep == Core /\ [DevNext]_devVars => Served'
<1> SUFFICES ASSUME Core, [DevNext]_devVars, thread'["server"] = "start" PROVE pc' = "run"
  BY DEF Served
<1> USE TheNames, Apart DEF Core, Served, DevTypeOK
<1>1. CASE InitTcpServer
  BY <1>1 DEF InitTcpServer
<1>2. CASE Thread_listen
  BY <1>2 DEF Thread_listen, ComRead
<1>3. CASE CANDevInit
  BY <1>3 DEF CANDevInit, ComRead
<1>4. CASE UsartDevInit
  <2>1. list[at] \in Ports /\ pc = "usart"
    BY <1>4, TheWanted DEF UsartDevInit, Registered
  <2>2. thread'["server"] = thread["server"]
    BY <1>4, <2>1 DEF UsartDevInit, ComRead
  <2> QED
    BY <2>1, <2>2
<1>5. CASE \/ GPIO_init \/ open_set_value_file \/ open_set_dir_file \/ set_dir \/ set_value
           \/ AddUsartDevice
  <2>1. thread' = thread /\ pc # "run"
    BY <1>5 DEF GPIO_init, open_set_value_file, open_set_dir_file, set_dir, set_value,
                AddUsartDevice
  <2> QED
    BY <2>1
<1>6. CASE \/ \E c \in Clients : Accept(c)
           \/ \E r \in Readers : Close(r) \/ Callback(r)
           \/ UNCHANGED devVars
  <2>1. /\ pc' = pc
        /\ \/ thread' = thread
           \/ \E r \in Readers, s \in {"read", "put", "none"} :
                thread' = [thread EXCEPT ![r] = s]
    BY <1>6 DEF Accept, ComRead, Close, Callback, devVars
  <2>2. thread["server"] = "start"
    BY <2>1
  <2> QED
    BY <2>1, <2>2
<1> QED
  BY <1>1, <1>2, <1>3, <1>4, <1>5, <1>6 DEF DevNext, Start

LEMMA OwnStep == Core /\ GivenBack /\ [DevNext]_devVars => Own'
<1> SUFFICES ASSUME Core, GivenBack, [DevNext]_devVars, NEW f \in Fds, holder'[f] # "nobody"
             PROVE  fd'[holder'[f]] = f
  BY DEF Own, Fds
<1>1. CASE \E y \in Names : Enters(y)
  <2>1. PICK y \in Names : Enters(y)
    BY <1>1
  <2>2. /\ fd' = [fd EXCEPT ![y] = Lowest] /\ holder' = [holder EXCEPT ![Lowest] = y]
        /\ fd[y] = -1 /\ Lowest \in Fds /\ holder[Lowest] = "nobody"
    BY <2>1 DEF Enters, Opens
  <2>3. CASE f = Lowest
    BY <2>2, <2>3 DEF Core, DevTypeOK
  <2>4. CASE f # Lowest
    <3>1. holder'[f] = holder[f] /\ holder[f] \in Names /\ fd[holder[f]] = f
      BY <2>2, <2>4 DEF Core, DevTypeOK, Own
    <3>2. holder[f] # y
      BY <2>2, <3>1, DeviceAssumption DEF Fds
    <3> QED
      BY <2>2, <3>1, <3>2 DEF Core, DevTypeOK
  <2> QED
    BY <2>3, <2>4
<1>2. CASE UNCHANGED devVars \/ Quiet
  <2>1. UNCHANGED <<fd, holder>>
    BY <1>2 DEF devVars, Quiet
  <2> QED
    BY <2>1 DEF Core, Own
<1>3. CASE Shuts \/ \E r \in Readers : Close(r)
  <2>1. fd' = fd /\ (holder' = holder \/ \E F : holder' = Closed(F))
    BY <1>3 DEF Shuts, Close
  <2>2. holder'[f] = holder[f]
    BY <2>1, ShutFds
  <2> QED
    BY <2>1, <2>2 DEF Core, Own
<1>4. ASSUME NEW r \in Readers, Callback(r) PROVE fd'[holder'[f]] = f
  <2>1. holder' = holder /\ (fd' = fd \/ fd' = [fd EXCEPT ![r] = -1])
    BY <1>4 DEF Callback
  <2>2. holder[f] # r
    BY <1>4, <2>1 DEF Callback, GivenBack
  <2> QED
    BY <2>1, <2>2 DEF Core, Own, DevTypeOK
<1> QED
  BY <1>1, <1>2, <1>3, <1>4, DevSteps

LEMMA GivenBackStep == Core /\ GivenBack /\ [DevNext]_devVars => GivenBack'
<1> SUFFICES ASSUME Core, GivenBack, [DevNext]_devVars,
                    NEW r \in Readers, thread'[r] = "put", NEW f \in Fds
             PROVE  holder'[f] # r
  BY DEF GivenBack, Fds
<1> USE TheNames DEF Core, DevTypeOK
<1>1. CASE \E y \in Names : Enters(y)
  <2>1. PICK y \in Names : Enters(y)
    BY <1>1
  <2>2. r # y => thread[r] = "put"
    BY <2>1 DEF Enters
  <2>3. CASE r = y
    <3>1. fd[r] = -1 /\ thread[r] = "put"
      BY <2>1, <2>3 DEF Enters
    <3> QED
      BY <3>1 DEF Opened
  <2>4. CASE r # y
    BY <2>1, <2>2, <2>4 DEF Enters, Opens, GivenBack
  <2> QED
    BY <2>3, <2>4
<1>2. CASE UNCHANGED devVars \/ Quiet
  <2>1. UNCHANGED holder /\ thread[r] = "put"
    BY <1>2 DEF devVars, Quiet
  <2> QED
    BY <2>1 DEF GivenBack
<1>3. CASE Shuts
  <2>1. thread[r] = "put" /\ holder'[f] \in {holder[f], "nobody"}
    BY <1>3, ShutFds DEF Shuts
  <2> QED
    BY <2>1 DEF GivenBack
<1>4. ASSUME NEW q \in Readers, Close(q) PROVE holder'[f] # r
  <2>1. holder' = Closed({fd[q]}) /\ thread' = [thread EXCEPT ![q] = "put"]
    BY <1>4 DEF Close
  <2>2. holder'[f] = IF f = fd[q] THEN "nobody" ELSE holder[f]
    BY <2>1, ShutFds
  <2>3. CASE q = r
    BY <2>2, <2>3 DEF Own
  <2>4. CASE q # r
    BY <2>1, <2>2, <2>4 DEF GivenBack
  <2> QED
    BY <2>3, <2>4
<1>5. ASSUME NEW q \in Readers, Callback(q) PROVE holder'[f] # r
  <2>1. holder' = holder /\ thread[r] = "put"
    BY <1>5 DEF Callback
  <2> QED
    BY <2>1 DEF GivenBack
<1> QED
  BY <1>1, <1>2, <1>3, <1>4, <1>5, DevSteps

LEMMA ListType ==
  ASSUME NEW s \in Seq(Ports), Len(s) <= Len(Wanted)
  PROVE  s \in BoundedSeq(Ports, Len(Wanted))
<1>1. Len(s) \in 0 .. Len(Wanted) /\ s \in [1 .. Len(s) -> Ports]
  BY TheWanted
<1> QED
  BY <1>1 DEF BoundedSeq, SeqOf

LEMMA DevTypeStep == Core /\ [DevNext]_devVars => DevTypeOK'
<1> SUFFICES ASSUME Core, [DevNext]_devVars PROVE DevTypeOK'
  OBVIOUS
<1> USE TheNames
<1>1. list' \in BoundedSeq(Ports, Len(Wanted))
  <2>1. list' \in Seq(Ports) /\ Len(list') <= Len(Wanted)
    BY RegisteredStep DEF Registered
  <2> QED
    BY <2>1, ListType
<1>2. pc' \in {"export", "value", "direction", "out", "low", "can", "add", "usart",
               "server", "run"}
  <2>1. pc \in {"export", "value", "direction", "out", "low", "can", "add", "usart",
               "server", "run"}
    BY DEF Core, DevTypeOK
  <2>2. CASE Start
    BY <2>1, <2>2
       DEF Start, GPIO_init, open_set_value_file, open_set_dir_file, set_dir, set_value,
           CANDevInit, AddUsartDevice, UsartDevInit, InitTcpServer
  <2>3. CASE ~Start
    <3>1. pc' = pc
      BY <2>3 DEF DevNext, devVars, Thread_listen, Accept, Close, Callback
    <3> QED
      BY <2>1, <3>1
  <2> QED
    BY <2>2, <2>3
<1>7. at' \in 1 .. Len(Wanted)
  <2>1. CASE UsartDevInit
    <3>1. at \in 1 .. Len(Wanted) /\ Len(list) = Len(Wanted)
      BY <2>1 DEF UsartDevInit, Core, DevTypeOK, Registered
    <3>2. \/ at < Len(list) /\ at' = at + 1
          \/ at' = 1
      BY <2>1 DEF UsartDevInit
    <3> QED
      BY <3>1, <3>2, TheWanted
  <2>2. CASE ~UsartDevInit
    <3>1. at' = at
      BY <2>2 DEF DevNext, Start, devVars, GPIO_init, open_set_value_file,
         open_set_dir_file, set_dir, set_value, CANDevInit, AddUsartDevice,
         InitTcpServer, Thread_listen, Accept, Close, Callback
    <3> QED
      BY <3>1 DEF Core, DevTypeOK
  <2> QED
    BY <2>1, <2>2
<1>3. fd' \in [Names -> Fds \cup {-1}] /\ holder' \in [Fds -> Names \cup {"nobody"}]
  <2>1. CASE \E y \in Names : Enters(y)
    <3>1. PICK y \in Names : Enters(y)
      BY <2>1
    <3>2. /\ fd' = [fd EXCEPT ![y] = Lowest] /\ holder' = [holder EXCEPT ![Lowest] = y]
          /\ Lowest \in Fds
      BY <3>1 DEF Enters, Opens
    <3> QED
      BY <3>2 DEF Core, DevTypeOK
  <2>2. CASE UNCHANGED devVars \/ Quiet
    BY <2>2 DEF Core, DevTypeOK, devVars, Quiet
  <2>3. CASE Shuts \/ \E r \in Readers : Close(r) \/ Callback(r)
    <3>1. /\ fd' = fd \/ \E r \in Readers : fd' = [fd EXCEPT ![r] = -1]
          /\ holder' = holder \/ \E F : holder' = Closed(F)
      BY <2>3 DEF Shuts, Close, Callback
    <3> QED
      BY <3>1 DEF Core, DevTypeOK, Closed
  <2> QED
    BY <2>1, <2>2, <2>3, DevSteps
<1>4. thread' \in [Readers -> {"none", "start", "read", "put"}]
  <2>1. \/ thread' = thread
        \/ \E r, s : /\ s \in {"none", "start", "read", "put"}
                     /\ thread' = [thread EXCEPT ![r] = s]
    BY DEF DevNext, Start, devVars, GPIO_init, open_set_value_file,
         open_set_dir_file, set_dir, set_value, CANDevInit, AddUsartDevice, UsartDevInit,
         InitTcpServer, Thread_listen, Accept, Close, Callback, ComRead, SnlListen
  <2> QED
    BY <2>1 DEF Core, DevTypeOK
<1>5. broken' \subseteq Entries
  <2>1. CASE UNCHANGED devVars \/ Quiet \/ Shuts \/ \E y \in Names : Enters(y)
    BY <2>1 DEF Core, DevTypeOK, devVars, Quiet, Shuts, Enters
  <2>2. CASE \E r \in Readers : Close(r) \/ Callback(r)
    BY <2>2 DEF Close, Callback, Core, DevTypeOK
  <2> QED
    BY <2>1, <2>2, DevSteps
<1> QED
  BY <1>1, <1>2, <1>3, <1>4, <1>5, <1>7 DEF DevTypeOK

LEMMA OwnLineStep == Core /\ OwnLine /\ [DevNext]_devVars => OwnLine'
<1> DEFINE Lines == Ports \cup {"can", "server"}
<1> SUFFICES ASSUME Core, OwnLine, [DevNext]_devVars
             PROVE  /\ \A x \in Lines : x \notin broken' /\ fd'[x] # -1 => holder'[fd'[x]] = x
                    /\ \A r \in Readers : thread'[r] = "read" => holder'[fd'[r]] = r
  BY DEF OwnLine
<1> USE TheNames, Apart DEF Core, DevTypeOK
<1>1. CASE \E y \in Names : Enters(y)
  <2>1. PICK y \in Names : Enters(y)
    BY <1>1
  <2>2. /\ fd' = [fd EXCEPT ![y] = Lowest] /\ holder' = [holder EXCEPT ![Lowest] = y]
        /\ fd[y] = -1 /\ Lowest \in Fds /\ holder[Lowest] = "nobody"
        /\ broken' = broken
    BY <2>1 DEF Enters, Opens
  <2>3. holder'[fd'[y]] = y
    BY <2>2
  <2>4. \A x \in Names : x # y /\ fd[x] # -1 /\ holder[fd[x]] = x => holder'[fd'[x]] = x
    BY <2>2
  <2>5. \A x \in Lines : x \notin broken' /\ fd'[x] # -1 => holder'[fd'[x]] = x
    BY <2>2, <2>3, <2>4 DEF OwnLine
  <2>6. \A r \in Readers : r # y /\ thread'[r] = "read" => fd[r] # -1 /\ holder[fd[r]] = r
    BY <2>1 DEF Enters, OwnLine, Opened
  <2> QED
    BY <2>3, <2>4, <2>5, <2>6
<1>2. CASE UNCHANGED devVars \/ Quiet
  <2>1. /\ UNCHANGED <<fd, holder, broken>>
        /\ \A r \in Readers : thread'[r] = "read" => thread[r] = "read"
    BY <1>2 DEF devVars, Quiet
  <2> QED
    BY <2>1 DEF OwnLine
<1>3. CASE Shuts
  <2>1. \A x \in Readers : fd[x] = -1
    BY <1>3 DEF Shuts, Fresh, NotYet, BeforeCan
  <2>2. UNCHANGED <<fd, thread>>
    BY <1>3 DEF Shuts
  <2> QED
    BY <2>1, <2>2 DEF Opened
<1>4. ASSUME NEW q \in Readers, Close(q)
      PROVE  /\ \A x \in Lines : x \notin broken' /\ fd'[x] # -1 => holder'[fd'[x]] = x
             /\ \A r \in Readers : thread'[r] = "read" => holder'[fd'[r]] = r
  <2>1. /\ thread[q] = "read" /\ thread' = [thread EXCEPT ![q] = "put"] /\ fd' = fd
        /\ holder' = Closed({fd[q]}) /\ broken' = broken \cup ({q} \cap Entries)
    BY <1>4 DEF Close
  <2>2. fd[q] \in Fds /\ holder[fd[q]] = q
    BY <2>1 DEF OwnLine, Opened
  <2>3. \A x \in Names : x # q /\ fd[x] # -1 /\ holder[fd[x]] = x => holder'[fd'[x]] = x
    BY <2>1, <2>2, ShutFds
  <2>4. q \in Lines => q \in broken'
    BY <2>1 DEF Entries
  <2>5. \A r \in Readers : thread'[r] = "read" => r # q /\ thread[r] = "read" /\ fd[r] # -1
    BY <2>1 DEF Opened
  <2>6. \A x \in Lines : x \notin broken' /\ fd'[x] # -1 => x # q /\ x \notin broken /\ fd[x] # -1
    BY <2>1, <2>4
  <2>7. \A x \in Lines : x \notin broken' /\ fd'[x] # -1 => holder[fd[x]] = x
    BY <2>6 DEF OwnLine
  <2>8. \A r \in Readers : thread'[r] = "read" => holder[fd[r]] = r
    BY <2>5 DEF OwnLine
  <2> QED
    BY <2>3, <2>5, <2>6, <2>7, <2>8
<1>6. ASSUME NEW q \in Readers, Callback(q)
      PROVE  /\ UNCHANGED <<holder, broken>>
             /\ \A x \in Lines : fd'[x] = fd[x]
             /\ \A r \in Readers : thread'[r] = "read" => thread[r] = "read" /\ fd'[r] = fd[r]
  <2>1. /\ thread' = [thread EXCEPT ![q] = "none"]
        /\ fd' = IF q \in Clients THEN [fd EXCEPT ![q] = -1] ELSE fd
        /\ UNCHANGED <<holder, broken>>
    BY <1>6 DEF Callback
  <2> QED
    BY <2>1
<1>7. CASE \E q \in Readers : Callback(q)
  BY <1>6, <1>7 DEF OwnLine
<1> QED
  BY <1>1, <1>2, <1>3, <1>4, <1>7, DevSteps

-----------------------------------------------------------------------------
(* Start-up and main loop.                                                 *)

DevInv == Core /\ GivenBack /\ OwnLine

LEMMA DevInit == DevStart => DevInv
<1> SUFFICES ASSUME DevStart PROVE DevInv
  OBVIOUS
<1> USE TheNames DEF DevStart
<1>1. DevTypeOK
  <2>1. list \in BoundedSeq(Ports, Len(Wanted))
    <3>1. list \in Seq(Ports) /\ Len(list) <= Len(Wanted)
      BY TheWanted
    <3> QED
      BY <3>1, ListType
  <2>2. at \in 1 .. Len(Wanted)
    BY TheWanted
  <2>3. fd = [x \in Names |-> -1]
    BY DEF Names
  <2> QED
    BY <2>1, <2>2, <2>3 DEF DevTypeOK
<1>2. Registered
  BY TheWanted DEF Registered
<1>3. Fresh /\ Opened /\ Served /\ Own /\ GivenBack
  BY DEF Fresh, Opened, Served, Own, GivenBack, Names
<1>4. OwnLine
  BY DEF OwnLine, Names, Entries
<1> QED
  BY <1>1, <1>2, <1>3, <1>4 DEF DevInv, Core

LEMMA DevInvStep == DevInv /\ [DevNext]_devVars => DevInv'
  BY DevTypeStep, RegisteredStep, FreshStep, OpenedStep, ServedStep, OwnStep, GivenBackStep,
     OwnLineStep
     DEF DevInv, Core

\* A crash puts the devices back where they began.
LEMMA ResetIsStart == DevReset => DevStart'
  BY DEF DevReset, DevStart

\* A step of main() is one of the parameters' or one of the devices', or
\* both are interrupted.
LEMMA StartupSteps ==
  [StartNext]_startVars => /\ [ParaNext]_paraVars
                           /\ [DevNext]_devVars \/ DevReset
  BY DEF StartNext, startVars, Parameters, DevicesRun, Crash, ParaNext

\* main() treats the parameter file as SysPara says, whatever its devices do
\* meanwhile.
THEOREM StartupIsPara == StartSpec => ParaSpec
  BY StartupSteps, PTL DEF StartSpec, StartInit, ParaSpec

\* Through start-up, main loop and crashes the descriptors, the list of ports
\* and the threads stay consistent.
THEOREM DevicesAreSound == StartSpec => []DevInv
<1>1. StartInit => DevInv
  BY DevInit DEF StartInit
<1>2. DevReset => DevInv'
  BY ResetIsStart, DevInit, PTL
<1>3. DevInv /\ [StartNext]_startVars => DevInv'
  BY <1>2, DevInvStep, StartupSteps
<1> QED
  BY <1>1, <1>3, PTL DEF StartSpec

\* Whatever failed before it and however many clients came and went, a line
\* whose own read never failed keeps its descriptor, and no thread reads
\* another's: no close in gpioctl.c, in usart.c (Thread_read) or in the threads of
\* the clients hits a number that was given to somebody else.
THEOREM LinesKeepTheirNumbers == StartSpec => []OwnLine
  BY DevicesAreSound, PTL DEF DevInv
=============================================================================
