------------------------------ MODULE Devices ------------------------------
(***************************************************************************)
(* The second half of main()'s start and what it leaves for the main loop: *)
(* the files of the GPIO pin (gpio/gpioctl.c), the CAN socket, the serial  *)
(* ports and the TCP server are opened one after the other, each may fail, *)
(* and no failure stops the start.  From then on every line is known by    *)
(* the number of its descriptor alone: the read threads hold it, and the   *)
(* device entries hold it (GetUsartOpr(name)->fd).                         *)
(*                                                                         *)
(* The read thread of a serial port or a client that fails closes its      *)
(* descriptor and only then runs its callback; nobody tells the device     *)
(* entry, and the kernel hands the number to the next client.  The CAN     *)
(* socket's thread does not notice a failed read and never closes.  The    *)
(* serial ports, the CAN socket and the pin share the numbers with the     *)
(* clients; the buffers the threads take from the pool are in ConnPool.    *)
(* Descriptors the process holds from the beginning to the end (standard   *)
(* streams, the debug socket, the one getlocalhostip leaks) are not        *)
(* counted.                                                                *)
(***************************************************************************)
EXTENDS Integers, Sequences, FiniteSets, SequencesExt

CONSTANTS
  Wanted,    \* the serial ports in the order main() adds them
  Clients,   \* read threads of clients that may exist at the same time
  NFds       \* descriptors, enough for all

Ports == ToSet(Wanted)
Pins == {"export", "value", "direction"}
Entries == Pins \cup Ports \cup {"can", "server"}
Readers == Ports \cup Clients \cup {"can", "server"}
Fds == 1 .. NFds

ASSUME DeviceAssumption ==
  /\ Wanted \in Seq(Ports) /\ Len(Wanted) >= 1
  /\ \A i, j \in DOMAIN Wanted : Wanted[i] = Wanted[j] => i = j
  /\ (Pins \cup {"can", "server"}) \cap Ports = {}
  /\ Clients \cap Entries = {} /\ IsFiniteSet(Clients)
  /\ "nobody" \notin Entries \cup Clients
  /\ NFds \in Nat /\ NFds >= Cardinality(Entries \cup Clients)

VARIABLES
  pc,        \* of main()
  list,      \* g_ptUsartDeviceOprHead: the names, in the order registered
  at,        \* UsartDevInit: the place of ptDevTmp in the list
  fd,        \* the descriptor of each device entry and client; -1: open failed
  holder,    \* the kernel's table: for whom a descriptor is open
  thread,    \* each thread that reads or listens: "none", "start", "read" or
             \* "put" (its descriptor is closed, its callback still due)
  broken     \* history: entries whose read thread has failed

devVars == <<pc, list, at, fd, holder, thread, broken>>

DevStart ==
  /\ pc = "export"
  /\ list = <<>>
  /\ at = 1
  /\ fd = [x \in Entries \cup Clients |-> -1]
  /\ holder = [f \in Fds |-> "nobody"]
  /\ thread = [r \in Readers |-> "none"]
  /\ broken = {}

\* The process is gone and starts again.
DevReset ==
  /\ pc' = "export"
  /\ list' = <<>>
  /\ at' = 1
  /\ fd' = [x \in Entries \cup Clients |-> -1]
  /\ holder' = [f \in Fds |-> "nobody"]
  /\ thread' = [r \in Readers |-> "none"]
  /\ broken' = {}

\* open(), socket(), accept(): the lowest free descriptor.
Lowest ==
  CHOOSE g \in Fds : /\ holder[g] = "nobody"
                     /\ \A h \in Fds : holder[h] = "nobody" => g <= h

Opens(x) ==
  /\ fd' = [fd EXCEPT ![x] = Lowest]
  /\ holder' = [holder EXCEPT ![Lowest] = x]

Fails(x) == fd' = [fd EXCEPT ![x] = -1] /\ UNCHANGED holder

\* close() of every number in F, whoever it belongs to by now.
Closed(F) == [f \in Fds |-> IF f \in F THEN "nobody" ELSE holder[f]]

-----------------------------------------------------------------------------
(* IODevicesInit: GPIO_init.                                               *)

\* open(EXPORT_PATH); without it GPIO_init is over.
GPIO_init ==
  /\ pc = "export"
  /\ \/ Opens("export") /\ pc' = "value"
     \/ Fails("export") /\ pc' = "can"
  /\ UNCHANGED <<list, at, thread, broken>>

open_set_value_file ==
  /\ pc = "value"
  /\ Opens("value") \/ Fails("value")
  /\ pc' = "direction"
  /\ UNCHANGED <<list, at, thread, broken>>

open_set_dir_file ==
  /\ pc = "direction"
  /\ Opens("direction") \/ Fails("direction")
  /\ pc' = "out"
  /\ UNCHANGED <<list, at, thread, broken>>

\* A write to the file of pin x: a write that fails closes both files and
\* leaves their numbers in fd_dir and fd_dev, so that the next one fails, and
\* closes them, again.
Pin(x) ==
  \/ fd[x] # -1 /\ holder[fd[x]] # "nobody" /\ UNCHANGED holder
  \/ holder' = Closed({fd["value"], fd["direction"]})

set_dir ==
  /\ pc = "out"
  /\ Pin("direction")
  /\ pc' = "low"
  /\ UNCHANGED <<list, at, fd, thread, broken>>

set_value ==
  /\ pc = "low"
  /\ Pin("value")
  /\ pc' = "can"
  /\ UNCHANGED <<list, at, fd, thread, broken>>

-----------------------------------------------------------------------------
(* CANDevInit, UsartDevInit, InitTcpServer.                                *)

ComRead(r) == thread' = [thread EXCEPT ![r] = "read"]

\* CAN_init has no socket, or one it cannot bind and does not close.
CAN_init(ok) == IF ok THEN Opens("can") ELSE Fails("can") \/ Opens("can")

\* Only when all went well a thread reads the socket.
CANDevInit ==
  /\ pc = "can"
  /\ \/ CAN_init(FALSE) /\ UNCHANGED thread
     \/ CAN_init(TRUE) /\ ComRead("can")
  /\ pc' = "add"
  /\ UNCHANGED <<list, at, broken>>

\* RegisterUsartDeviceOpr: a new entry goes to the end of the list.
RegisterUsartDeviceOpr(name) == list' = Append(list, name)

AddUsartDevice ==
  /\ pc = "add"
  /\ RegisterUsartDeviceOpr(Wanted[Len(list) + 1])
  /\ pc' = IF Len(list) + 1 = Len(Wanted) THEN "usart" ELSE "add"
  /\ UNCHANGED <<at, fd, holder, thread, broken>>

USARTOpen(p, ok) == IF ok THEN Opens(p) ELSE Fails(p)

\* Mutant of NotSet: the port is closed again, the entry keeps its number.
ClosedAgain(p) == fd' = [fd EXCEPT ![p] = Lowest] /\ UNCHANGED holder

\* USARTSet cannot read or write the line's settings, or does not know them:
\* the port stays open.
NotSet(p) == USARTOpen(p, TRUE)

\* One round of UsartDevInit: open fails; the port cannot be set up, or has no
\* thread; all is well.
UsartDevInit ==
  /\ pc = "usart"
  /\ LET p == list[at] IN
       \/ USARTOpen(p, FALSE) /\ UNCHANGED thread
       \/ NotSet(p) /\ UNCHANGED thread
       \/ USARTOpen(p, TRUE) /\ ComRead(p)
  /\ IF at < Len(list) THEN at' = at + 1 /\ UNCHANGED pc
                        ELSE at' = 1 /\ pc' = "server"
  /\ UNCHANGED <<list, broken>>

SnlListen == thread' = [thread EXCEPT !["server"] = "start"]

\* InitTcpServer starts the thread that listens and goes on.
InitTcpServer ==
  /\ pc = "server"
  /\ SnlListen
  /\ pc' = "run"
  /\ UNCHANGED <<list, at, fd, holder, broken>>

-----------------------------------------------------------------------------
(* The threads.                                                            *)

\* Thread_listen: no socket; one it cannot bind, left open; it listens.
Thread_listen ==
  /\ thread["server"] = "start"
  /\ \/ Fails("server") /\ thread' = [thread EXCEPT !["server"] = "none"]
     \/ Opens("server") /\ thread' = [thread EXCEPT !["server"] = "none"]
     \/ Opens("server") /\ ComRead("server")
  /\ UNCHANGED <<pc, list, at, broken>>

Accept(c) ==
  /\ thread["server"] = "read" /\ thread[c] = "none"
  /\ Opens(c)
  /\ ComRead(c)
  /\ UNCHANGED <<pc, list, at, broken>>

\* read() failed, or ended, and the thread noticed.
Close(r) ==
  /\ r \notin {"server", "can"} /\ thread[r] = "read"
  /\ holder' = Closed({fd[r]})
  /\ thread' = [thread EXCEPT ![r] = "put"]
  /\ broken' = broken \cup ({r} \cap Entries)
  /\ UNCHANGED <<pc, list, at, fd>>

\* The callback, and the end of the thread.  A client is forgotten, a device
\* entry keeps its number.
Callback(r) ==
  /\ thread[r] = "put"
  /\ thread' = [thread EXCEPT ![r] = "none"]
  /\ fd' = IF r \in Clients THEN [fd EXCEPT ![r] = -1] ELSE fd
  /\ UNCHANGED <<pc, list, at, holder, broken>>

-----------------------------------------------------------------------------
Start ==
  \/ GPIO_init \/ open_set_value_file \/ open_set_dir_file
  \/ set_dir \/ set_value
  \/ CANDevInit \/ AddUsartDevice \/ UsartDevInit \/ InitTcpServer

DevNext ==
  \/ Start
  \/ Thread_listen
  \/ \E c \in Clients : Accept(c)
  \/ \E r \in Readers : Close(r) \/ Callback(r)

DevSpec == DevStart /\ [][DevNext]_devVars

-----------------------------------------------------------------------------
(* Properties.                                                             *)

Names == Entries \cup Clients

\* Type invariant.
DevTypeOK ==
  /\ pc \in {"export", "value", "direction", "out", "low", "can", "add", "usart",
             "server", "run"}
  /\ list \in BoundedSeq(Ports, Len(Wanted))
  /\ at \in 1 .. Len(Wanted)
  /\ fd \in [Names -> Fds \cup {-1}]
  /\ holder \in [Fds -> Names \cup {"nobody"}]
  /\ thread \in [Readers -> {"none", "start", "read", "put"}]
  /\ broken \subseteq Entries

\* Whatever failed before it - the pin, whose files are closed twice, the CAN
\* socket, another port - and however many clients come and go: a line whose
\* own read never failed keeps its descriptor, so that what is written to it
\* goes where it should; and no thread reads anybody else's.
OwnLine ==
  /\ \A x \in Ports \cup {"can", "server"} :
       x \notin broken /\ fd[x] # -1 => holder[fd[x]] = x
  /\ \A r \in Readers : thread[r] = "read" => holder[fd[r]] = r
=============================================================================
