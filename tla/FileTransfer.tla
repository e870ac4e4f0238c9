----------------------------- MODULE FileTransfer ----------------------------
(***************************************************************************)
(* The bare-metal driver's characters and file transfers (iob_uart16550.c)  *)
(* with the host console at the other end of the line (console.py).  Each   *)
(* step is one character written, carried or read by one side.              *)
(*                                                                          *)
(* Characters are numbers below Radix, which stands for 256; the control    *)
(* characters have the values of iob_uart16550.h.  The line loses nothing:  *)
(* TFifo to RxStatus say what a UART does, and each side is assumed to read *)
(* before its buffer is full, for the line has no flow control.             *)
(***************************************************************************)
EXTENDS Integers, Sequences

CONSTANTS Name, Data,  \* sequences of characters
          Radix,       \* values of a character
          Depth,       \* of the receiver FIFO
          MaxUnread,   \* bound of the characters the console has still to read
          MaxJobs,     \* bound of the transfers
          MaxEnquiries,\* bound of the ENQs sent while waiting for ACK
          NoFile, NoJob, NoChar

NUL == 0
EOT == 4
ENQ == 5
ACK == 6
FTX == 7
FRX == 8
LF  == 10
Char == 0 .. Radix - 1

\* An int has four bytes, one bit of them for the sign: the size of a file is
\* an int in iob_uart16550.c.
IntRange == Radix * (Radix * (Radix * Radix))

ASSUME FileTransferAssumption ==
  /\ Radix \in Nat /\ Radix > LF
  /\ Depth \in Nat \ {0} /\ MaxUnread \in Nat \ {0}
  /\ MaxJobs \in Nat /\ MaxEnquiries \in Nat
  /\ \A d \in Data : d \in Seq(Char) /\ 2 * Len(d) < IntRange
  /\ \A n \in Name : n \in Seq(Char \ {NUL})

VARIABLES
  tpc,     \* where the target is
  out,     \* characters its current putc loop still has to send
  got,     \* characters its current getc loop has received
  size,    \* file_size of recvfile
  wire,    \* character in the transmitter
  rx,      \* receiver FIFO of the target
  hpc,     \* where the console is
  hin,     \* characters the host has received and not read
  hout,    \* characters the host has written and not sent
  hname,   \* name the console has read
  hsize,   \* file_size of cnsl_recvfile
  hbuf,    \* size bytes, then data, it has read
  gotENQ,  \* variable of main
  disk, mem, job, saves,
  jobs, enquiries  \* counters for the bounds

target  == <<tpc, out, got, size, mem, job, jobs, enquiries>>
console == <<hpc, hname, hsize, hbuf, gotENQ, disk, saves>>
vars    == <<target, wire, rx, hin, hout, console>>

Copy == INSTANCE FileCopy

ASSUME NothingAssumption ==
  NoChar \notin Char /\ NoFile \notin Seq(Char) /\ NoJob \notin Copy!Job

\* A shift to the right by the bits of one byte.
Shift(n) == n \div Radix

SizeBytesUnmasked(n) == <<n, Shift(n), Shift(Shift(n)), Shift(Shift(Shift(n)))>>

\* Four size bytes, least significant first, each masked and shifted down.
SizeBytes(n) == <<n % Radix, Shift(n) % Radix, Shift(Shift(n)) % Radix,
                  Shift(Shift(Shift(n))) % Radix>>

\* int.from_bytes, little-endian.
FromBytes(b) == b[1] + Radix * (b[2] + Radix * (b[3] + Radix * b[4]))

SizeOfSigned(b) == IF \E i \in 1 .. 4 : b[i] >= Radix \div 2 THEN -1 ELSE FromBytes(b)

\* The int recvfile assembles from its four bytes, where char is unsigned.
SizeOf(b) == IF 2 * FromBytes(b) < IntRange THEN FromBytes(b) ELSE FromBytes(b) - IntRange

Init ==
  /\ tpc = "enquire" /\ out = <<>> /\ got = <<>> /\ size = 0
  /\ wire = NoChar /\ rx = <<>>
  /\ hpc = "main" /\ hin = <<>> /\ hout = <<>>
  /\ hname = <<>> /\ hsize = 0 /\ hbuf = <<>> /\ gotENQ = FALSE
  /\ disk \in [Name -> Data \cup {NoFile}]
  /\ mem = <<>> /\ job = NoJob /\ saves = <<>>
  /\ jobs = 0 /\ enquiries = 0

-----------------------------------------------------------------------------
(***************************************************************************)
(* The line                                                                 *)
(***************************************************************************)
\* txready: the transmitter is empty.
TxReady == wire = NoChar
RxReady == rx # <<>>

\* The transmitter has sent its character.
ToHost == /\ wire # NoChar /\ Len(hin) < MaxUnread
          /\ hin' = Append(hin, wire) /\ wire' = NoChar
          /\ UNCHANGED <<target, rx, hout, console>>

ToTarget == /\ hout # <<>> /\ Len(rx) < Depth
            /\ rx' = Append(rx, Head(hout)) /\ hout' = Tail(hout)
            /\ UNCHANGED <<target, wire, hin, console>>

-----------------------------------------------------------------------------
(***************************************************************************)
(* The target                                                               *)
(***************************************************************************)
\* What a program does before: ENQ until the console answers ACK.
Enquire ==
  /\ tpc = "enquire"
  /\ \/ /\ TxReady /\ ~RxReady /\ enquiries < MaxEnquiries
        /\ wire' = ENQ /\ enquiries' = enquiries + 1
        /\ UNCHANGED <<tpc, rx>>
     \/ /\ RxReady /\ rx' = Tail(rx)
        /\ tpc' = IF Head(rx) = ACK THEN "idle" ELSE tpc
        /\ UNCHANGED <<wire, enquiries>>
  /\ UNCHANGED <<out, got, size, mem, job, jobs, hin, hout, console>>

\* A message on the console, before and after the transfer.
Text == <<LF>>

RecvFile(n) ==
  /\ tpc = "idle" /\ jobs < MaxJobs
  /\ Copy!Known(n)
  /\ job' = [op |-> "load", name |-> n] /\ jobs' = jobs + 1
  /\ out' = Text \o <<FRX>>
  /\ tpc' = "request"
  /\ UNCHANGED <<got, size, mem, enquiries, wire, rx, hin, hout, console>>

\* The whole of sendfile is a sequence of putc.
SendFile(n, d) ==
  /\ tpc = "idle" /\ jobs < MaxJobs
  /\ job' = [op |-> "save", name |-> n, data |-> d] /\ jobs' = jobs + 1
  /\ saves' = Append(saves, job')
  /\ out' = Text \o <<FTX>> \o n \o <<NUL>> \o SizeBytes(Len(d)) \o d \o Text
  /\ tpc' = "closing"
  /\ UNCHANGED <<got, size, mem, enquiries, wire, rx, hin, hout,
                 hpc, hname, hsize, hbuf, gotENQ, disk>>

\* uart16550_finish.
Finish ==
  /\ tpc = "idle" /\ jobs = MaxJobs
  /\ out' = <<EOT>> /\ tpc' = "finishing"
  /\ UNCHANGED <<got, size, mem, job, jobs, enquiries, wire, rx, hin, hout, console>>

\* putc: wait for txready, write.
PutC ==
  /\ out # <<>> /\ TxReady
  /\ wire' = Head(out) /\ out' = Tail(out)
  /\ UNCHANGED <<tpc, got, size, mem, job, jobs, enquiries, rx, hin, hout, console>>

NextStageDrainsLast(stage) ==
  CASE stage = "request"   -> "name"  [] stage = "name"    -> "drain"
    [] stage = "drain"     -> "size"  [] stage = "size"    -> "ack"
    [] stage = "ack"       -> "data"  [] stage = "data"    -> "closing"
    [] stage = "finishing" -> "finished" [] OTHER          -> "idle"

\* The order of a transfer.
NextStage(stage) ==
  CASE stage = "request"   -> "drain" [] stage = "drain"   -> "name"
    [] stage = "name"      -> "size"  [] stage = "size"    -> "ack"
    [] stage = "ack"       -> "data"  [] stage = "data"    -> "closing"
    [] stage = "finishing" -> "finished" [] OTHER          -> "idle"

\* What a stage sends.
Sends(stage) == CASE stage = "name"    -> job.name \o <<NUL>>
                  [] stage = "ack"     -> <<ACK>>
                  [] stage = "closing" -> Text
                  [] OTHER             -> <<>>

Proceed == tpc' = NextStage(tpc) /\ out' = Sends(NextStage(tpc))

EndOfPut ==
  /\ tpc \in {"request", "name", "ack"} /\ out = <<>>
  /\ Proceed
  /\ UNCHANGED <<got, size, mem, job, jobs, enquiries, wire, rx, hin, hout, console>>

EndOfCall ==
  /\ tpc = "closing" /\ out = <<>>
  /\ Proceed
  /\ job' = NoJob /\ got' = <<>>
  /\ mem' = IF job.op = "load" THEN got ELSE mem
  /\ UNCHANGED <<size, jobs, enquiries, wire, rx, hin, hout, console>>

\* finish waits for the transmitter once more.
Finished ==
  /\ tpc = "finishing" /\ out = <<>> /\ TxReady
  /\ Proceed
  /\ UNCHANGED <<got, size, mem, job, jobs, enquiries, wire, rx, hin, hout, console>>

\* "clear input buffer", between the request and the name.
Drain ==
  /\ tpc = "drain"
  /\ IF RxReady THEN rx' = Tail(rx) /\ UNCHANGED <<tpc, out>>
                ELSE Proceed /\ UNCHANGED rx
  /\ UNCHANGED <<got, size, mem, job, jobs, enquiries, wire, hin, hout, console>>

\* getc, four times for the size and once for each character of the file.
GetC ==
  /\ tpc \in {"size", "data"} /\ RxReady
  /\ tpc = "size" => Len(got) < 4
  /\ tpc = "data" => Len(got) < size
  /\ got' = Append(got, Head(rx)) /\ rx' = Tail(rx)
  /\ UNCHANGED <<tpc, out, size, mem, job, jobs, enquiries, wire, hin, hout, console>>

SizeReceived ==
  /\ tpc = "size" /\ Len(got) = 4
  /\ size' = SizeOf(got) /\ got' = <<>>
  /\ Proceed
  /\ UNCHANGED <<mem, job, jobs, enquiries, wire, rx, hin, hout, console>>

FileReceived ==
  /\ tpc = "data" /\ Len(got) >= size
  /\ Proceed
  /\ UNCHANGED <<got, size, mem, job, jobs, enquiries, wire, rx, hin, hout, console>>

-----------------------------------------------------------------------------
(***************************************************************************)
(* The console                                                              *)
(***************************************************************************)
\* ser.read() waits for a character.
Read == hin # <<>> /\ hin' = Tail(hin)

\* ACK once for a run of ENQs.
Answers(ch) == ch = ENQ /\ ~gotENQ

\* One turn of the loop of main.
Main ==
  /\ hpc = "main" /\ Read
  /\ hout' = IF Answers(Head(hin)) THEN Append(hout, ACK) ELSE hout
  /\ gotENQ' = (Head(hin) = ENQ)
  /\ hpc' = CASE Head(hin) = EOT -> "exited"
              [] Head(hin) = FTX -> "save_name"
              [] Head(hin) = FRX -> "load_name"
              [] OTHER           -> "main"
  /\ hname' = <<>>
  /\ UNCHANGED <<target, wire, rx, hsize, hbuf, disk, saves>>

\* cnsl_recvstr; at its end the file is opened.  Opening to write empties it;
\* opening one that is not there ends the console.
RecvStr ==
  /\ hpc \in {"save_name", "load_name"} /\ Read
  /\ IF Head(hin) # NUL
     THEN hname' = Append(hname, Head(hin)) /\ UNCHANGED <<hpc, disk, hout>>
     ELSE /\ UNCHANGED hname
          /\ IF hpc = "save_name"
             THEN /\ disk' = [disk EXCEPT ![hname] = <<>>]
                  /\ hpc' = "save_size" /\ UNCHANGED hout
             ELSE /\ hpc' = IF disk[hname] = NoFile THEN "exited" ELSE "wait_ack"
                  /\ hout' = IF disk[hname] = NoFile THEN hout
                             ELSE hout \o SizeBytes(Len(disk[hname]))
                  /\ UNCHANGED disk
  /\ UNCHANGED <<target, wire, rx, hsize, hbuf, gotENQ, saves>>

\* cnsl_sendfile: anything before the ACK is thrown away.
WaitAck ==
  /\ hpc = "wait_ack" /\ Read
  /\ IF Head(hin) = ACK
     THEN hpc' = "main" /\ hout' = hout \o disk[hname]
     ELSE UNCHANGED <<hpc, hout>>
  /\ UNCHANGED <<target, wire, rx, hname, hsize, hbuf, gotENQ, disk, saves>>

\* cnsl_recvfile: the size, then the data.
ReadSize ==
  /\ hpc = "save_size" /\ Len(hbuf) < 4 /\ Read
  /\ hbuf' = Append(hbuf, Head(hin))
  /\ UNCHANGED <<target, wire, rx, hout, hpc, hname, hsize, gotENQ, disk, saves>>

SizeKnown ==
  /\ hpc = "save_size" /\ Len(hbuf) = 4
  /\ hsize' = FromBytes(hbuf) /\ hbuf' = <<>> /\ hpc' = "save_data"
  /\ UNCHANGED <<target, wire, rx, hin, hout, hname, gotENQ, disk, saves>>

ReadData ==
  /\ hpc = "save_data" /\ Len(hbuf) < hsize /\ Read
  /\ hbuf' = Append(hbuf, Head(hin))
  /\ UNCHANGED <<target, wire, rx, hout, hpc, hname, hsize, gotENQ, disk, saves>>

SaveFile ==
  /\ hpc = "save_data" /\ Len(hbuf) = hsize
  /\ disk' = [disk EXCEPT ![hname] = hbuf] /\ saves' = Tail(saves)
  /\ hbuf' = <<>> /\ hpc' = "main"
  /\ UNCHANGED <<target, wire, rx, hin, hout, hname, hsize, gotENQ>>

-----------------------------------------------------------------------------
Program == Enquire \/ (\E n \in Name : RecvFile(n)) \/ Finish
           \/ \E n \in Name, d \in Data : SendFile(n, d)
Driver  == PutC \/ EndOfPut \/ EndOfCall \/ Finished \/ Drain
           \/ GetC \/ SizeReceived \/ FileReceived
Console == Main \/ RecvStr \/ WaitAck \/ ReadSize \/ SizeKnown \/ ReadData \/ SaveFile
Next == Program \/ Driver \/ Console \/ ToHost \/ ToTarget

\* The driver polls, the console reads, the line carries.
Fairness == WF_vars(Driver) /\ WF_vars(Console) /\ WF_vars(ToHost) /\ WF_vars(ToTarget)

Spec == Init /\ [][Next]_vars /\ Fairness

\* Every side only ever handles characters, and the FIFO holds at most Depth.
TypeOK ==
  /\ tpc \in {"enquire", "idle", "request", "drain", "name", "size", "ack", "data",
             "closing", "finishing", "finished"}
  /\ out \in Seq(Char) /\ got \in Seq(Char) /\ size \in Int
  /\ wire \in Char \cup {NoChar} /\ rx \in Seq(Char) /\ Len(rx) <= Depth
  /\ hpc \in {"main", "exited", "save_name", "load_name", "wait_ack", "save_size", "save_data"}
  /\ hin \in Seq(Char) /\ hout \in Seq(Char)
  /\ hname \in Seq(Char) /\ hsize \in Nat /\ hbuf \in Seq(Char) /\ gotENQ \in BOOLEAN
  /\ jobs \in 0 .. MaxJobs /\ enquiries \in 0 .. MaxEnquiries

\* Whatever the bytes of names, sizes and data are, also those that are control
\* characters, and however many enquiries the console has still to read when a
\* transfer starts, recvfile leaves the file of the host in memory and sendfile
\* leaves the memory in the file, in the order of the calls.
ImplementsFileCopy == Copy!CopySpec

\* A transfer comes to its end on both sides: nobody waits for a character the
\* other side has thrown away or is not going to send.
TransferEnds == (job # NoJob \/ saves # <<>>) ~> (job = NoJob /\ saves = <<>>)
=============================================================================
