------------------------------- MODULE FileCopy ------------------------------
(***************************************************************************)
(* What uart16550_recvfile and uart16550_sendfile promise: files are        *)
(* copied between the target's memory and the host's disk, whole, in the    *)
(* order of the calls.  A file being replaced is empty for a while.         *)
(***************************************************************************)
EXTENDS Naturals, Sequences

CONSTANTS Name, Data, NoFile, NoJob

VARIABLES disk,   \* the host's files
          mem,    \* what the last recvfile received
          job,    \* the call the target is in
          saves   \* files sent by the target, not yet stored by the host

copyVars == <<disk, mem, job, saves>>

Job == [op : {"load"}, name : Name] \cup [op : {"save"}, name : Name, data : Data]

\* The name will be there when its turn comes.
Known(n) == disk[n] # NoFile \/ \E i \in 1 .. Len(saves) : saves[i].name = n

CopyInit == /\ disk \in [Name -> Data \cup {NoFile}]
            /\ mem = <<>> /\ job = NoJob /\ saves = <<>>

Call(j) == /\ job = NoJob
           /\ j.op = "load" => Known(j.name)
           /\ job' = j
           /\ saves' = IF j.op = "save" THEN Append(saves, j) ELSE saves
           /\ UNCHANGED <<disk, mem>>

Truncate == /\ saves # <<>>
            /\ disk' = [disk EXCEPT ![Head(saves).name] = <<>>]
            /\ UNCHANGED <<mem, job, saves>>

Store == /\ saves # <<>>
         /\ disk' = [disk EXCEPT ![Head(saves).name] = Head(saves).data]
         /\ saves' = Tail(saves)
         /\ UNCHANGED <<mem, job>>

\* recvfile returns what the host has once every file sent before is stored.
Return == /\ job # NoJob
          /\ job' = NoJob
          /\ IF job.op = "load" THEN saves = <<>> /\ mem' = disk[job.name] ELSE UNCHANGED mem
          /\ UNCHANGED <<disk, saves>>

CopyNext == (\E j \in Job : Call(j)) \/ Truncate \/ Store \/ Return

CopySpec == CopyInit /\ [][CopyNext]_copyVars
=============================================================================
