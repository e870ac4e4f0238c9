----------------------------- MODULE LinuxDriver -----------------------------
(***************************************************************************)
(* The Linux driver (iob_uart16550_main.c, iob_uart16550_sysfs.h) and the   *)
(* processes that use it through the three libraries of linux/user: read,   *)
(* write and llseek on the device file, ioctl, and sysfs attributes.        *)
(*                                                                          *)
(* A step is a call the kernel makes into the driver or one stage of it.    *)
(* Two kernel services come with it: removing an attribute refuses new      *)
(* calls of it and waits for those in progress, and the module is not       *)
(* unloaded while one of its files is open (fops.owner).  Probes and        *)
(* removals run one at a time.                                              *)
(* Register values are left out: a register remembers who wrote it last.    *)
(***************************************************************************)
EXTENDS Integers, Sequences

CONSTANTS
  Process,   \* user processes
  Device,    \* platform devices that match of_iob_uart16550_match
  Failing,   \* stages of probe whose call into the kernel may fail
  RegSize,   \* size of the I/O region
  Offset,    \* offsets given to lseek
  Watched,   \* writable registers whose last writer is recorded
  None       \* no process, no device

(***************************************************************************)
(* The register map (iob_uart16550_csrs_conf.h) and what read, write, ioctl *)
(* and the attributes accept: any other register ends in an error.          *)
(***************************************************************************)
Width        == [a \in 0 .. 6 \cup {8} |-> IF a = 8 THEN 32 ELSE 8]
ReadableRegs == {0, 1, 2, 3, 5, 6, 8}   \* case labels of read and of RD_*
WritableRegs == {0, 1, 2, 3, 4}         \* case labels of write and of WR_*
Stored       == {0, 1, 2, 3, 4}         \* attributes with a store of their own

\* What probe does, in order; the first takes nothing, it only looks up.
Stages   == <<"resource", "regbase", "devnum", "cdev", "class", "device", "attributes">>
Stage    == {Stages[i] : i \in 1 .. 7}
Resource == Stage \ {"resource"}

\* The calls after the labels r_dev_file, r_device, r_class and r_cdev_add,
\* in the order of the code; remove makes the same calls.
Labels == <<"attributes", "device", "class", "cdev", "devnum">>

ASSUME LinuxDriverAssumption ==
  /\ None \notin Process /\ None \notin Device
  /\ Failing \subseteq Stage
  /\ RegSize \in Nat
  /\ Offset \subseteq Int
  /\ Watched \subseteq WritableRegs

VARIABLES
  module,    \* "out", "in" or "leaving" (module_exit has begun)
  phase,     \* what the driver core is doing with the driver
  pdev,      \* the device being probed, bound or removed
  stage,     \* the stage probe is at, an index of Stages
  label,     \* the next call to undo, an index of Labels
  taken,     \* resources taken and not given back
  device,    \* iob_uart16550_data.device # NULL
  outcome,   \* of the last probe of each device
  mutex,     \* the process that locked iob_uart16550_mutex
  opened,    \* the processes that have the device file open
  fd,        \* the library's descriptor: 0, -1 ("bad") or open
  pos,       \* f_pos of the process's open file
  attr,      \* the attribute call each process is in
  writer,    \* who wrote each watched register last
  wrote,     \* the registers each process wrote since it opened the device
  fault,     \* an unmapped register was accessed, or something freed twice
  ripped     \* the driver was unbound by hand while its file was open

kernel     == <<module, phase, pdev, stage, label, taken, device, outcome>>
files      == <<mutex, opened, fd, pos, attr>>
past       == <<writer, wrote, fault, ripped>>
driverVars == <<kernel, files, past>>

Phases   == {"idle", "probing", "undoing", "bound", "removing", "oops"}
Outcomes == {"unprobed", "bound", "refused", "failed"}

DriverInit ==
  /\ module = "out" /\ phase = "idle" /\ pdev = None
  /\ stage = 1 /\ label = 1
  /\ taken = {} /\ device = FALSE
  /\ outcome = [d \in Device |-> "unprobed"]
  /\ mutex = None /\ opened = {}
  /\ fd = [p \in Process |-> "zero"]
  /\ pos = [p \in Process |-> 0]
  /\ attr = [p \in Process |-> "none"]
  /\ writer = [r \in Watched |-> None]
  /\ wrote = [p \in Process |-> {}]
  /\ fault = FALSE /\ ripped = FALSE

-----------------------------------------------------------------------------
(***************************************************************************)
(* Module, probe and remove                                                 *)
(***************************************************************************)
\* module_init on a fresh image: static data are zero again.
Insmod ==
  /\ module = "out"
  /\ module' = "in"
  /\ device' = FALSE
  /\ UNCHANGED <<phase, pdev, stage, label, taken, outcome, files, past>>

ModuleInUseIgnored == FALSE

\* fops.owner = THIS_MODULE: an open file holds a reference.
ModuleInUse == opened # {}

\* module_exit: platform_driver_unregister removes the device, if any.
Rmmod ==
  /\ module = "in" /\ phase \in {"idle", "bound"}
  /\ ~ModuleInUse
  /\ IF phase = "bound"
     THEN module' = "leaving" /\ phase' = "removing" /\ label' = 1
     ELSE module' = "out" /\ UNCHANGED <<phase, label>>
  /\ UNCHANGED <<pdev, stage, taken, device, outcome, files, past>>

\* The driver core offers a device: the check at the top of probe.
Probe(d) ==
  /\ module = "in" /\ phase = "idle" /\ ~device
  /\ phase' = "probing" /\ pdev' = d /\ stage' = 1
  /\ outcome' = [outcome EXCEPT ![d] = "unprobed"]
  /\ UNCHANGED <<module, label, taken, device, files, past>>

\* "No more devices allowed!"
Refuse(d) ==
  /\ module = "in" /\ phase \in {"idle", "bound", "oops"} /\ device
  /\ d # pdev
  /\ outcome' = [outcome EXCEPT ![d] = "refused"]
  /\ UNCHANGED <<module, phase, pdev, stage, label, taken, device, files, past>>

\* class_create and device_create report a failure by an error pointer, which
\* is not NULL: probe, which tests for NULL, does not see it.
Unseen == {"class", "device"}

\* What a stage works with: the class, and the struct device.
Needs(s) == CASE s = "device" -> {"class"} [] s = "attributes" -> {"device"} [] OTHER -> {}

\* A stage of probe succeeds; after the last one probe returns 0.
TakeStage ==
  /\ phase = "probing" /\ Needs(Stages[stage]) \subseteq taken
  /\ taken' = taken \cup ({Stages[stage]} \cap Resource)
  /\ device' = (device \/ Stages[stage] = "device")
  /\ IF stage < 7
     THEN stage' = stage + 1 /\ UNCHANGED <<phase, outcome>>
     ELSE phase' = "bound" /\ outcome' = [outcome EXCEPT ![pdev] = "bound"]
               /\ UNCHANGED stage
  /\ UNCHANGED <<module, pdev, label, files, past>>

UnwindFromTooLate(s) == IF s = "attributes" THEN 1 ELSE 6

\* Where the goto of a failing stage enters the list of calls; 6 is its end.
\* Nothing jumps to r_device and r_class: that would need a NULL.
UnwindFrom(s) == CASE s = "attributes" -> 1     \* r_dev_file
                   [] s = "cdev"       -> 5     \* r_cdev_add
                   [] OTHER            -> 6     \* r_alloc_region and below

\* A stage fails, and probe sees it: result is not 0.  The attribute files
\* that could be created are there when the last stage fails.
FailStage ==
  /\ phase = "probing" /\ Stages[stage] \in Failing \ Unseen
  /\ Needs(Stages[stage]) \subseteq taken
  /\ phase' = "undoing"
  /\ label' = UnwindFrom(Stages[stage])
  /\ taken' = IF Stages[stage] = "attributes" THEN taken \cup {"attributes"} ELSE taken
  /\ UNCHANGED <<module, pdev, stage, device, outcome, files, past>>

\* class_create or device_create fails, as device_create does of a class that
\* is an error pointer: probe goes on with the error pointer.
MissStage ==
  /\ phase = "probing" /\ Stages[stage] \in Unseen
  /\ Stages[stage] \in Failing \/ ~(Needs(Stages[stage]) \subseteq taken)
  /\ stage' = stage + 1
  /\ device' = (device \/ Stages[stage] = "device")
  /\ UNCHANGED <<module, phase, pdev, label, taken, outcome, files, past>>

\* device_create_file of an error pointer is a fault in the kernel: probe
\* never returns, nor does its error path run.
Oops ==
  /\ phase = "probing" /\ Stages[stage] = "attributes"
  /\ ~(Needs(Stages[stage]) \subseteq taken)
  /\ phase' = "oops"
  /\ UNCHANGED <<module, pdev, stage, label, taken, device, outcome, files, past>>

\* Unbinding by hand, through the driver's directory in sysfs.
Unbind ==
  /\ module = "in" /\ phase = "bound"
  /\ phase' = "removing" /\ label' = 1
  /\ UNCHANGED <<module, pdev, stage, taken, device, outcome, files, past>>

\* One call of the error path of probe, or of remove.
Undo ==
  /\ phase \in {"undoing", "removing"} /\ label <= 5
  /\ Labels[label] = "attributes" => \A p \in Process : attr[p] = "none"
  /\ taken' = taken \ {Labels[label]}
  /\ fault' = (fault \/ Labels[label] \notin taken)
  /\ label' = label + 1
  /\ UNCHANGED <<module, phase, pdev, stage, device, outcome, files,
                 writer, wrote, ripped>>

\* The end of remove, or of a probe that failed: devm unmaps the registers.
EndUndo ==
  /\ phase \in {"undoing", "removing"} /\ label = 6
  /\ taken' = taken \ {"regbase"}
  /\ phase' = "idle" /\ pdev' = None /\ stage' = 1 /\ label' = 1
  /\ outcome' = [outcome EXCEPT ![pdev] = IF phase = "undoing" THEN "failed" ELSE "unprobed"]
  /\ ripped' = (ripped \/ (module = "in" /\ opened # {}))
  /\ module' = IF module = "leaving" THEN "out" ELSE module
  /\ UNCHANGED <<device, files, writer, wrote, fault>>

-----------------------------------------------------------------------------
(***************************************************************************)
(* The device file                                                          *)
(***************************************************************************)
\* init_baseaddr of the library.  The number answers from cdev_add on; a
\* module that is leaving is not entered.  The descriptor is overwritten also
\* when this process has the file open already: the open fails with EBUSY.
Open(p) ==
  /\ "cdev" \in taken /\ module # "leaving"
  /\ IF mutex = None
     THEN /\ mutex' = p /\ opened' = opened \cup {p}
          /\ fd' = [fd EXCEPT ![p] = "open"]
          /\ pos' = [pos EXCEPT ![p] = 0]
          /\ wrote' = [wrote EXCEPT ![p] = {}]
     ELSE /\ fd' = [fd EXCEPT ![p] = "bad"]
          /\ UNCHANGED <<mutex, opened, pos, wrote>>
  /\ UNCHANGED <<kernel, attr, writer, fault, ripped>>

\* The process exits: nothing in the libraries closes the file before.
Release(p) ==
  /\ fd[p] # "zero"
  /\ opened' = opened \ {p}
  /\ mutex' = IF p \in opened THEN None ELSE mutex
  /\ fd' = [fd EXCEPT ![p] = "zero"]
  /\ pos' = [pos EXCEPT ![p] = 0]
  /\ wrote' = [wrote EXCEPT ![p] = {}]
  /\ UNCHANGED <<kernel, attr, writer, fault, ripped>>

\* new_pos of llseek, for each whence.
SeekTarget(p, whence, offset) ==
  CASE whence = "SET" -> offset
    [] whence = "CUR" -> pos[p] + offset
    [] whence = "END" -> 16 + offset

SeekUnchecked(p) ==
  /\ fd[p] = "open"
  /\ \E whence \in {"SET", "CUR", "END"}, offset \in Offset :
       pos' = [pos EXCEPT ![p] = SeekTarget(p, whence, offset)]
  /\ UNCHANGED <<kernel, mutex, opened, fd, attr, past>>

\* llseek; out of bounds is -EINVAL and leaves f_pos.
Seek(p) ==
  /\ fd[p] = "open"
  /\ \E whence \in {"SET", "CUR", "END"}, offset \in Offset :
       LET new_pos == SeekTarget(p, whence, offset)
       IN new_pos \in 0 .. RegSize /\ pos' = [pos EXCEPT ![p] = new_pos]
  /\ UNCHANGED <<kernel, mutex, opened, fd, attr, past>>

\* iob_data_read_reg and iob_data_write_reg on the mapped region.
Touch == fault' = (fault \/ "regbase" \notin taken)

\* The register r gets a value from p.
Store(p, r) ==
  /\ Touch
  /\ writer' = IF r \in Watched THEN [writer EXCEPT ![r] = p] ELSE writer
  /\ wrote' = IF r \in Watched /\ p \in opened
              THEN [wrote EXCEPT ![p] = @ \cup {r}] ELSE wrote
  /\ UNCHANGED <<kernel, files, ripped>>

\* read and write at f_pos, which they leave; a write of another size than
\* the register's, or a position without register, is -EACCES.
Write(p, count) == fd[p] = "open" /\ pos[p] \in WritableRegs /\ 8 * count = Width[pos[p]]
                   /\ Store(p, pos[p])
Read(p) == fd[p] = "open" /\ pos[p] \in ReadableRegs
           /\ Touch /\ UNCHANGED <<kernel, files, writer, wrote, ripped>>

\* ioctl names the register itself.
IoctlWrite(p, r) == fd[p] = "open" /\ r \in WritableRegs /\ Store(p, r)
IoctlRead(p, r)  == fd[p] = "open" /\ r \in ReadableRegs
                    /\ Touch /\ UNCHANGED <<kernel, files, writer, wrote, ripped>>

-----------------------------------------------------------------------------
(***************************************************************************)
(* The attributes                                                           *)
(***************************************************************************)
\* Attribute files take calls until their removal begins.
AttributesLive == "attributes" \in taken /\ phase \notin {"undoing", "removing"}

\* A store is called.
StoreBegin(p) ==
  /\ AttributesLive /\ attr[p] = "none"
  /\ attr' = [attr EXCEPT ![p] = "store"]
  /\ UNCHANGED <<kernel, mutex, opened, fd, pos, past>>

StoreWithoutLock(p) ==
  /\ attr[p] = "store"
  /\ attr' = [attr EXCEPT ![p] = "storing"]
  /\ UNCHANGED <<kernel, mutex, opened, fd, pos, past>>

\* mutex_trylock, or -EBUSY.
StoreLock(p) ==
  /\ attr[p] = "store"
  /\ IF mutex = None
     THEN mutex' = p /\ attr' = [attr EXCEPT ![p] = "storing"]
     ELSE attr' = [attr EXCEPT ![p] = "none"] /\ UNCHANGED mutex
  /\ UNCHANGED <<kernel, opened, fd, pos, past>>

StoreRejectedKeepsLock(p) ==
  /\ attr[p] = "storing"
  /\ attr' = [attr EXCEPT ![p] = "none"]
  /\ UNCHANGED <<kernel, mutex, opened, fd, pos, past>>

StoreRejectedRetries(p) ==
  /\ attr[p] = "storing"
  /\ attr' = [attr EXCEPT ![p] = "store"]
  /\ mutex' = None
  /\ UNCHANGED <<kernel, opened, fd, pos, past>>

\* kstrtouint fails: unlock, return its error.
StoreRejected(p) ==
  /\ attr[p] = "storing"
  /\ attr' = [attr EXCEPT ![p] = "none"]
  /\ mutex' = None
  /\ UNCHANGED <<kernel, opened, fd, pos, past>>

\* The register is written and the mutex unlocked.
StoreEnd(p, r) ==
  /\ attr[p] = "storing"
  /\ Touch
  /\ writer' = IF r \in Watched THEN [writer EXCEPT ![r] = p] ELSE writer
  /\ attr' = [attr EXCEPT ![p] = "none"]
  /\ mutex' = None
  /\ UNCHANGED <<kernel, opened, fd, pos, wrote, ripped>>

\* A show takes no lock; between its two steps lies the register read.
ShowBegin(p) ==
  /\ AttributesLive /\ attr[p] = "none"
  /\ attr' = [attr EXCEPT ![p] = "show"]
  /\ UNCHANGED <<kernel, mutex, opened, fd, pos, past>>

ShowEnd(p) ==
  /\ attr[p] = "show"
  /\ Touch
  /\ attr' = [attr EXCEPT ![p] = "none"]
  /\ UNCHANGED <<kernel, mutex, opened, fd, pos, writer, wrote, ripped>>

-----------------------------------------------------------------------------
KernelStep == TakeStage \/ FailStage \/ MissStage \/ Oops \/ Undo \/ EndUndo

Admin == \/ Insmod \/ Rmmod \/ Unbind
         \/ \E d \in Device : Probe(d) \/ Refuse(d)

\* The library over read, write and llseek moves f_pos and reads or writes in
\* two calls; the one over ioctl needs one.
ReadWrite(p) == Seek(p) \/ Read(p) \/ \E count \in {1, 4} : Write(p, count)
Ioctl(p)     == \/ \E r \in WritableRegs : IoctlWrite(p, r)
                \/ \E r \in ReadableRegs : IoctlRead(p, r)

\* A process in an attribute call makes no other call.
DeviceFile(p) == attr[p] = "none" /\ (Open(p) \/ Release(p) \/ ReadWrite(p) \/ Ioctl(p))

CallEnds(p) == \/ StoreLock(p) \/ StoreRejected(p) \/ ShowEnd(p)
               \/ \E r \in Stored : StoreEnd(p, r)

\* The library over sysfs, and the shell.
Attribute(p) == StoreBegin(p) \/ ShowBegin(p) \/ CallEnds(p)

DriverNext == KernelStep \/ Admin \/ \E p \in Process : DeviceFile(p) \/ Attribute(p)

\* Calls in the kernel run to their end; nothing is asked of processes.
Fairness == WF_driverVars(KernelStep) /\ \A p \in Process : WF_driverVars(CallEnds(p))

DriverSpec == DriverInit /\ [][DriverNext]_driverVars /\ Fairness

-----------------------------------------------------------------------------
(***************************************************************************)
(* Properties                                                               *)
(***************************************************************************)
\* The variables have their types.
DriverTypeOK ==
  /\ module \in {"out", "in", "leaving"} /\ phase \in Phases
  /\ pdev \in Device \cup {None}
  /\ stage \in 1 .. 7 /\ label \in 1 .. 6
  /\ taken \subseteq Resource /\ device \in BOOLEAN
  /\ outcome \in [Device -> Outcomes]
  /\ mutex \in Process \cup {None} /\ opened \subseteq Process
  /\ fd \in [Process -> {"zero", "bad", "open"}]
  /\ pos \in [Process -> 0 .. RegSize]
  /\ attr \in [Process -> {"none", "store", "storing", "show"}]
  /\ writer \in [Watched -> Process \cup {None}]
  /\ wrote \in [Process -> SUBSET Watched]
  /\ fault \in BOOLEAN /\ ripped \in BOOLEAN

\* Every probe that returns has given back all it took if it failed, and has
\* everything if it bound the device, and remove gives everything back: the
\* goto labels of probe enter the list of calls at the right place.  A probe
\* whose class_create or device_create failed does not return (Oops) and keeps
\* what it took: FailureIsHandled, below, does not hold.
NothingLeaks ==
  /\ phase = "idle" => taken = {}
  /\ phase = "bound" => taken = Resource

\* No call reaches unmapped registers and nothing is freed twice, however
\* attribute calls, open files, probes and module_exit interleave, unless
\* the driver was unbound by hand under an open file: that the code allows.
FaultOnlyIfRipped == fault => ripped

\* A process that has the device open finds the registers it wrote as it left
\* them: no other process writes one in between, by any of the three ways.
ConfigurationIsOwn ==
  \A p \in opened : \A r \in wrote[p] : writer[r] = p

\* The mutex is never left locked: whoever holds it has the file open or is
\* in a store.  (-EBUSY for ever otherwise, for everybody.)
LockHasHolder ==
  mutex # None => mutex \in opened \/ attr[mutex] = "storing"

\* Why: an open file and a store each hold the mutex, so that there is one of
\* them at most, and only a process that has the file open gets past open.
LockInv ==
  /\ \A p \in opened : mutex = p
  /\ \A p \in Process : attr[p] = "storing" => mutex = p /\ p \notin opened
  /\ \A p \in Process : fd[p] = "open" => p \in opened
  /\ LockHasHolder
  /\ ConfigurationIsOwn

\* The resources of the stages that probe has behind it.
Reached == {Stages[i] : i \in 2 .. stage - 1}

\* Why nothing leaks: at every stage what is taken is known, but for the
\* class and the device; without them probe gets no further than Oops.
HeldInv ==
  /\ phase = "idle" => taken = {}
  /\ phase = "probing" =>
       /\ Reached \ Unseen \subseteq taken /\ taken \subseteq Reached
       /\ "device" \in taken => "class" \in taken
  /\ phase = "oops" => "regbase" \in taken /\ "attributes" \notin taken
  /\ phase = "bound" => taken = Resource
  /\ phase \in {"undoing", "removing"} =>
       taken \ {"regbase"} = {Labels[i] : i \in label .. 5}

\* Why nothing is touched too late: what an open file or an attribute call
\* needs is mapped for as long as it is there.
UseInv ==
  /\ "cdev" \in taken => "regbase" \in taken
  /\ phase = "removing" => "regbase" \in taken
  /\ module = "leaving" => opened = {} /\ phase = "removing"
  /\ module = "out" => phase = "idle"
  /\ opened # {} => "regbase" \in taken \/ ripped
  /\ \A p \in Process : fd[p] = "open" => p \in opened
  /\ \A p \in Process : attr[p] # "none" =>
       phase = "bound" \/ (phase = "removing" /\ label = 1)
  /\ FaultOnlyIfRipped

\* Probe, its error path and remove come to an end, though removing an
\* attribute waits for the calls in it and the file may stay open for ever.
\* The end may be the fault of Oops.
TeardownEnds ==
  phase \in {"probing", "undoing", "removing"} ~> phase \in {"idle", "bound", "oops"}

\* "Device class can not be created!", "Can not create device file!": probe
\* notices these two failures.  It does not, and runs into Oops.
FailureIsHandled == phase # "oops"

\* "No more devices allowed!" is said only while a device is bound.
RefusedOnlyWhenTaken ==
  [][\A d \in Device : outcome[d] # "refused" /\ outcome'[d] = "refused" => phase = "bound"]_driverVars
=============================================================================
