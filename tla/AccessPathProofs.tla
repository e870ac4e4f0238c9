-------------------------- MODULE AccessPathProofs --------------------------
(***************************************************************************)
(* How software gets to the registers.  The accessors of the two testbench  *)
(* UARTs implement RegisterMap.tla, for every set of base addresses and of  *)
(* bytes, every choice of calls and every width of the request counters;    *)
(* bridge and bus interface give the register file one strobe per request   *)
(* with its address, direction and data, and the master one answer, for     *)
(* every set of registers and every byte.  The Linux driver, for any number *)
(* of processes and devices, any failures of probe and any size of the      *)
(* region: mutual exclusion by the mutex that open takes and release gives  *)
(* back, resources given back on every path, and no access to registers     *)
(* that are not mapped.                                                     *)
(***************************************************************************)
EXTENDS RegisterAccess, WbBridge, LinuxDriver, FiniteSetTheorems, TLAPS

-----------------------------------------------------------------------------
(***************************************************************************)
(* The accessors (RegisterAccess.tla): the inductive invariant.             *)
(***************************************************************************)
InCall == c \in {"send", "wait"}

\* The two processes open the pipes in the same order, and only then talk.
StartInv ==
  /\ c = "mkfifo" => v = "open c2v" /\ "c2v" \notin fifos
  /\ c = "open c2v" => v = "open c2v" /\ fifos = {"c2v", "v2c"}
  /\ c = "open v2c" => v = "open v2c" /\ fifos = {"c2v", "v2c"}
  /\ c \in {"idle", "send", "wait"} => v = "serve"
  /\ c = "exited" => v \in {"serve", "finished"}
  /\ c # "aborted"

\* The request of the access the call has come to.
Request ==
  [req |-> req, mode |-> Program(call)[at].mode,
   address |-> base + Address[Program(call)[at].reg],
   data |-> IF Program(call)[at].mode = "W" THEN ToWrite(Program(call)[at]) ELSE 0]

Requested    == c2v = Request /\ v2c = Nothing /\ ack = req
Answered == /\ c2v = Nothing
            /\ v2c # Nothing /\ Matches(v2c)
            /\ ack = (req + 1) % ReqModulus

\* One message at most is under way: the request, its reply, or the farewell.
PipeInv ==
  /\ c = "wait" => Requested \/ Answered
  /\ c # "wait" => v2c = Nothing /\ ack = req
  /\ c \notin {"wait", "exited"} => c2v = Nothing
  /\ c = "exited" => c2v = Nothing \/ (c2v # Nothing /\ c2v.mode = "F" /\ c2v.req = req)

\* Calls that go around LC, and those of a single access.
Guarded == call.op \in {"get", "set"} /\ call.reg \in Below \cup Above
Plain   == call.op \in {"get", "set"} /\ call.reg \notin Below \cup Above

\* The registers of the selected UART when the call began and when it returns.
Old == before[base]
New == M!NewLatch(call, Old)

\* LC while a guarded call is at its register.
Prepared == IF call.reg \in Below THEN LCWithout(Old["lc"]) ELSE LCWith(Old["lc"])

\* LC after n accesses of the call.
LCAfter(n) ==
  IF call.op = "init"
  THEN IF n < 2 THEN Old["lc"] ELSE IF n < 5 THEN LCWith(Old["lc"]) ELSE LCWithout(Old["lc"])
  ELSE IF Guarded THEN IF n \in {2, 3} THEN Prepared ELSE Old["lc"]
  ELSE IF n = 0 THEN Old["lc"] ELSE New["lc"]

\* The access after which another register has its new value.
Turn(r) == IF call.op = "init" THEN IF r = "dl2" THEN 3 ELSE IF r = "dl1" THEN 4 ELSE 7
           ELSE IF Guarded THEN 3 ELSE 1

\* The registers of the selected UART after n accesses.
Registers(n) ==
  [r \in M!Latched |-> IF r = "lc" THEN LCAfter(n)
                       ELSE IF n < Turn(r) THEN Old[r] ELSE New[r]]

\* How many registers other than LC the first n accesses reach, of those the
\* call is meant to reach.
Count(n) == IF call.op = "init" THEN IF n < 3 THEN 0 ELSE IF n < 4 THEN 1
                                     ELSE IF n < 6 THEN 2 ELSE n - 3
            ELSE IF Guarded THEN IF n < 3 THEN 0 ELSE 1
            ELSE IF n = 0 \/ call.reg = "lc" THEN 0 ELSE 1

Trace(n) == [i \in 1 .. n |-> <<base, M!Intended(call)[i]>>]

\* Accesses of the call the simulator has served.
Served == IF c = "wait" /\ v2c # Nothing THEN at ELSE at - 1

\* How far the call has come, and what it has done so far.
CallInv ==
  /\ ~InCall => call = NoCall /\ at = 1
  /\ InCall =>
       /\ call \in Calls /\ at \in 1 .. Len(Program(call))
       /\ latch = [before EXCEPT ![base] = Registers(Served)]
       /\ touched = Trace(Count(Served))
       /\ ~Plain /\ at > 1 => saved = Old["lc"]

\* What the call has brought back, or is bringing back.
ReplyInv ==
  InCall =>
    /\ call.op # "get" => reply = 0
    /\ Guarded /\ call.op = "get" /\ at > 3 => reply \in M!Answer(call)
    /\ c = "wait" /\ v2c # Nothing =>
         /\ Program(call)[at].value = "save" => v2c.data = Old["lc"]
         /\ Program(call)[at].value = "reply" => v2c.data \in M!Answer(call)

AccessInv == TypeOK /\ StartInv /\ PipeInv /\ CallInv /\ ReplyInv

(***************************************************************************)
(* The programs of the calls.                                               *)
(***************************************************************************)

\* The access a get or a set is about, and the one that prepares it.
Main    == IF call.op = "get" THEN Access("R", call.reg, "reply")
                              ELSE Access("W", call.reg, "value")
SetDlab == Access("W", "lc", IF call.reg \in Below THEN "without" ELSE "with")

\* The three kinds of calls.
LEMMA CallKinds ==
  ASSUME call \in M!Call
  PROVE  /\ call.op \in {"get", "set", "init"}
         /\ call.op = "get" => call.reg \in M!Getter
         /\ call.op = "set" => call.reg \in M!Setter /\ call.value \in Bytes
         /\ call.op = "init" => call.msb \in Bytes /\ call.lsb \in Bytes
BY RegisterAccessAssumption DEF M!Call, Bytes

\* The program of each kind.
LEMMA Programs ==
  ASSUME call \in M!Call
  PROVE  /\ Plain   => Program(call) = <<Main>>
         /\ Guarded => Program(call) = <<Save, SetDlab, Main, Restore>>
         /\ call.op = "init" =>
              Program(call) = <<Save, Access("W", "lc", "with"),
                                Access("W", "dl2", "msb"), Access("W", "dl1", "lsb"),
                                Access("W", "lc", "without"),
                                Access("W", "fc", "trigger"), Access("W", "ie", "enables")>>
         /\ Plain \/ Guarded \/ call.op = "init"
<1>1. call.op \in {"get", "set", "init"}
  BY CallKinds
<1>2. Below \cap Above = {}
  BY DEF Below, Above
<1>3. ASSUME call.op = "get" PROVE Program(call) = Around(call.reg, Main)
  BY <1>3 DEF Program, Main
<1>4. ASSUME call.op = "set" PROVE Program(call) = Around(call.reg, Main)
  BY <1>4 DEF Program, Main
<1>5. Plain => Program(call) = <<Main>>
  BY <1>3, <1>4 DEF Plain, Around
<1>6. Guarded => Program(call) = <<Save, SetDlab, Main, Restore>>
  BY <1>2, <1>3, <1>4 DEF Guarded, Around, SetDlab
<1>7. CASE call.op = "init"
  BY <1>7 DEF Program, Plain, Guarded
<1> QED BY <1>1, <1>5, <1>6, <1>7 DEF Plain, Guarded

\* The access a call has come to.
LEMMA AccessCases ==
  ASSUME call \in M!Call, at \in 1 .. Len(Program(call))
  PROVE  \/ Plain /\ at = 1 /\ Len(Program(call)) = 1 /\ Program(call)[at] = Main
         \/ /\ Guarded /\ Len(Program(call)) = 4
            /\ \/ at = 1 /\ Program(call)[at] = Save
               \/ at = 2 /\ Program(call)[at] = SetDlab
               \/ at = 3 /\ Program(call)[at] = Main
               \/ at = 4 /\ Program(call)[at] = Restore
         \/ /\ call.op = "init" /\ Len(Program(call)) = 7
            /\ \/ at = 1 /\ Program(call)[at] = Save
               \/ at = 2 /\ Program(call)[at] = Access("W", "lc", "with")
               \/ at = 3 /\ Program(call)[at] = Access("W", "dl2", "msb")
               \/ at = 4 /\ Program(call)[at] = Access("W", "dl1", "lsb")
               \/ at = 5 /\ Program(call)[at] = Access("W", "lc", "without")
               \/ at = 6 /\ Program(call)[at] = Access("W", "fc", "trigger")
               \/ at = 7 /\ Program(call)[at] = Access("W", "ie", "enables")
<1>1. CASE Plain
  <2>1. Program(call) = <<Main>>
    BY <1>1, Programs
  <2> QED BY <1>1, <2>1
<1>2. CASE Guarded
  <2>1. Program(call) = <<Save, SetDlab, Main, Restore>>
    BY <1>2, Programs
  <2>2. at \in 1 .. 4 /\ Len(Program(call)) = 4
    BY <2>1
  <2>3. at = 1 \/ at = 2 \/ at = 3 \/ at = 4
    BY <2>2
  <2> QED BY <1>2, <2>1, <2>2, <2>3
<1>3. CASE call.op = "init"
  <2> DEFINE P == <<Save, Access("W", "lc", "with"),
                    Access("W", "dl2", "msb"), Access("W", "dl1", "lsb"),
                    Access("W", "lc", "without"),
                    Access("W", "fc", "trigger"), Access("W", "ie", "enables")>>
  <2>1. Program(call) = P
    BY <1>3, Programs
  <2>2. at \in 1 .. 7 /\ Len(Program(call)) = 7
    BY <2>1
  <2>3. at = 1 \/ at = 2 \/ at = 3 \/ at = 4 \/ at = 5 \/ at = 6 \/ at = 7
    BY <2>2
  <2> QED BY <1>3, <2>1, <2>2, <2>3
<1> QED BY <1>1, <1>2, <1>3, Programs

(***************************************************************************)
(* What the simulator does with the access.                                 *)
(***************************************************************************)
Current == Program(call)[at]
Bank    == [M!Latched -> Bytes]

\* The copy of LC a call has made, once it is past its first access.
SavedInv == ~Plain /\ at > 1 => saved = Old["lc"]

\* What clr_bit and set_bit make of the divisor latch access bit.
LEMMA DlabOf ==
  ASSUME NEW x \in 0 .. 255
  PROVE  /\ LCWithout(x) \in 0 .. 127 /\ LCWith(x) \in 128 .. 255
         /\ LCWith(x) >= 128 /\ ~(LCWithout(x) >= 128)
         /\ LCWithout(x) = x % 128
<1>1. x % 128 \in 0 .. 127
  OBVIOUS
<1> QED BY <1>1 DEF LCWith, LCWithout

\* With the divisor latch access bit as the accesses before have left it, the
\* address of the current one reaches the register the program names.
LEMMA ReachesItsRegister ==
  ASSUME call \in M!Call, at \in 1 .. Len(Program(call)), Old \in Bank
  PROVE  /\ Current.reg \in DOMAIN Address /\ Current.mode \in {"R", "W"}
         /\ Decode(Address[Current.reg], Current.mode, Registers(at - 1)["lc"] >= 128)
              = Current.reg
<1> USE DEF Current, Access
<1>1. Old["lc"] \in 0 .. 255
  BY DEF Bank, M!Latched, Bytes
<1>2. LCWith(Old["lc"]) >= 128 /\ ~(LCWithout(Old["lc"]) >= 128)
  BY <1>1, DlabOf
<1>3. CASE Plain
  <2>1. Current = Main /\ at = 1
    BY <1>3, AccessCases DEF Guarded, Plain
  <2>2. CASE call.op = "get"
    <3>1. call.reg \in {"ii", "lc", "ls", "ms", "db1", "db2"}
      BY <1>3, <2>2, CallKinds DEF M!Getter, Plain, Below, Above
    <3> QED BY <2>1, <2>2, <3>1 DEF Main, Address, Decode
  <2>3. CASE call.op = "set"
    <3>1. call.reg \in {"fc", "lc", "mc"}
      BY <1>3, <2>3, CallKinds DEF M!Setter, Plain, Below, Above
    <3> QED BY <2>1, <2>3, <3>1 DEF Main, Address, Decode
  <2> QED BY <1>3, <2>2, <2>3 DEF Plain
<1>4. CASE Guarded
  <2>1. call.op # "init"
    BY <1>4 DEF Guarded
  <2>2. CASE at = 3
    <3>1. Current = Main
      BY <1>4, <2>1, <2>2, AccessCases DEF Guarded, Plain
    <3>2. Registers(at - 1)["lc"] = Prepared
      BY <1>4, <2>1, <2>2 DEF Registers, LCAfter, M!Latched
    <3>3. CASE call.reg \in Below
      <4>1. ~(Registers(at - 1)["lc"] >= 128)
        BY <1>2, <3>2, <3>3 DEF Prepared
      <4>2. \/ call.op = "get" /\ call.reg \in {"rb", "ie"}
            \/ call.op = "set" /\ call.reg \in {"tr", "ie"}
        BY <1>4, <3>3, CallKinds DEF Below, M!Getter, M!Setter, Guarded
      <4> QED BY <3>1, <4>1, <4>2 DEF Main, Address, Decode
    <3>4. CASE call.reg \in Above
      <4>1. Registers(at - 1)["lc"] >= 128
        BY <1>2, <3>2, <3>4 DEF Prepared, Below, Above
      <4>2. call.op \in {"get", "set"} /\ call.reg \in {"dl1", "dl2"}
        BY <1>4, <3>4 DEF Above, Guarded
      <4> QED BY <3>1, <4>1, <4>2 DEF Main, Address, Decode
    <3> QED BY <1>4, <3>3, <3>4 DEF Guarded
  <2>3. CASE at # 3
    <3>1. Current \in {Save, SetDlab, Restore}
      BY <1>4, <2>1, <2>3, AccessCases DEF Guarded, Plain
    <3> QED BY <3>1 DEF Save, SetDlab, Restore, Address, Decode
  <2> QED BY <2>2, <2>3
<1>5. CASE call.op = "init"
  <2>1. \/ Current.reg = "lc" /\ Current.mode \in {"R", "W"}
        \/ at = 3 /\ Current.reg = "dl2" /\ Current.mode = "W"
        \/ at = 4 /\ Current.reg = "dl1" /\ Current.mode = "W"
        \/ at = 6 /\ Current.reg = "fc" /\ Current.mode = "W"
        \/ at = 7 /\ Current.reg = "ie" /\ Current.mode = "W"
    BY <1>5, AccessCases DEF Plain, Guarded, Save
  <2>2. /\ at \in {3, 4} => Registers(at - 1)["lc"] = LCWith(Old["lc"])
        /\ at = 7 => Registers(at - 1)["lc"] = LCWithout(Old["lc"])
    <3>1. /\ at \in {3, 4} => at - 1 >= 2 /\ at - 1 < 5
          /\ at = 7 => at - 1 = 6
      OBVIOUS
    <3> QED BY <1>5, <3>1 DEF Registers, LCAfter, M!Latched
  <2>3. /\ at \in {3, 4} => Registers(at - 1)["lc"] >= 128
        /\ at = 7 => ~(Registers(at - 1)["lc"] >= 128)
    BY <1>2, <2>2
  <2> QED BY <2>1, <2>3 DEF Address, Decode
<1> QED BY <1>3, <1>4, <1>5, Programs

\* The registers of the selected UART when the call returns.
LEMMA NewRegisters ==
  ASSUME call \in M!Call, Old \in Bank
  PROVE  /\ New \in Bank
         /\ call.op = "get" => New = Old
         /\ call.op = "set" =>
              New = IF call.reg \in M!Latched
                    THEN [Old EXCEPT ![call.reg] = M!Kept(call.reg, call.value)] ELSE Old
         /\ call.op = "init" =>
              /\ New["dl2"] = call.msb /\ New["dl1"] = call.lsb /\ New["ie"] = 3
              /\ New["lc"] = LCWithout(Old["lc"])
<1>1. CASE call.op = "get"
  BY <1>1 DEF New, M!NewLatch
<1>2. CASE call.op = "set"
  <2>1. New = IF call.reg \in M!Latched
              THEN [Old EXCEPT ![call.reg] = M!Kept(call.reg, call.value)] ELSE Old
    BY <1>2 DEF New, M!NewLatch
  <2>2. call.value \in 0 .. 255
    BY <1>2, CallKinds DEF Bytes
  <2>3. M!Kept(call.reg, call.value) \in 0 .. 255
    BY <2>2 DEF M!Kept
  <2> QED BY <1>2, <2>1, <2>3 DEF Bank, Bytes
<1>3. CASE call.op = "init"
  <2>1. New = [Old EXCEPT !["dl2"] = call.msb, !["dl1"] = call.lsb, !["ie"] = 3,
                          !["lc"] = @ % 128]
    BY <1>3 DEF New, M!NewLatch
  <2>2. /\ Old["lc"] \in 0 .. 255 /\ call.msb \in 0 .. 255 /\ call.lsb \in 0 .. 255
    BY <1>3, CallKinds DEF Bank, M!Latched, Bytes
  <2>3. Old["lc"] % 128 \in 0 .. 255 /\ LCWithout(Old["lc"]) = Old["lc"] % 128
    BY <2>2 DEF LCWithout
  <2> QED BY <1>3, <2>1, <2>2, <2>3 DEF Bank, Bytes, M!Latched
<1> QED BY <1>1, <1>2, <1>3, CallKinds

\* What the current access writes.
LEMMA Writes ==
  ASSUME call \in M!Call, at \in 1 .. Len(Program(call)), Old \in Bank, SavedInv,
         Current.mode = "W"
  PROVE  /\ ToWrite(Current) \in Bytes
         /\ \/ Current = Main /\ call.op = "set" /\ ToWrite(Current) = call.value
            \/ Guarded /\ at = 2 /\ Current.reg = "lc" /\ ToWrite(Current) = Prepared
            \/ Guarded /\ at = 4 /\ Current.reg = "lc" /\ ToWrite(Current) = Old["lc"]
            \/ /\ call.op = "init"
               /\ \/ at = 2 /\ Current.reg = "lc"  /\ ToWrite(Current) = LCWith(Old["lc"])
                  \/ at = 3 /\ Current.reg = "dl2" /\ ToWrite(Current) = call.msb
                  \/ at = 4 /\ Current.reg = "dl1" /\ ToWrite(Current) = call.lsb
                  \/ at = 5 /\ Current.reg = "lc"  /\ ToWrite(Current) = LCWithout(Old["lc"])
                  \/ at = 6 /\ Current.reg = "fc"
                  \/ at = 7 /\ Current.reg = "ie"  /\ ToWrite(Current) = 3
<1> USE DEF Current, Access
<1>1. Old["lc"] \in 0 .. 255
  BY DEF Bank, M!Latched, Bytes
<1>2. /\ LCWith(Old["lc"]) \in Bytes /\ LCWithout(Old["lc"]) \in Bytes /\ Old["lc"] \in Bytes
  <2>1. LCWith(Old["lc"]) \in 128 .. 255 /\ LCWithout(Old["lc"]) \in 0 .. 127
    BY <1>1, DlabOf
  <2> QED BY <1>1, <2>1 DEF Bytes
<1>3. CASE Current = Main
  <2>1. call.op = "set" /\ Current.value = "value"
    <3>1. call.op = "init" => Current.value # "value"
      BY AccessCases DEF Plain, Guarded, Save
    <3>2. call.op # "get" /\ Current.value = "value"
      BY <1>3 DEF Main
    <3> QED BY <3>1, <3>2, CallKinds
  <2>2. ToWrite(Current) = call.value
    BY <2>1 DEF ToWrite
  <2> QED BY <1>3, <2>1, <2>2, CallKinds
<1>4. CASE Current # Main /\ Guarded
  <2>1. \/ at = 2 /\ Current = SetDlab
        \/ at = 4 /\ Current = Restore
    BY <1>4, AccessCases DEF Guarded, Plain, Save
  <2>2. saved = Old["lc"]
    BY <1>4, <2>1 DEF SavedInv, Guarded, Plain
  <2>3. CASE at = 2 /\ Current = SetDlab
    <3>1. Current.value = IF call.reg \in Below THEN "without" ELSE "with"
      BY <2>3 DEF SetDlab
    <3>2. ToWrite(Current) = Prepared
      BY <2>2, <3>1 DEF ToWrite, Prepared
    <3> QED BY <1>2, <1>4, <2>3, <3>2 DEF SetDlab, Prepared
  <2>4. CASE at = 4 /\ Current = Restore
    BY <1>2, <1>4, <2>2, <2>4 DEF Restore, ToWrite
  <2> QED BY <2>1, <2>3, <2>4
<1>5. CASE call.op = "init"
  <2>1. at > 1
    BY <1>5, AccessCases DEF Guarded, Plain, Save
  <2>2. saved = Old["lc"]
    BY <1>5, <2>1 DEF SavedInv, Plain
  <2>3. \/ at = 2 /\ Current = Access("W", "lc", "with")
        \/ at = 3 /\ Current = Access("W", "dl2", "msb")
        \/ at = 4 /\ Current = Access("W", "dl1", "lsb")
        \/ at = 5 /\ Current = Access("W", "lc", "without")
        \/ at = 6 /\ Current = Access("W", "fc", "trigger")
        \/ at = 7 /\ Current = Access("W", "ie", "enables")
    BY <1>5, <2>1, AccessCases DEF Guarded, Plain
  <2>4. 192 \in Bytes /\ 3 \in Bytes /\ call.msb \in Bytes /\ call.lsb \in Bytes
    BY <1>5, CallKinds DEF Bytes
  <2> QED BY <1>2, <1>5, <2>2, <2>3, <2>4 DEF ToWrite
<1>6. Current # Main => Guarded \/ call.op = "init"
  BY AccessCases
<1> QED BY <1>3, <1>4, <1>5, <1>6

\* The access takes the registers from where the ones before have left them
\* to where the next one finds them.
LEMMA ActsOnItsRegister ==
  ASSUME call \in M!Call, at \in 1 .. Len(Program(call)), Old \in Bank, SavedInv
  PROVE  Registers(at) =
           IF Current.mode = "W" /\ Current.reg \in M!Latched
           THEN [Registers(at - 1) EXCEPT
                   ![Current.reg] = M!Kept(Current.reg, ToWrite(Current))]
           ELSE Registers(at - 1)
<1> DEFINE Wrote(r) == Current.mode = "W" /\ Current.reg = r
<1> SUFFICES \A r \in M!Latched :
               Registers(at)[r] = IF Wrote(r) THEN M!Kept(r, ToWrite(Current))
                                              ELSE Registers(at - 1)[r]
  BY DEF Registers
<1>0. New \in Bank /\ at \in Int
  BY NewRegisters
<1>1. CASE Plain
  <2>1. Current = Main /\ at = 1 /\ call.op \in {"get", "set"}
    BY <1>1, AccessCases DEF Plain, Guarded, Current
  <2>2. \A r \in M!Latched : Registers(at)[r] = New[r] /\ Registers(at - 1)[r] = Old[r]
    BY <1>1, <2>1 DEF Registers, LCAfter, Turn, Plain, Guarded
  <2>3. CASE call.op = "get"
    BY <2>1, <2>2, <2>3, NewRegisters DEF Main, Access
  <2>4. CASE call.op = "set"
    <3>1. Current.mode = "W" /\ Current.reg = call.reg /\ ToWrite(Current) = call.value
      BY <2>1, <2>4 DEF Main, Access, ToWrite
    <3>2. \A r \in M!Latched :
            New[r] = IF r = call.reg THEN M!Kept(r, call.value) ELSE Old[r]
      BY <2>4, NewRegisters DEF Bank
    <3> QED BY <2>2, <3>1, <3>2
  <2> QED BY <2>1, <2>3, <2>4
<1>2. CASE Guarded
  <2>1. call.op \in {"get", "set"} /\ call.reg \in Below \cup Above /\ call.reg # "lc"
    BY <1>2 DEF Guarded, Below, Above
  <2>2. \/ at = 1 /\ Current = Save
        \/ at = 2 /\ Current = SetDlab
        \/ at = 3 /\ Current = Main
        \/ at = 4 /\ Current = Restore
    BY <1>2, AccessCases DEF Plain, Guarded, Current
  <2>3. ASSUME NEW n \in Int
        PROVE  /\ Registers(n)["lc"] = IF n \in {2, 3} THEN Prepared ELSE Old["lc"]
               /\ \A r \in M!Latched \ {"lc"} :
                    Registers(n)[r] = IF n < 3 THEN Old[r] ELSE New[r]
    BY <1>2, <2>1 DEF Registers, LCAfter, Turn, M!Latched
  <2>4. CASE at = 1
    BY <2>2, <2>3, <2>4 DEF Save, Access
  <2>5. CASE at = 2
    <3>1. Current.mode = "W" /\ Current.reg = "lc"
      BY <2>2, <2>5 DEF SetDlab, Access
    <3>2. ToWrite(Current) = Prepared
      BY <2>1, <2>2, <2>5, <3>1, Writes DEF Main, Access
    <3> QED BY <2>3, <2>5, <3>1, <3>2 DEF M!Kept
  <2>6. CASE at = 4
    <3>1. Current.mode = "W" /\ Current.reg = "lc"
      BY <2>2, <2>6 DEF Restore, Access
    <3>2. ToWrite(Current) = Old["lc"]
      BY <2>1, <2>2, <2>6, <3>1, Writes DEF Main, Access
    <3> QED BY <2>3, <2>6, <3>1, <3>2 DEF M!Kept
  <2>7. CASE at = 3
    <3>1. Current = Main
      BY <2>2, <2>7
    <3>2. /\ Registers(at)["lc"] = Registers(at - 1)["lc"]
          /\ \A r \in M!Latched \ {"lc"} :
               Registers(at)[r] = New[r] /\ Registers(at - 1)[r] = Old[r]
      BY <2>3, <2>7
    <3>3. CASE call.op = "get"
      <4>1. Current.mode = "R" /\ New = Old
        BY <3>1, <3>3, NewRegisters DEF Main, Access
      <4> QED BY <3>2, <4>1
    <3>4. CASE call.op = "set"
      <4>1. Current.mode = "W" /\ Current.reg = call.reg /\ ToWrite(Current) = call.value
        BY <3>1, <3>4 DEF Main, Access, ToWrite
      <4>2. \A r \in M!Latched :
              New[r] = IF r = call.reg THEN M!Kept(r, call.value) ELSE Old[r]
        BY <3>4, NewRegisters DEF Bank
      <4> QED BY <2>1, <3>2, <4>1, <4>2
    <3> QED BY <2>1, <3>3, <3>4
  <2> QED BY <2>2, <2>4, <2>5, <2>6, <2>7
<1>3. CASE call.op = "init"
  <2>1. ASSUME NEW n \in Int
        PROVE  /\ Registers(n)["lc"] = IF n < 2 THEN Old["lc"]
                                       ELSE IF n < 5 THEN LCWith(Old["lc"])
                                       ELSE LCWithout(Old["lc"])
               /\ Registers(n)["dl2"] = IF n < 3 THEN Old["dl2"] ELSE call.msb
               /\ Registers(n)["dl1"] = IF n < 4 THEN Old["dl1"] ELSE call.lsb
               /\ Registers(n)["ie"]  = IF n < 7 THEN Old["ie"] ELSE 3
    BY <1>3, NewRegisters DEF Registers, LCAfter, Turn, M!Latched
  <2>2. at \in 1 .. 7 /\ ~Guarded
    BY <1>3, AccessCases DEF Plain, Guarded
  <2>3. CASE at = 1
    <3>1. Current.mode = "R"
      BY <1>3, <2>3, AccessCases DEF Plain, Guarded, Save, Access, Current
    <3> QED BY <2>1, <2>3, <3>1 DEF M!Latched
  <2>4. CASE at # 1
    <3>1. Current.mode = "W" /\ Current # Main
      BY <1>3, <2>4, AccessCases DEF Plain, Guarded, Access, Current, Main
    <3>2. \/ at = 2 /\ Current.reg = "lc"  /\ ToWrite(Current) = LCWith(Old["lc"])
          \/ at = 3 /\ Current.reg = "dl2" /\ ToWrite(Current) = call.msb
          \/ at = 4 /\ Current.reg = "dl1" /\ ToWrite(Current) = call.lsb
          \/ at = 5 /\ Current.reg = "lc"  /\ ToWrite(Current) = LCWithout(Old["lc"])
          \/ at = 6 /\ Current.reg = "fc"
          \/ at = 7 /\ Current.reg = "ie"  /\ ToWrite(Current) = 3
      BY <2>2, <3>1, Writes
    <3> QED BY <2>1, <3>1, <3>2 DEF M!Latched, M!Kept
  <2> QED BY <2>3, <2>4
<1> QED BY <1>1, <1>2, <1>3, Programs

\* The registers reached are those the call is meant to reach, in its order.
LEMMA ReachedInOrder ==
  ASSUME call \in M!Call, at \in 1 .. Len(Program(call))
  PROVE  /\ Count(at - 1) \in Nat
         /\ IF Current.reg = "lc" THEN Count(at) = Count(at - 1)
            ELSE /\ Count(at) = Count(at - 1) + 1
                 /\ Current.reg = M!Intended(call)[Count(at)]
<1> USE DEF Access
<1>1. CASE Plain
  <2>1. /\ at = 1 /\ call.op \in {"get", "set"} /\ ~Guarded
        /\ Current.reg = call.reg
    BY <1>1, AccessCases DEF Plain, Guarded, Current, Main
  <2>2. Count(0) = 0 /\ Count(1) = IF call.reg = "lc" THEN 0 ELSE 1
    BY <2>1 DEF Count
  <2>3. call.reg # "lc" => M!Intended(call)[1] = call.reg
    BY <2>1 DEF M!Intended
  <2> QED BY <2>1, <2>2, <2>3
<1>2. CASE Guarded
  <2>1. call.op \in {"get", "set"} /\ call.reg # "lc"
    BY <1>2 DEF Guarded, Below, Above
  <2>2. /\ at \in 1 .. 4
        /\ IF at = 3 THEN Current.reg = call.reg ELSE Current.reg = "lc"
    BY <1>2, AccessCases DEF Plain, Guarded, Current, Main, Save, SetDlab, Restore
  <2>3. M!Intended(call)[1] = call.reg
    BY <2>1 DEF M!Intended
  <2> QED BY <1>2, <2>1, <2>2, <2>3 DEF Count
<1>3. CASE call.op = "init"
  <2>1. at \in 1 .. 7
    BY <1>3, AccessCases DEF Plain, Guarded
  <2>2. IF at = 3 THEN Current.reg = "dl2" ELSE IF at = 4 THEN Current.reg = "dl1"
        ELSE IF at = 6 THEN Current.reg = "fc" ELSE IF at = 7 THEN Current.reg = "ie"
        ELSE Current.reg = "lc"
    BY <1>3, AccessCases DEF Plain, Guarded, Current, Save
  <2>3. M!Intended(call) = <<"dl2", "dl1", "fc", "ie">>
    BY <1>3 DEF M!Intended
  <2> QED BY <1>3, <2>1, <2>2, <2>3 DEF Count
<1> QED BY <1>1, <1>2, <1>3, Programs

\* One more register reached.
LEMMA TraceGrows ==
  ASSUME NEW n \in Nat
  PROVE  Trace(n + 1) = Append(Trace(n), <<base, M!Intended(call)[n + 1]>>)
<1> DEFINE f(i) == <<base, M!Intended(call)[i]>>
           s == [i \in 1 .. n |-> f(i)]
           t == [i \in 1 .. n + 1 |-> f(i)]
<1> HIDE DEF f
<1>1. s \in Seq({f(i) : i \in 1 .. n}) /\ Len(s) = n
  OBVIOUS
<1>2. t = Append(s, f(n + 1))
  BY <1>1
<1> QED BY <1>2 DEF f, Trace

\* The reads of a program: LC as the call found it, and what it returns.
LEMMA Reads ==
  ASSUME call \in M!Call, at \in 1 .. Len(Program(call)), Old \in Bank,
         Current.mode = "R"
  PROVE  \/ /\ Current.value = "save" /\ Current.reg = "lc" /\ at = 1 /\ ~Plain
            /\ Registers(at - 1)["lc"] = Old["lc"]
         \/ /\ Current.value = "reply" /\ Current.reg = call.reg /\ call.op = "get"
            /\ Plain \/ (Guarded /\ at = 3)
            /\ call.reg \in M!Latched => Registers(at - 1)[call.reg] = Old[call.reg]
<1> USE DEF Access, Current
<1>1. CASE Current = Main
  <2>1. /\ Current.value = "reply" /\ Current.reg = call.reg /\ call.op = "get"
        /\ Plain \/ (Guarded /\ at = 3)
        /\ Plain => at = 1
    BY <1>1, AccessCases DEF Main, Plain, Guarded, Save, SetDlab, Restore
  <2>2. New = Old
    BY <2>1, NewRegisters
  <2>3. ASSUME call.reg \in M!Latched PROVE Registers(at - 1)[call.reg] = Old[call.reg]
    <3>1. CASE call.reg = "lc"
      <4>1. Plain /\ ~Guarded /\ at - 1 = 0
        BY <2>1, <3>1 DEF Guarded, Below, Above
      <4> QED BY <2>1, <2>3, <3>1, <4>1 DEF Registers, LCAfter
    <3>2. CASE call.reg # "lc"
      BY <2>2, <2>3, <3>2 DEF Registers
    <3> QED BY <3>1, <3>2
  <2> QED BY <2>1, <2>3
<1>2. CASE Current # Main
  <2>1. Current = Save /\ at = 1 /\ ~Plain
    BY <1>2, AccessCases DEF Plain, Guarded, SetDlab, Restore
  <2>2. Registers(0)["lc"] = Old["lc"]
    BY <2>1, Programs DEF Registers, LCAfter, M!Latched
  <2> QED BY <2>1, <2>2 DEF Save
<1> QED BY <1>1, <1>2

\* At its last access a call has done all that RegisterMap asks of it.
LEMMA CallReturns ==
  ASSUME call \in M!Call, at \in 1 .. Len(Program(call)), at = Len(Program(call)), Old \in Bank
  PROVE  Registers(at) = New /\ Count(at) = Len(M!Intended(call))
<1>1. CASE Plain
  <2>1. at = 1 /\ call.op \in {"get", "set"} /\ ~Guarded
    BY <1>1, Programs DEF Plain, Guarded
  <2>2. \A r \in M!Latched : Registers(at)[r] = New[r]
    BY <2>1 DEF Registers, LCAfter, Turn
  <2>3. Registers(at) = New
    BY <2>2, NewRegisters DEF Registers, Bank
  <2> QED BY <2>1, <2>3 DEF Count, M!Intended
<1>2. CASE Guarded
  <2>1. at = 4 /\ call.op \in {"get", "set"} /\ call.reg # "lc"
    BY <1>2, Programs DEF Guarded, Below, Above
  <2>2. New["lc"] = Old["lc"]
    <3>1. CASE call.op = "get"
      BY <3>1, NewRegisters
    <3>2. CASE call.op = "set"
      BY <2>1, <3>2, NewRegisters DEF Bank, M!Latched
    <3> QED BY <2>1, <3>1, <3>2
  <2>3. \A r \in M!Latched : Registers(at)[r] = New[r]
    BY <1>2, <2>1, <2>2 DEF Registers, LCAfter, Turn
  <2>4. Registers(at) = New
    BY <2>3, NewRegisters DEF Registers, Bank
  <2> QED BY <1>2, <2>1, <2>4 DEF Count, M!Intended
<1>3. CASE call.op = "init"
  <2>1. at = 7
    BY <1>3, AccessCases DEF Plain, Guarded
  <2>2. \A r \in M!Latched : Registers(at)[r] = New[r]
    BY <1>3, <2>1, NewRegisters DEF Registers, LCAfter, Turn
  <2>3. Registers(at) = New
    BY <2>2, NewRegisters DEF Registers, Bank
  <2> QED BY <1>3, <2>1, <2>3 DEF Count, M!Intended
<1> QED BY <1>1, <1>2, <1>3, Programs

(***************************************************************************)
(* The invariant is inductive: one lemma per step of the two processes.     *)
(***************************************************************************)

\* A call is never the value that stands for none.
LEMMA CallIsNotNoCall == \A k \in M!Call : k # NoCall /\ k.op # "none"
BY DEF M!Call, NoCall, M!NoCall

LEMMA NothingIsNoMessage == \A m \in Message : m # Nothing
<1> SUFFICES ASSUME NEW m \in Message, m = Nothing PROVE FALSE
  OBVIOUS
<1>1. m.req = -1 /\ m.req \in 0 .. ReqModulus - 1
  BY DEF Message, Nothing
<1> QED BY <1>1, RegisterAccessAssumption

\* Every program has an access.
LEMMA ProgramNotEmpty == \A k \in M!Call : Len(Program(k)) \in 1 .. 7
<1> TAKE k \in M!Call
<1>1. k.op \in {"get", "set", "init"}
  BY DEF M!Call
<1>2. CASE k.op = "init"
  BY <1>2 DEF Program
<1>3. ASSUME NEW r, NEW a PROVE Len(Around(r, a)) \in {1, 4}
  BY DEF Around
<1>4. CASE k.op = "get"
  BY <1>3, <1>4 DEF Program
<1>5. CASE k.op = "set"
  BY <1>3, <1>5 DEF Program
<1> QED BY <1>1, <1>2, <1>4, <1>5

\* Before its first access a call has changed nothing.
LEMMA NothingYet ==
  ASSUME Old \in Bank
  PROVE  Registers(0) = Old /\ Count(0) = 0
<1>1. \A r \in M!Latched : Registers(0)[r] = Old[r]
  BY DEF Registers, LCAfter, Turn
<1>2. Registers(0) = Old
  BY <1>1 DEF Registers, Bank
<1> QED BY <1>2 DEF Count

\* The UARTs lie 32 addresses apart: base and offset are found again.
LEMMA AddressSplits ==
  ASSUME NEW b \in Base, NEW a \in 0 .. 31
  PROVE  b + a \in Nat /\ Instance(b + a) = b /\ (b + a) % 32 = a
BY RegisterAccessAssumption DEF Instance

LEMMA AccessInvInit == Init => AccessInv
<1> SUFFICES ASSUME Init PROVE AccessInv
  OBVIOUS
<1>1. \A r \in M!Latched : M!Power[r] \in Bytes
  BY DEF M!Power, M!Latched, Bytes
<1>2. Power \in [Base -> Bank]
  BY <1>1 DEF Power, Bank, M!Power
<1>3. TypeOK
  <2>1. /\ c \in Starting \cup {"idle", "send", "wait", "exited", "aborted"}
        /\ v \in {"open c2v", "open v2c", "serve", "finished"}
        /\ fifos \subseteq {"c2v", "v2c"} /\ c2v = Nothing /\ v2c = Nothing
    BY DEF Init, Starting
  <2>2. /\ req \in 0 .. ReqModulus - 1 /\ ack \in 0 .. ReqModulus - 1
        /\ base \in Base /\ at \in 1 .. 7 /\ saved \in Bytes /\ reply \in Bytes
    <3>1. 0 \in 0 .. ReqModulus - 1 /\ 0 \in Bytes /\ 1 \in 1 .. 7
      BY RegisterAccessAssumption DEF Bytes
    <3> QED BY <3>1, RegisterAccessAssumption DEF Init
  <2>3. latch \in [Base -> Bank] /\ before \in [Base -> Bank]
    BY <1>2 DEF Init
  <2>4. call \in Calls \cup {NoCall} /\ touched \in Seq(Base \X DOMAIN Address)
    <3>1. call \in Calls \cup {NoCall}
      BY Zenon DEF Init
    <3>2. touched \in Seq(Base \X DOMAIN Address)
      <4>1. touched = <<>>
        BY DEF Init
      <4>2. \A S : <<>> \in Seq(S)
        OBVIOUS
      <4> QED BY <4>1, <4>2
    <3> QED BY <3>1, <3>2
  <2> QED BY <2>1, <2>2, <2>3, <2>4 DEF TypeOK, Bank
<1>4. StartInv
  BY DEF Init, StartInv
<1>5. PipeInv
  BY DEF Init, PipeInv
<1>6. CallInv /\ ReplyInv
  BY DEF Init, CallInv, ReplyInv, InCall
<1> QED BY <1>3, <1>4, <1>5, <1>6 DEF AccessInv

\* What the invariant says of a call in progress.
LEMMA InCallFacts ==
  ASSUME AccessInv, InCall
  PROVE  /\ call \in M!Call /\ call # NoCall
         /\ at \in 1 .. Len(Program(call))
         /\ before \in [Base -> Bank] /\ base \in Base /\ Old \in Bank
         /\ SavedInv
BY RegisterAccessAssumption, CallIsNotNoCall
   DEF AccessInv, TypeOK, CallInv, SavedInv, Old, Bank

\* The start of the two processes.
LEMMA StartKeepsInv ==
  ASSUME AccessInv, MakePipes \/ MeetAtC2V \/ MeetAtV2C
  PROVE  AccessInv'
<1>1. /\ c' \in {"mkfifo", "open c2v", "open v2c", "idle"}
      /\ c \in {"mkfifo", "open c2v", "open v2c"}
      /\ UNCHANGED <<c2v, v2c, req, ack, software, hardware>>
      /\ v' \in {"open c2v", "open v2c", "serve", "finished"}
      /\ fifos' \subseteq {"c2v", "v2c"}
      /\ StartInv'
  <2>1. CASE MakePipes
    BY <2>1 DEF MakePipes, AccessInv, TypeOK, StartInv
  <2>2. CASE MeetAtC2V
    BY <2>2 DEF MeetAtC2V, AccessInv, TypeOK, StartInv, pipes
  <2>3. CASE MeetAtV2C
    BY <2>3 DEF MeetAtV2C, AccessInv, TypeOK, StartInv, pipes, Starting
  <2> QED BY <2>1, <2>2, <2>3
<1>2. TypeOK'
  BY <1>1 DEF AccessInv, TypeOK, software, hardware, Starting, Message, NoCall
<1>3. PipeInv'
  BY <1>1 DEF AccessInv, PipeInv
<1>4. CallInv' /\ ReplyInv'
  BY <1>1 DEF AccessInv, CallInv, ReplyInv, InCall, software
<1> QED BY <1>1, <1>2, <1>3, <1>4 DEF AccessInv

LEMMA SetBaseKeepsInv ==
  ASSUME AccessInv, NEW b \in Base, SetBase(b)
  PROVE  AccessInv'
<1> USE DEF SetBase, pipes
<1>1. TypeOK'
  BY DEF AccessInv, TypeOK, hardware, Message, NoCall
<1>2. StartInv' /\ PipeInv'
  BY DEF AccessInv, StartInv, PipeInv
<1>3. CallInv' /\ ReplyInv'
  BY DEF AccessInv, CallInv, ReplyInv, InCall
<1> QED BY <1>1, <1>2, <1>3 DEF AccessInv

LEMMA FinishKeepsInv ==
  ASSUME AccessInv, Finish
  PROVE  AccessInv'
<1> USE DEF Finish
<1>1. c2v' \in Message /\ c2v' # Nothing
  <2>1. req \in 0 .. ReqModulus - 1
    BY DEF AccessInv, TypeOK
  <2>2. c2v' \in Message
    BY <2>1 DEF Message, Bytes
  <2> QED BY <2>2, NothingIsNoMessage
<1>2. TypeOK'
  BY <1>1 DEF AccessInv, TypeOK, software, hardware, Message, NoCall
<1>3. StartInv' /\ PipeInv'
  BY <1>1 DEF AccessInv, StartInv, PipeInv
<1>4. CallInv' /\ ReplyInv'
  BY DEF AccessInv, CallInv, ReplyInv, InCall, software
<1> QED BY <1>2, <1>3, <1>4 DEF AccessInv

\* A call begins with nothing done.
LEMMA EnterKeepsInv ==
  ASSUME AccessInv, NEW k \in Calls, Enter(k)
  PROVE  AccessInv'
<1> USE DEF Enter
<1>1. /\ c = "idle" /\ v2c = Nothing /\ c2v = Nothing /\ ack = req /\ v = "serve"
      /\ latch \in [Base -> Bank] /\ base \in Base
  BY DEF AccessInv, TypeOK, PipeInv, StartInv, Bank
<1>2. /\ c' = "send" /\ v2c' = Nothing /\ call' = k /\ at' = 1 /\ reply' = 0
      /\ base' = base /\ latch' = latch /\ before' = latch /\ touched' = <<>>
  BY <1>1 DEF pipes
<1>3. k \in M!Call /\ Len(Program(k)) \in 1 .. 7
  BY RegisterAccessAssumption, ProgramNotEmpty
<1>4. TypeOK'
  <2>1. 0 \in Bytes /\ 1 \in 1 .. 7
    BY DEF Bytes
  <2>2. \A S : <<>> \in Seq(S)
    OBVIOUS
  <2>3. UNCHANGED <<v, fifos, c2v, v2c, req, ack, base, saved, latch>>
    BY DEF pipes
  <2>4. call' \in Calls \cup {NoCall} /\ c' \in {"send"}
    BY <1>2
  <2>5. touched' \in Seq(Base \X DOMAIN Address)
    BY <1>2, <2>2
  <2> QED BY <1>2, <2>1, <2>3, <2>4, <2>5 DEF AccessInv, TypeOK, Message
<1>5. StartInv' /\ PipeInv'
  BY <1>1, <1>2 DEF pipes, AccessInv, StartInv, PipeInv
<1>6. CallInv' /\ ReplyInv'
  <2>1. Served' = 0
    BY <1>2 DEF Served
  <2>2. Old' \in Bank /\ Old' = latch[base]
    BY <1>1, <1>2 DEF Old
  <2>3. Registers(0)' = Old'
    <3>1. \A r \in M!Latched : Registers(0)'[r] = Old'[r]
      BY DEF Registers, LCAfter, Turn
    <3> QED BY <2>2, <3>1 DEF Registers, Bank
  <2>4. latch' = [before EXCEPT ![base] = Registers(Served)]'
    BY <1>1, <1>2, <2>1, <2>2, <2>3 DEF Registers, LCAfter, Turn, Guarded, Old, New, Prepared
  <2>5. touched' = Trace(Count(Served))'
    <3>1. Count(Served)' = 0
      BY <2>1 DEF Count
    <3> QED BY <1>2, <3>1 DEF Trace
  <2>6. InCall' /\ call' \in Calls /\ ~(at' > 1) /\ ~(at' > 3)
    BY <1>2 DEF InCall
  <2>7. (at \in 1 .. Len(Program(call)))'
    BY <1>2, <1>3
  <2>8. CallInv'
    BY <2>4, <2>5, <2>6, <2>7 DEF CallInv
  <2>9. ReplyInv'
    BY <1>2, <2>6 DEF ReplyInv
  <2> QED BY <2>8, <2>9
<1> QED BY <1>4, <1>5, <1>6 DEF AccessInv

\* The request is well formed.
LEMMA RequestIsMessage ==
  ASSUME AccessInv, InCall
  PROVE  /\ Request \in Message /\ Request # Nothing
         /\ Address[Current.reg] \in 0 .. 31
         /\ Request.mode = Current.mode /\ Request.mode \in {"R", "W"}
         /\ Request.data = IF Current.mode = "W" THEN ToWrite(Current) ELSE 0
<1>1. /\ call \in M!Call /\ at \in 1 .. Len(Program(call))
      /\ Old \in Bank /\ SavedInv /\ base \in Base
  BY InCallFacts
<1>2. Current.reg \in DOMAIN Address /\ Current.mode \in {"R", "W"}
  BY <1>1, ReachesItsRegister
<1>3. Address[Current.reg] \in 0 .. 31
  BY <1>2 DEF Address
<1>4. base + Address[Current.reg] \in Nat
  BY <1>1, <1>3, AddressSplits
<1>5. Current.mode = "W" => ToWrite(Current) \in Bytes
  BY <1>1, Writes
<1>6. req \in 0 .. ReqModulus - 1
  BY DEF AccessInv, TypeOK
<1>7. 0 \in Bytes
  BY DEF Bytes
<1>8. Request = [req |-> req, mode |-> Current.mode,
                 address |-> base + Address[Current.reg],
                 data |-> IF Current.mode = "W" THEN ToWrite(Current) ELSE 0]
  BY DEF Request, Current
<1>9. Request \in Message
  <2>1. (IF Current.mode = "W" THEN ToWrite(Current) ELSE 0) \in Bytes
    BY <1>5, <1>7
  <2> QED BY <1>2, <1>4, <1>6, <1>8, <2>1 DEF Message
<1> QED BY <1>2, <1>3, <1>8, <1>9, NothingIsNoMessage

LEMMA SendKeepsInv ==
  ASSUME AccessInv, Send
  PROVE  AccessInv'
<1>1. /\ c = "send" /\ c' = "wait" /\ InCall /\ v2c = Nothing /\ ack = req
      /\ UNCHANGED <<v, fifos, v2c, req, ack, base, call, at, saved, reply, latch, before, touched>>
  BY DEF Send, software, hardware, AccessInv, PipeInv, InCall
<1>2. c2v' = Request
  BY DEF Send, Request
<1>3. c2v' \in Message
  BY <1>1, <1>2, RequestIsMessage
<1>4. TypeOK'
  BY <1>1, <1>3 DEF AccessInv, TypeOK, Message, NoCall
<1>5. StartInv'
  BY <1>1 DEF AccessInv, StartInv
<1>6. PipeInv'
  <2>1. Request' = Request
    BY <1>1 DEF Request, ToWrite
  <2> QED BY <1>1, <1>2, <2>1 DEF PipeInv, Requested
<1>7. CallInv' /\ ReplyInv'
  <2>1. Served' = Served
    BY <1>1 DEF Served
  <2>2. Registers(Served)' = Registers(Served) /\ Count(Served)' = Count(Served)
    BY <1>1, <2>1 DEF Registers, LCAfter, Turn, Guarded, Old, New, Prepared, Count
  <2>3. Trace(Count(Served))' = Trace(Count(Served))
    BY <1>1, <2>2 DEF Trace
  <2>4. Old' = Old /\ Plain' = Plain /\ Guarded' = Guarded /\ InCall' = InCall
    BY <1>1 DEF Old, Plain, Guarded, InCall
  <2>5. M!Answer(call)' = M!Answer(call)
    BY <1>1 DEF M!Answer
  <2>6. CallInv'
    BY <1>1, <2>2, <2>3, <2>4 DEF AccessInv, CallInv
  <2> QED BY <1>1, <2>4, <2>5, <2>6 DEF AccessInv, ReplyInv
<1> QED BY <1>4, <1>5, <1>6, <1>7 DEF AccessInv

\* A reply moves the call on, or ends it.
LEMMA ReceiveKeepsInv ==
  ASSUME AccessInv, Receive
  PROVE  AccessInv'
<1>1. /\ c = "wait" /\ InCall /\ v2c # Nothing /\ v2c \in Message
      /\ c2v = Nothing /\ Matches(v2c) /\ ack = (req + 1) % ReqModulus
  BY DEF Receive, InCall, AccessInv, TypeOK, PipeInv, Requested, Answered
<1>2. /\ call \in M!Call /\ at \in 1 .. Len(Program(call)) /\ Len(Program(call)) \in 1 .. 7
      /\ Old \in Bank /\ SavedInv /\ call \in Calls /\ call # NoCall
  BY <1>1, InCallFacts, ProgramNotEmpty DEF AccessInv, CallInv
<1>3. /\ v2c' = Nothing /\ req' = (req + 1) % ReqModulus
      /\ saved' = IF Current.value = "save" THEN v2c.data ELSE saved
      /\ reply' = IF Current.value = "reply" THEN v2c.data ELSE reply
      /\ UNCHANGED <<v, fifos, c2v, ack, base, latch, before, touched>>
  BY <1>1 DEF Receive, hardware, Current
<1>4. \/ at < Len(Program(call)) /\ at' = at + 1 /\ c' = "send" /\ call' = call
      \/ at = Len(Program(call)) /\ at' = 1 /\ c' = "idle" /\ call' = NoCall
  BY <1>1, <1>2 DEF Receive
<1>5. TypeOK'
  <2>1. v2c.data \in Bytes
    BY <1>1 DEF Message
  <2>2. saved' \in Bytes /\ reply' \in Bytes
    BY <1>3, <2>1 DEF AccessInv, TypeOK
  <2>3. req' \in 0 .. ReqModulus - 1
    <3>1. req' = ack
      BY <1>1, <1>3
    <3> QED BY <3>1 DEF AccessInv, TypeOK
  <2>4. at' \in 1 .. 7 /\ call' \in Calls \cup {NoCall}
    <3>1. at' \in 1 .. 7
      <4> DEFINE n == Len(Program(call))
      <4>1. at \in 1 .. n /\ n \in 1 .. 7
        BY <1>2
      <4>2. at' = 1 \/ (at < n /\ at' = at + 1)
        BY <1>4
      <4> HIDE DEF n
      <4> QED BY <4>1, <4>2
    <3>2. call' \in Calls \cup {NoCall}
      BY <1>2, <1>4, Zenon
    <3> QED BY <3>1, <3>2
  <2>5. c' \in {"idle", "send"}
    BY <1>4
  <2> QED BY <1>3, <2>2, <2>3, <2>4, <2>5 DEF AccessInv, TypeOK, Message, NoCall
<1>6. StartInv' /\ PipeInv'
  BY <1>1, <1>3, <1>4 DEF AccessInv, StartInv, PipeInv
<1>7. CASE c' = "idle"
  <2>1. at' = 1 /\ call' = NoCall
    BY <1>4, <1>7
  <2> QED BY <1>5, <1>6, <1>7, <2>1 DEF AccessInv, CallInv, ReplyInv, InCall, NoCall
<1>8. CASE c' = "send"
  <2>1. at < Len(Program(call)) /\ at' = at + 1 /\ call' = call
    BY <1>4, <1>8
  <2>2. Served = at /\ Served' = at
    BY <1>1, <1>2, <1>8, <2>1 DEF Served
  <2>3. Registers(Served)' = Registers(Served) /\ Count(Served)' = Count(Served)
    BY <1>3, <2>1, <2>2 DEF Registers, LCAfter, Turn, Guarded, Old, New, Prepared, Count
  <2>4. Trace(Count(Served))' = Trace(Count(Served))
    BY <1>3, <2>1, <2>3 DEF Trace
  <2>5. Old' = Old /\ Plain' = Plain /\ Guarded' = Guarded /\ InCall' = InCall
    BY <1>1, <1>3, <1>8, <2>1 DEF Old, Plain, Guarded, InCall
  <2>6. M!Answer(call)' = M!Answer(call)
    BY <1>2, <1>3, <2>1, CallIsNotNoCall DEF M!Answer
  <2>7. /\ Current.value = "save" => v2c.data = Old["lc"]
        /\ Current.value = "reply" => v2c.data \in M!Answer(call)
    BY <1>1 DEF AccessInv, ReplyInv, Current
  <2>8. ~Plain => saved' = Old["lc"]
    <3>1. ~Plain /\ at = 1 => Current.value = "save"
      BY <1>2, AccessCases DEF Save, Access, Current
    <3> QED BY <1>2, <1>3, <2>7, <3>1 DEF SavedInv
  <2>9. CallInv'
    <3>1. (at \in 1 .. Len(Program(call)))'
      BY <1>2, <2>1
    <3> QED BY <1>1, <1>2, <1>3, <2>1, <2>3, <2>4, <2>5, <2>8, <3>1 DEF AccessInv, CallInv
  <2>10. ReplyInv'
    <3>1. Current.value = "reply" => call.op = "get"
      BY <1>2, AccessCases, CallKinds
         DEF Current, Access, Save, SetDlab, Restore, Main, Plain, Guarded
    <3>2. call.op # "get" => reply' = 0
      BY <1>1, <1>3, <3>1 DEF AccessInv, ReplyInv
    <3>3. ASSUME Guarded, call.op = "get", at + 1 > 3 PROVE reply' \in M!Answer(call)
      <4>1. at = 3 => Current.value = "reply"
        BY <1>2, <3>3, AccessCases DEF Current, Access, Main, Plain, Guarded
      <4> QED BY <1>1, <1>2, <1>3, <2>7, <3>3, <4>1 DEF AccessInv, ReplyInv
    <3> QED BY <1>8, <2>1, <2>5, <2>6, <3>2, <3>3 DEF ReplyInv
  <2> QED BY <1>5, <1>6, <2>9, <2>10 DEF AccessInv
<1> QED BY <1>4, <1>7, <1>8

\* The simulator finds the register the program names, in the selected UART.
LEMMA RequestIsDecoded ==
  ASSUME AccessInv, c = "wait", Requested
  PROVE  /\ Instance(c2v.address) = base
         /\ Decode(c2v.address % 32, c2v.mode, latch[base]["lc"] >= 128) = Current.reg
         /\ c2v.mode = Current.mode /\ c2v.req = req
         /\ latch[base] = Registers(at - 1) /\ Served = at - 1
         /\ Current.reg \in DOMAIN Address
<1>1. InCall
  BY DEF InCall
<1>2. /\ call \in M!Call /\ at \in 1 .. Len(Program(call)) /\ Old \in Bank
      /\ base \in Base /\ before \in [Base -> Bank]
  BY <1>1, InCallFacts
<1>3. Served = at - 1
  BY DEF Requested, Served
<1>4. latch = [before EXCEPT ![base] = Registers(at - 1)]
  BY <1>1, <1>3 DEF AccessInv, CallInv
<1>5. latch[base] = Registers(at - 1)
  BY <1>2, <1>4
<1>6. c2v = Request
  BY DEF Requested
<1>7. /\ c2v.mode = Current.mode /\ c2v.req = req
      /\ c2v.address = base + Address[Current.reg]
  BY <1>6 DEF Request, Current
<1>8. Address[Current.reg] \in 0 .. 31
  BY <1>1, RequestIsMessage
<1>9. Instance(c2v.address) = base /\ c2v.address % 32 = Address[Current.reg]
  BY <1>2, <1>7, <1>8, AddressSplits
<1>10. /\ Current.reg \in DOMAIN Address
       /\ Decode(Address[Current.reg], Current.mode, Registers(at - 1)["lc"] >= 128) = Current.reg
  BY <1>2, ReachesItsRegister
<1> QED BY <1>3, <1>5, <1>7, <1>9, <1>10

\* What the access reads is what the call is to return.
LEMMA ReadsItsRegister ==
  ASSUME AccessInv, c = "wait", Requested, Current.mode = "R",
         NEW data \in Readable(base, Current.reg)
  PROVE  /\ data \in Bytes
         /\ Current.value = "save" => data = Old["lc"]
         /\ Current.value = "reply" => data \in M!Answer(call)
<1>1. InCall /\ latch[base] = Registers(at - 1)
  BY RequestIsDecoded DEF InCall
<1>2. /\ call \in M!Call /\ at \in 1 .. Len(Program(call)) /\ Old \in Bank
      /\ base \in Base /\ call.op # "none"
  BY <1>1, InCallFacts, CallIsNotNoCall
<1>3. CASE /\ Current.value = "save" /\ Current.reg = "lc"
           /\ Registers(at - 1)["lc"] = Old["lc"]
  <2>1. data = Old["lc"]
    BY <1>1, <1>3 DEF Readable, M!Latched
  <2>2. Old["lc"] \in Bytes
    BY <1>2 DEF Bank, M!Latched
  <2> QED BY <1>3, <2>1, <2>2
<1>4. CASE /\ Current.value = "reply" /\ Current.reg = call.reg /\ call.op = "get"
           /\ call.reg \in M!Latched => Registers(at - 1)[call.reg] = Old[call.reg]
  <2>1. M!Answer(call) = IF call.reg \in M!Latched THEN {Old[call.reg]}
                         ELSE IF call.reg \in {"db1", "db2"} THEN {0} ELSE Byte
    BY <1>2, <1>4 DEF M!Answer, Old
  <2>2. CASE call.reg \in M!Latched
    <3>1. data = Old[call.reg]
      BY <1>1, <1>4, <2>2 DEF Readable
    <3> QED BY <1>2, <1>4, <2>1, <2>2, <3>1 DEF Bank
  <2>3. CASE call.reg \notin M!Latched
    <3>1. call.reg \in {"rb", "ii", "ls", "ms", "db1", "db2"}
      BY <1>2, <1>4, <2>3, CallKinds DEF M!Getter, M!Latched
    <3>2. data \in IF call.reg \in {"rb", "ii", "ls", "ms"} THEN Byte ELSE {0}
      BY <1>4, <2>3 DEF Readable
    <3>3. Byte \subseteq Bytes /\ 0 \in Bytes
      BY RegisterAccessAssumption DEF Bytes
    <3> QED BY <1>4, <2>1, <2>3, <3>1, <3>2, <3>3
  <2> QED BY <2>2, <2>3
<1> QED BY <1>2, <1>3, <1>4, Reads

\* The simulator serves the request of the access the call has come to.
LEMMA ServeKeepsInv ==
  ASSUME AccessInv, Serve
  PROVE  AccessInv'
<1>1. /\ v = "serve" /\ c2v # Nothing /\ c2v' = Nothing
      /\ UNCHANGED <<c, fifos, req, base, call, at, saved, reply, before>>
  BY DEF Serve, software
<1>2. c \in {"wait", "exited"}
  BY <1>1 DEF AccessInv, PipeInv, TypeOK
<1>3. CASE c = "exited"
  <2>1. /\ v' = "finished" /\ UNCHANGED <<v2c, ack, latch, touched>>
    BY <1>1, <1>3 DEF Serve, AccessInv, PipeInv
  <2>2. TypeOK'
    BY <1>1, <2>1 DEF AccessInv, TypeOK, Message, NoCall
  <2>3. StartInv' /\ PipeInv'
    BY <1>1, <1>3, <2>1 DEF AccessInv, StartInv, PipeInv
  <2>4. CallInv' /\ ReplyInv'
    BY <1>1, <1>3, <2>1 DEF AccessInv, CallInv, ReplyInv, InCall
  <2> QED BY <2>2, <2>3, <2>4 DEF AccessInv
<1>4. CASE c = "wait"
  <2>1. Requested /\ InCall /\ InCall'
    BY <1>1, <1>4 DEF AccessInv, PipeInv, Answered, InCall
  <2>2. /\ call \in M!Call /\ at \in 1 .. Len(Program(call)) /\ Old \in Bank /\ SavedInv
        /\ base \in Base /\ before \in [Base -> Bank]
    BY <2>1, InCallFacts
  <2>3. /\ Instance(c2v.address) = base
        /\ Decode(c2v.address % 32, c2v.mode, latch[base]["lc"] >= 128) = Current.reg
        /\ c2v.mode = Current.mode /\ c2v.req = req
        /\ latch[base] = Registers(at - 1) /\ Served = at - 1
        /\ Current.reg \in DOMAIN Address
    BY <1>4, <2>1, RequestIsDecoded
  <2>4. /\ c2v = Request /\ Request \in Message /\ Request.mode \in {"R", "W"}
        /\ Request.data = IF Current.mode = "W" THEN ToWrite(Current) ELSE 0
        /\ ack = req
    BY <2>1, RequestIsMessage DEF Requested
  <2>5. PICK data \in IF c2v.mode = "W" THEN {c2v.data} ELSE Readable(base, Current.reg) :
          Perform(base, Current.reg, c2v, data)
    BY <1>1, <2>3, <2>4 DEF Serve
  <2>6. ack' = (req + 1) % ReqModulus /\ UNCHANGED v
    BY <1>1, <2>3, <2>4 DEF Serve, NextAck
  <2>7. /\ data \in Bytes
        /\ Current.mode = "W" => data = ToWrite(Current)
    BY <1>4, <2>1, <2>3, <2>4, <2>5, ReadsItsRegister DEF Message
  <2>8. /\ touched' = IF Current.reg = "lc" THEN touched
                      ELSE Append(touched, <<base, Current.reg>>)
        /\ v2c' = [c2v EXCEPT !.data = data]
        /\ latch' = IF Current.mode = "W" /\ Current.reg \in M!Latched
                    THEN [latch EXCEPT ![base][Current.reg] = M!Kept(Current.reg, data)]
                    ELSE latch
    BY <2>3, <2>5 DEF Perform
  <2>9. v2c' \in Message /\ v2c' # Nothing
    <3>1. v2c' \in Message
      BY <2>4, <2>7, <2>8 DEF Message
    <3> QED BY <3>1, NothingIsNoMessage
  <2>10. latch' = [before EXCEPT ![base] = Registers(at)]
    <3>1. latch = [before EXCEPT ![base] = Registers(at - 1)]
      BY <2>1, <2>3 DEF AccessInv, CallInv
    <3>2. Registers(at) = IF Current.mode = "W" /\ Current.reg \in M!Latched
                          THEN [Registers(at - 1) EXCEPT
                                  ![Current.reg] = M!Kept(Current.reg, ToWrite(Current))]
                          ELSE Registers(at - 1)
      BY <2>2, ActsOnItsRegister
    <3> QED BY <2>2, <2>7, <2>8, <3>1, <3>2
  <2>11. Registers(at)' = Registers(at) /\ Count(at)' = Count(at)
    BY <1>1 DEF Registers, LCAfter, Turn, Guarded, Old, New, Prepared, Count
  <2>12. Served' = at
    BY <1>1, <1>4, <2>9 DEF Served
  <2>13. touched' = Trace(Count(at))
    <3>1. touched = Trace(Count(at - 1))
      BY <2>1, <2>3 DEF AccessInv, CallInv
    <3> QED BY <2>2, <2>8, <3>1, ReachedInOrder, TraceGrows
  <2>14. TypeOK'
    <3>1. ack' \in 0 .. ReqModulus - 1
      <4>1. req \in 0 .. ReqModulus - 1
        BY DEF AccessInv, TypeOK
      <4> QED BY <2>6, <4>1, RegisterAccessAssumption
    <3>2. latch' \in [Base -> Bank]
      <4>1. M!Kept(Current.reg, data) \in Bytes
        BY <2>7 DEF M!Kept, Bytes
      <4> QED BY <2>2, <2>8, <4>1 DEF AccessInv, TypeOK, Bank
    <3>3. touched' \in Seq(Base \X DOMAIN Address)
      <4>1. <<base, Current.reg>> \in Base \X DOMAIN Address
        BY <2>2, <2>3
      <4>2. touched \in Seq(Base \X DOMAIN Address)
        BY DEF AccessInv, TypeOK
      <4>3. ASSUME NEW S, NEW s \in Seq(S), NEW e \in S PROVE Append(s, e) \in Seq(S)
        OBVIOUS
      <4> QED BY <2>8, <4>1, <4>2, <4>3, Zenon
    <3> QED BY <1>1, <2>6, <2>9, <3>1, <3>2, <3>3 DEF AccessInv, TypeOK, NoCall, Bank
  <2>15. StartInv'
    BY <1>1, <1>4, <2>6 DEF AccessInv, StartInv
  <2>16. PipeInv'
    <3>1. Matches(v2c)'
      <4>1. /\ v2c'.req = req /\ v2c'.mode = Program(call)[at].mode
            /\ v2c'.address = base + Address[Program(call)[at].reg]
            /\ v2c'.data = data
        BY <2>4, <2>8 DEF Request
      <4> QED BY <1>1, <2>7, <4>1 DEF Matches, Current, ToWrite
    <3> QED BY <1>1, <1>4, <2>6, <2>9, <3>1 DEF PipeInv, Answered
  <2>17. CallInv'
    <3>1. Trace(Count(Served))' = Trace(Count(at))
      BY <1>1, <2>11, <2>12 DEF Trace
    <3>2. Registers(Served)' = Registers(at)
      BY <1>1, <2>11, <2>12 DEF Registers, LCAfter, Turn, Guarded, Old, New, Prepared
    <3>3. Old' = Old /\ Plain' = Plain
      BY <1>1 DEF Old, Plain
    <3> QED BY <1>1, <2>1, <2>10, <2>13, <3>1, <3>2, <3>3 DEF AccessInv, CallInv
  <2>18. ReplyInv'
    <3>1. Current.value \in {"save", "reply"} => Current.mode = "R"
      BY <2>2, AccessCases DEF Current, Access, Save, SetDlab, Restore, Main
    <3>2. v2c'.data = data
      BY <2>4, <2>8 DEF Message
    <3>3. /\ Current.value = "save" => data = Old["lc"]
          /\ Current.value = "reply" => data \in M!Answer(call)
      BY <1>4, <2>1, <2>3, <2>5, <3>1, ReadsItsRegister
    <3>4. Old' = Old /\ Guarded' = Guarded /\ M!Answer(call)' = M!Answer(call)
      BY <1>1, <2>2, CallIsNotNoCall DEF Old, Guarded, M!Answer
    <3> QED BY <1>1, <2>1, <3>2, <3>3, <3>4 DEF AccessInv, ReplyInv, Current
  <2> QED BY <2>14, <2>15, <2>16, <2>17, <2>18 DEF AccessInv
<1> QED BY <1>2, <1>3, <1>4

LEMMA AccessInvNext == AccessInv /\ [Next]_vars => AccessInv'
<1> SUFFICES ASSUME AccessInv, [Next]_vars PROVE AccessInv'
  OBVIOUS
<1>1. CASE UNCHANGED vars
  <2>1. UNCHANGED <<c, v, fifos, c2v, v2c, req, ack, base, call, at, saved, reply,
                    latch, before, touched>>
    BY <1>1 DEF vars, pipes, software, hardware
  <2>2. TypeOK'
    BY <2>1 DEF AccessInv, TypeOK, Message, NoCall
  <2>3. StartInv' /\ PipeInv'
    BY <2>1 DEF AccessInv, StartInv, PipeInv, Requested, Answered, Request, Matches, ToWrite
  <2>4. Served' = Served
    BY <2>1 DEF Served
  <2>5. Registers(Served)' = Registers(Served) /\ Count(Served)' = Count(Served)
    BY <2>1, <2>4 DEF Registers, LCAfter, Turn, Guarded, Old, New, Prepared, Count
  <2>6. Trace(Count(Served))' = Trace(Count(Served))
    BY <2>1, <2>5 DEF Trace
  <2>7. CallInv'
    BY <2>1, <2>5, <2>6 DEF AccessInv, CallInv, InCall, Old, Plain
  <2>8. ReplyInv'
    <3>1. InCall => M!Answer(call)' = M!Answer(call)
      BY <2>1, InCallFacts, CallIsNotNoCall DEF M!Answer
    <3> QED BY <2>1, <3>1 DEF AccessInv, ReplyInv, InCall, Old, Guarded
  <2> QED BY <2>2, <2>3, <2>7, <2>8 DEF AccessInv
<1>2. CASE Progress
  BY <1>2, StartKeepsInv, SendKeepsInv, ReceiveKeepsInv, ServeKeepsInv DEF Progress
<1>3. ASSUME NEW b \in Base, SetBase(b) PROVE AccessInv'
  BY <1>3, SetBaseKeepsInv
<1>4. ASSUME NEW k \in Calls, Enter(k) PROVE AccessInv'
  BY <1>4, EnterKeepsInv
<1>5. CASE Finish
  BY <1>5, FinishKeepsInv
<1> QED BY <1>1, <1>2, <1>3, <1>4, <1>5 DEF Next

(***************************************************************************)
(* The theorems.                                                            *)
(***************************************************************************)

\* The counters, the copy of LC and the registers stay in range, for any base
\* addresses and any bytes: every message is a request or a reply.
THEOREM TypeCorrect == Spec => []TypeOK
<1>1. AccessInv => TypeOK
  BY DEF AccessInv
<1> QED BY <1>1, AccessInvInit, AccessInvNext, PTL DEF Spec

\* Neither process exits because of a reply that is not the one it asked for,
\* a request out of turn, or a pipe that is not there, for every number of
\* values of the request counters but one.
THEOREM NeverAbortsAlways == Spec => []NeverAborts
<1>1. AccessInv => NeverAborts
  BY DEF AccessInv, StartInv, NeverAborts
<1> QED BY <1>1, AccessInvInit, AccessInvNext, PTL DEF Spec

\* A call that returns has done what RegisterMap says.
LEMMA LastReplyReturns ==
  ASSUME AccessInv, Receive, at = Len(Program(call))
  PROVE  M!Return
<1>1. /\ c = "wait" /\ InCall /\ v2c # Nothing
      /\ Matches(v2c) /\ Served = at
  BY DEF Receive, InCall, AccessInv, PipeInv, Requested, Answered, Served
<1>2. /\ call \in M!Call /\ call # NoCall /\ call.op # "none"
      /\ at \in 1 .. Len(Program(call)) /\ Old \in Bank /\ before \in [Base -> Bank]
  BY <1>1, InCallFacts, CallIsNotNoCall
<1>3. /\ call' = NoCall /\ UNCHANGED <<base, latch, touched>>
      /\ reply' = IF Current.value = "reply" THEN v2c.data ELSE reply
  BY <1>1, <1>2 DEF Receive, hardware, Current
<1>4. NoCall.op = "none" /\ M!NoCall = NoCall
  BY DEF NoCall, M!NoCall
<1>5. latch = [before EXCEPT ![base] = New] /\ touched = Trace(Len(M!Intended(call)))
  BY <1>1, <1>2, CallReturns DEF AccessInv, CallInv
<1>6. reply' \in M!Answer(call)
  <2>1. CASE call.op # "get"
    <3>1. Current.value # "reply"
      BY <1>2, <2>1, AccessCases, CallKinds
         DEF Current, Access, Save, SetDlab, Restore, Main, Plain, Guarded
    <3>2. reply' = 0
      BY <1>1, <1>3, <2>1, <3>1 DEF AccessInv, ReplyInv
    <3> QED BY <2>1, <3>2 DEF M!Answer
  <2>2. CASE call.op = "get"
    <3>1. Current.value = "reply" \/ (Guarded /\ at > 3)
      BY <1>2, <2>2, AccessCases DEF Current, Access, Main, Plain, Guarded
    <3> QED BY <1>1, <1>3, <2>2, <3>1 DEF AccessInv, ReplyInv, Current
  <2> QED BY <2>1, <2>2
<1>7. Trace(Len(M!Intended(call))) =
        [i \in 1 .. Len(M!Intended(call)) |-> <<base, M!Intended(call)[i]>>]
  BY DEF Trace
<1>8. [before EXCEPT ![base] = M!NewLatch(call, @)] = [before EXCEPT ![base] = New]
  BY DEF New, Old
<1> QED BY <1>2, <1>3, <1>4, <1>5, <1>6, <1>7, <1>8 DEF M!Return

\* Every other step of the two processes goes unseen.
LEMMA StepImplementsMapStep ==
  ASSUME AccessInv, AccessInv', [Next]_vars
  PROVE  [M!MapNext]_(M!mapVars)
<1> USE DEF M!mapVars
<1>0. call.op = "none" <=> ~InCall
  <2>1. InCall => call.op # "none"
    BY InCallFacts, CallIsNotNoCall
  <2>2. ~InCall => call.op = "none"
    BY DEF AccessInv, CallInv, NoCall, M!NoCall
  <2> QED BY <2>1, <2>2
<1>1. CASE UNCHANGED vars
  BY <1>1 DEF vars, software, hardware
<1>2. CASE MakePipes \/ MeetAtC2V \/ MeetAtV2C \/ Send \/ Finish
  BY <1>2 DEF MakePipes, MeetAtC2V, MeetAtV2C, Send, Finish, software, hardware
<1>3. CASE Serve
  <2>1. CASE InCall
    BY <1>0, <1>3, <2>1 DEF Serve, software
  <2>2. CASE ~InCall
    <3>1. c = "exited" /\ c2v # Nothing
      BY <1>3, <2>2 DEF Serve, AccessInv, PipeInv, TypeOK, InCall
    <3>2. UNCHANGED <<latch, touched>>
      BY <1>3, <3>1 DEF Serve, AccessInv, PipeInv
    <3> QED BY <1>3, <3>2 DEF Serve, software
  <2> QED BY <2>1, <2>2
<1>4. CASE Receive
  <2>1. c = "wait" /\ InCall /\ Matches(v2c) /\ at \in 1 .. Len(Program(call))
    BY <1>4 DEF Receive, InCall, AccessInv, PipeInv, Requested, Answered, CallInv
  <2>2. CASE at < Len(Program(call))
    <3>1. UNCHANGED <<base, call, before>>
      BY <1>4, <2>1, <2>2 DEF Receive, hardware
    <3> QED BY <1>0, <2>1, <3>1
  <2>3. CASE at = Len(Program(call))
    BY <1>4, <2>3, LastReplyReturns DEF M!MapNext
  <2> QED BY <2>1, <2>2, <2>3, ProgramNotEmpty, InCallFacts
<1>5. ASSUME NEW b \in Base, SetBase(b) PROVE M!Select(b)
  <2>1. c = "idle" /\ call = NoCall
    BY <1>5 DEF SetBase, AccessInv, CallInv, InCall
  <2> QED BY <1>5, <2>1 DEF SetBase, M!Select, hardware, NoCall, M!NoCall
<1>6. ASSUME NEW k \in Calls, Enter(k) PROVE M!Begin(k)
  <2>1. call = NoCall
    BY <1>6 DEF Enter, AccessInv, CallInv, InCall
  <2>2. k.op # "none" /\ NoCall.op = "none"
    BY CallIsNotNoCall, RegisterAccessAssumption DEF NoCall, M!NoCall
  <2> QED BY <1>6, <2>1, <2>2 DEF Enter, M!Begin, NoCall, M!NoCall
<1>7. ASSUME Next PROVE \/ MakePipes \/ MeetAtC2V \/ MeetAtV2C \/ Send \/ Finish
                        \/ Serve \/ Receive
                        \/ \E b \in Base : SetBase(b)
                        \/ \E k \in Calls : Enter(k)
  BY <1>7 DEF Next, Progress
<1> QED BY <1>1, <1>2, <1>3, <1>4, <1>5, <1>6, <1>7, RegisterAccessAssumption DEF M!MapNext

\* The accessors implement RegisterMap: for any base addresses, bytes and
\* sequence of calls, each call reaches its own register of the selected UART
\* and none other, whatever LC held, leaves LC as it was and returns what the
\* register held.
THEOREM AccessImplementsRegisterMap == Spec => ImplementsRegisterMap
<1>1. Init => M!MapInit
  BY DEF Init, M!MapInit, NoCall, M!NoCall, Power, M!Power
<1>2. AccessInv /\ AccessInv' /\ [Next]_vars => [M!MapNext]_(M!mapVars)
  BY StepImplementsMapStep
<1> QED BY <1>1, <1>2, AccessInvInit, AccessInvNext, PTL
        DEF Spec, ImplementsRegisterMap, M!MapSpec

-----------------------------------------------------------------------------
(***************************************************************************)
(* Bridge and bus interface (WbBridge.tla): types.                          *)
(***************************************************************************)

\* A byte on a lane is a word of four lanes.
LEMMA OnLaneType == \A l \in Lane, b \in Octet : OnLane(l, b) \in Lanes
BY OctetAssumption DEF OnLane, Lanes

\* The lane of an address is one.
LEMMA LaneOfAddress == \A a \in Addresses : a % 4 \in Lane
BY OctetAssumption DEF Lane

\* What the master asks is a Wishbone cycle, and so is what the bridge shows.
LEMMA WishboneType ==
  ASSUME BridgeTypeOK
  PROVE  Asked \in Wishbone /\ wb \in Wishbone \union {NoCycle}
<1>1. Asked \in Wishbone
  BY LaneOfAddress DEF BridgeTypeOK, Asked, wb_we, Wishbone
<1> QED BY <1>1 DEF BridgeTypeOK, wb

\* The selected lane of a sampled cycle is a lane.
LEMMA SelectedLaneType == ASSUME BridgeTypeOK PROVE SelectedLane \in Lane
<1>1. is.sel \in SUBSET Lane
  BY DEF BridgeTypeOK, Wishbone, NoCycle
<1>2. ASSUME Cardinality(is.sel) = 1 PROVE is.sel # {}
  BY <1>2, FS_EmptySet
<1>3. ASSUME is.sel # {} PROVE (CHOOSE l \in is.sel : TRUE) \in is.sel
  BY <1>3
<1>4. 0 \in Lane
  BY DEF Lane
<1> QED BY <1>1, <1>2, <1>3, <1>4 DEF SelectedLane

\* The initial values have their types.
LEMMA BridgeTypeInit == BridgeInit => BridgeTypeOK
<1> SUFFICES ASSUME BridgeInit PROVE BridgeTypeOK
  OBVIOUS
<1>1. OnLane(0, ZeroOctet) \in Lanes
  BY OnLaneType, OctetAssumption DEF Lane
<1>2. request \in Requests
  BY OctetAssumption DEF BridgeInit, Requests
<1>3. /\ iob_valid \in BOOLEAN /\ iob_addr \in Addresses
      /\ iob_wdata \in Lanes /\ iob_wstrb \subseteq Lane /\ wb_dat8_o \in Octet
  BY <1>1 DEF BridgeInit
<1>4. /\ iob_valid_r \in BOOLEAN /\ held \in Wishbone \union {NoCycle}
      /\ wb_data_r \in Lanes /\ iob_rvalid \in BOOLEAN
      /\ cyc_is \in BOOLEAN /\ is \in Wishbone \union {NoCycle}
      /\ wb_ack \in BOOLEAN /\ wre \in BOOLEAN /\ wb_dat_o \in Lanes
  BY <1>1 DEF BridgeInit, Reset
<1>5. /\ wbstate \in 0 .. 2 /\ strobes \in 0 .. 2 /\ apart \in 0 .. 2
      /\ returned \in [addr : Addresses, byte : Octet] \union {NoAnswer}
  BY DEF BridgeInit, Reset
<1> QED BY <1>2, <1>3, <1>4, <1>5 DEF BridgeTypeOK

\* The master and the register file drive values of their types.
LEMMA DriveTypes ==
  ASSUME BridgeTypeOK, Drive
  PROVE  /\ iob_valid' \in BOOLEAN /\ iob_addr' \in Addresses
         /\ iob_wdata' \in Lanes /\ iob_wstrb' \subseteq Lane /\ wb_dat8_o' \in Octet
<1>1. ASSUME NEW r \in Requests, Ask(r)
      PROVE  iob_addr' \in Addresses /\ iob_wdata' \in Lanes /\ iob_wstrb' \subseteq Lane
  <2>1. r.addr \in Addresses /\ r.data \in Octet
    BY DEF Requests
  <2>2. r.addr % 4 \in Lane
    BY <2>1, LaneOfAddress
  <2> QED BY <1>1, <2>1, <2>2, OnLaneType DEF Ask
<1> QED BY <1>1 DEF BridgeTypeOK, Drive

\* One edge of the clock keeps the types of the registers.
LEMMA ClockTypes ==
  ASSUME BridgeTypeOK, Clock
  PROVE  /\ iob_valid_r' \in BOOLEAN /\ held' \in Wishbone \union {NoCycle}
         /\ wb_data_r' \in Lanes /\ iob_rvalid' \in BOOLEAN
         /\ cyc_is' \in BOOLEAN /\ is' \in Wishbone \union {NoCycle}
         /\ wbstate' \in 0 .. 2 /\ wb_ack' \in BOOLEAN /\ wre' \in BOOLEAN
         /\ wb_dat_o' \in Lanes
<1>1. /\ iob_valid_r' \in BOOLEAN /\ held' \in Wishbone \union {NoCycle}
      /\ wb_data_r' \in Lanes /\ iob_rvalid' \in BOOLEAN
  <2>1. iob_valid_r' \in BOOLEAN /\ iob_rvalid' \in BOOLEAN
    BY DEF Clock, Bridge
  <2>2. held' \in Wishbone \union {NoCycle}
    BY WishboneType DEF Clock, Bridge, BridgeTypeOK
  <2>3. wb_data_r' \in Lanes
    BY DEF Clock, Bridge, BridgeTypeOK
  <2> QED BY <2>1, <2>2, <2>3
<1>2. cyc_is' \in BOOLEAN /\ is' \in Wishbone \union {NoCycle}
  BY WishboneType DEF Clock, Sample, wb_cyc, BridgeTypeOK
<1>3. wbstate' \in 0 .. 2 /\ wb_ack' \in BOOLEAN /\ wre' \in BOOLEAN
  <2>1. wbstate \in 0 .. 2 /\ Acknowledge
    BY DEF Clock, BridgeTypeOK
  <2>2. wbstate' \in 0 .. 2
    BY <2>1 DEF Acknowledge
  <2>3. wb_ack' \in BOOLEAN /\ wre' \in BOOLEAN
    BY <2>1 DEF Acknowledge
  <2> QED BY <2>2, <2>3
<1>4. wb_dat_o' \in Lanes
  <2>1. is.dat \in Lanes
    BY OnLaneType, OctetAssumption DEF BridgeTypeOK, Wishbone, NoCycle, Lane
  <2>2. OnLane(SelectedLane, wb_dat8_o) \in Lanes /\ OnLane(0, ZeroOctet) \in Lanes
    BY OnLaneType, SelectedLaneType, OctetAssumption DEF BridgeTypeOK, Lane
  <2> QED BY <2>2 DEF Clock, ReadData, BridgeTypeOK
<1> QED BY <1>1, <1>2, <1>3, <1>4

\* The history keeps its types.
LEMMA ObserveTypes ==
  ASSUME BridgeTypeOK, Drive, Observe
  PROVE  /\ request' \in Requests /\ strobes' \in 0 .. 2
         /\ returned' \in [addr : Addresses, byte : Octet] \union {NoAnswer}
         /\ apart' \in 0 .. 2
<1>1. request' \in Requests
  <2>1. iob_addr' \in Addresses /\ iob_wdata' \in Lanes /\ iob_addr' % 4 \in Lane
    BY DriveTypes, LaneOfAddress
  <2>2. iob_wdata'[iob_addr' % 4] \in Octet
    BY <2>1 DEF Lanes
  <2> QED BY <2>1, <2>2 DEF Observe, Requests, BridgeTypeOK
<1>2. strobes' \in 0 .. 2 /\ apart' \in 0 .. 2
  BY DEF Observe, BridgeTypeOK
<1>3. returned' \in [addr : Addresses, byte : Octet] \union {NoAnswer}
  <2>1. request.addr \in Addresses /\ wb_dat8_o \in Octet
    BY DEF BridgeTypeOK, Requests
  <2> QED BY <2>1 DEF Observe, BridgeTypeOK
<1> QED BY <1>1, <1>2, <1>3

\* Every step keeps the types.
LEMMA BridgeTypeNext == BridgeTypeOK /\ [BridgeNext]_bridgeVars => BridgeTypeOK'
<1> SUFFICES ASSUME BridgeTypeOK, [BridgeNext]_bridgeVars PROVE BridgeTypeOK'
  OBVIOUS
<1>1. CASE BridgeNext
  BY <1>1, DriveTypes, ClockTypes, ObserveTypes DEF BridgeNext, BridgeTypeOK
<1>2. CASE UNCHANGED bridgeVars
  BY <1>2 DEF bridgeVars, master, bridge, core, history, BridgeTypeOK
<1> QED BY <1>1, <1>2

\* The signals of the path have their types.
THEOREM BridgeTypeCorrect == BridgeSpec => []BridgeTypeOK
BY BridgeTypeInit, BridgeTypeNext, PTL DEF BridgeSpec

(***************************************************************************)
(* The acknowledge machine                                                  *)
(***************************************************************************)

\* A strobe is a sampled cycle in state 0.
LEMMA StrobeMeans == MachineInv => (Strobe <=> cyc_is /\ wbstate = 0)
BY DEF MachineInv, Strobe, we_o, re_o

\* The counter apart follows the states, for a strobe is left by state 1.
LEMMA MachineNext == BridgeTypeOK /\ MachineInv /\ [BridgeNext]_bridgeVars => MachineInv'
<1> SUFFICES ASSUME BridgeTypeOK, MachineInv, [BridgeNext]_bridgeVars PROVE MachineInv'
  OBVIOUS
<1>1. CASE BridgeNext
  <2>1. Acknowledge /\ wbstate \in 0 .. 2 /\ cyc_is \in BOOLEAN
    BY <1>1 DEF BridgeNext, Clock, BridgeTypeOK
  <2>2. (wb_ack' <=> wbstate' = 1) /\ (wre' <=> wbstate' = 0)
    BY <2>1 DEF Acknowledge
  <2>3. apart' = IF wbstate' = 0 THEN 2 ELSE wbstate' - 1
    <3>1. apart' = IF Strobe THEN 0 ELSE IF apart < 2 THEN apart + 1 ELSE 2
      BY <1>1 DEF BridgeNext, Observe
    <3> QED BY <2>1, <3>1, StrobeMeans DEF MachineInv, Acknowledge
  <2> QED BY <2>2, <2>3 DEF MachineInv
<1>2. CASE UNCHANGED bridgeVars
  BY <1>2 DEF bridgeVars, core, history, MachineInv
<1> QED BY <1>1, <1>2

\* The register file is never strobed twice within two cycles.
THEOREM StrobesAlwaysApart == BridgeSpec => []StrobesApart
<1>1. BridgeInit => MachineInv
  BY DEF BridgeInit, Reset, MachineInv
<1>2. MachineInv => StrobesApart
  BY StrobeMeans DEF MachineInv, StrobesApart
<1> QED BY <1>1, <1>2, BridgeTypeInit, BridgeTypeNext, MachineNext, PTL DEF BridgeSpec

(***************************************************************************)
(* The request on its way                                                   *)
(***************************************************************************)
PathInv == BridgeTypeOK /\ MachineInv /\ RequestInv

\* What the master drives while a request is outstanding, and when it asks.
LEMMA MasterMeans ==
  ASSUME PathInv, BridgeNext
  PROVE  /\ Outstanding <=> wb_cyc /\ wbstate # 1
         /\ Outstanding => /\ Asked' = Asked /\ request' = request
                           /\ iob_valid' => iob_valid
         /\ ~Outstanding /\ iob_valid' => Asked' = Wanted'
         /\ ~iob_valid' => request' = request
<1>1. Outstanding <=> wb_cyc /\ wbstate # 1
  BY DEF Outstanding, iob_ready, wb_cyc, PathInv, MachineInv
<1>2. ASSUME Outstanding
      PROVE  Asked' = Asked /\ request' = request /\ (iob_valid' => iob_valid)
  <2>1. iob_valid' \in {iob_valid, FALSE} /\ UNCHANGED <<iob_addr, iob_wdata, iob_wstrb>>
    BY <1>2 DEF BridgeNext, Drive
  <2>2. Asked' = Asked
    BY <2>1 DEF Asked, wb_we
  <2>3. request' = request
    BY <1>2 DEF BridgeNext, Observe, Accepted
  <2>4. iob_valid' => iob_valid
    BY <2>1
  <2> QED BY <2>2, <2>3, <2>4
<1>3. ASSUME ~Outstanding, iob_valid' PROVE Asked' = Wanted'
  <2>1. PICK r \in Requests : Ask(r)
    BY <1>3 DEF BridgeNext, Drive
  <2>2. r.addr \in Addresses /\ r.write \in BOOLEAN /\ r.addr % 4 \in Lane
    BY <2>1, LaneOfAddress DEF Requests
  <2>3. /\ iob_addr' = r.addr /\ iob_wdata' = OnLane(r.addr % 4, r.data)
        /\ iob_wstrb' = IF r.write THEN {r.addr % 4} ELSE {}
    BY <2>1 DEF Ask
  <2>4. OnLane(r.addr % 4, r.data)[r.addr % 4] = r.data
    BY <2>2 DEF OnLane
  <2>5. request' = [addr |-> r.addr, write |-> r.write, data |-> r.data]
    <3>1. request' = [addr |-> iob_addr', write |-> iob_wstrb' # {},
                      data |-> iob_wdata'[iob_addr' % 4]]
      BY <1>3 DEF BridgeNext, Observe, Accepted
    <3>2. (iob_wstrb' # {}) = r.write
      BY <2>2, <2>3
    <3> QED BY <2>3, <2>4, <3>1, <3>2
  <2>6. Asked' = [adr |-> r.addr, we |-> r.write, dat |-> OnLane(r.addr % 4, r.data),
                  sel |-> {r.addr % 4}]
    <3>1. wb_we' = r.write
      BY <2>2, <2>3 DEF wb_we
    <3>2. (IF wb_we' THEN iob_wstrb' ELSE {iob_addr' % 4}) = {r.addr % 4}
      BY <2>3, <3>1
    <3> QED BY <2>3, <3>1, <3>2 DEF Asked
  <2> QED BY <2>5, <2>6 DEF Wanted
<1>4. ASSUME ~iob_valid' PROVE request' = request
  BY <1>4 DEF BridgeNext, Observe, Accepted
<1> QED BY <1>1, <1>2, <1>3, <1>4

\* Each step carries the request on: one step per state of the machine.
LEMMA RequestNext == PathInv /\ [BridgeNext]_bridgeVars => RequestInv'
<1> SUFFICES ASSUME PathInv, [BridgeNext]_bridgeVars PROVE RequestInv'
  OBVIOUS
<1>1. CASE BridgeNext
  <2>1. /\ wbstate \in 0 .. 2 /\ MachineInv /\ RequestInv
        /\ iob_valid \in BOOLEAN /\ iob_valid_r \in BOOLEAN /\ cyc_is \in BOOLEAN
    BY DEF PathInv, BridgeTypeOK
  <2>2. /\ iob_valid_r' <=> wb_cyc /\ wbstate # 1
        /\ held' = wb /\ is' = wb /\ cyc_is' = wb_cyc
    BY <1>1, <2>1 DEF BridgeNext, Clock, Bridge, Sample, wb, wb_cyc, MachineInv
  <2>3. \/ wbstate = 0 /\ cyc_is /\ wbstate' = 1
        \/ wbstate = 0 /\ ~cyc_is /\ wbstate' = 0
        \/ wbstate = 1 /\ wbstate' = 2
        \/ wbstate = 2 /\ wbstate' = 0
    BY <1>1 DEF BridgeNext, Clock, Acknowledge
  <2>4. /\ Outstanding <=> wb_cyc /\ wbstate # 1
        /\ Outstanding => /\ Asked' = Asked /\ request' = request
                          /\ iob_valid' => iob_valid
        /\ ~Outstanding /\ iob_valid' => Asked' = Wanted'
        /\ ~iob_valid' => request' = request
    BY <1>1, MasterMeans
  <2>5. ASSUME Outstanding PROVE wb = Wanted /\ Wanted' = Wanted
    BY <2>1, <2>4, <2>5 DEF RequestInv, Wanted
  <2>6. ASSUME wb_cyc' PROVE wb' = Wanted'
    <3>1. CASE iob_valid' /\ ~Outstanding
      BY <2>4, <3>1 DEF wb
    <3>2. CASE Outstanding
      <4>1. CASE iob_valid'
        BY <2>4, <2>5, <3>2, <4>1 DEF wb
      <4>2. CASE ~iob_valid'
        BY <2>2, <2>5, <3>2, <4>2 DEF wb
      <4> QED BY <4>1, <4>2
    <3>3. CASE ~iob_valid' /\ ~Outstanding
      BY <2>2, <2>4, <2>6, <3>3 DEF wb_cyc
    <3> QED BY <3>1, <3>2, <3>3
  <2>7. ASSUME wbstate' = 1 \/ (wbstate' = 0 /\ cyc_is')
        PROVE  wb_cyc' /\ is' = Wanted' /\ held' = Wanted'
    <3>1. Outstanding
      BY <2>1, <2>2, <2>3, <2>4, <2>7 DEF RequestInv
    <3> QED BY <2>2, <2>4, <2>5, <3>1 DEF wb_cyc
  <2>8. strobes' = IF wb_cyc' /\ wbstate' # 1 THEN 0 ELSE 1
    <3>1. Accepted <=> iob_valid' /\ ~Outstanding
      BY DEF Accepted
    <3>2. strobes' = IF Accepted THEN 0
                     ELSE IF Strobe /\ strobes < 2 THEN strobes + 1 ELSE strobes
      BY <1>1 DEF BridgeNext, Observe
    <3>3. strobes = IF wb_cyc /\ wbstate # 1 THEN 0 ELSE 1
      BY <2>1 DEF RequestInv
    <3>4. Strobe <=> cyc_is /\ wbstate = 0
      BY <2>1, StrobeMeans
    <3>5. wbstate = 0 /\ cyc_is => wb_cyc
      BY <2>1 DEF RequestInv
    <3>6. wb_cyc' <=> iob_valid' \/ Outstanding
      BY <2>2, <2>4 DEF wb_cyc
    <3> QED BY <2>1, <2>3, <2>4, <3>1, <3>2, <3>3, <3>4, <3>5, <3>6
  <2> QED BY <2>6, <2>7, <2>8 DEF RequestInv
<1>2. CASE UNCHANGED bridgeVars
  <2>1. UNCHANGED <<wb, wb_cyc, Wanted>>
    BY <1>2 DEF bridgeVars, master, bridge, history, wb, wb_cyc, Asked, wb_we, Wanted
  <2> QED BY <1>2, <2>1 DEF bridgeVars, bridge, core, history, PathInv, RequestInv
<1> QED BY <1>1, <1>2

\* Types, machine and request together are inductive.
LEMMA PathInvariant == BridgeSpec => []PathInv
<1>1. BridgeInit => PathInv
  <2>1. BridgeInit => MachineInv
    BY DEF BridgeInit, Reset, MachineInv
  <2>2. BridgeInit => RequestInv
    BY DEF BridgeInit, Reset, RequestInv, wb_cyc
  <2> QED BY <2>1, <2>2, BridgeTypeInit DEF PathInv
<1>2. PathInv /\ [BridgeNext]_bridgeVars => PathInv'
  BY BridgeTypeNext, MachineNext, RequestNext DEF PathInv
<1> QED BY <1>1, <1>2, PTL DEF BridgeSpec

\* The select lines give back the address and the byte that were asked.
LEMMA Unpacked ==
  ASSUME BridgeTypeOK, is = Wanted
  PROVE  /\ SelectedLane = request.addr % 4 /\ wb_adr_int = request.addr
         /\ wb_dat8_i = request.data /\ is.we = request.write
<1>1. request.addr \in Nat /\ request.addr % 4 \in Lane
  BY LaneOfAddress, OctetAssumption DEF BridgeTypeOK, Requests
<1>2. /\ is.sel = {request.addr % 4} /\ is.adr = request.addr /\ is.we = request.write
      /\ is.dat = OnLane(request.addr % 4, request.data)
  BY DEF Wanted
<1>3. Cardinality(is.sel) = 1
  BY <1>2, FS_Singleton
<1>4. SelectedLane = request.addr % 4
  BY <1>2, <1>3 DEF SelectedLane
<1>5. wb_adr_int = request.addr
  <2>1. \A a \in Nat : 4 * (a \div 4) + (a % 4) = a
    OBVIOUS
  <2>2. wb_adr_int = 4 * (request.addr \div 4) + (request.addr % 4)
    BY <1>2, <1>4 DEF wb_adr_int
  <2> QED BY <1>1, <2>1, <2>2
<1>6. wb_dat8_i = request.data
  BY <1>1, <1>2, <1>4 DEF wb_dat8_i, OnLane
<1> QED BY <1>2, <1>4, <1>5, <1>6

\* One strobe for each request, with its address, direction and data, and
\* before its acknowledge, for all addresses and bytes.
THEOREM AlwaysOneStrobePerRequest == BridgeSpec => []OneStrobePerRequest
<1>1. PathInv => OneStrobePerRequest
  <2> SUFFICES ASSUME PathInv PROVE OneStrobePerRequest
    OBVIOUS
  <2>1. BridgeTypeOK /\ MachineInv /\ RequestInv /\ request.write \in BOOLEAN
    BY DEF PathInv, BridgeTypeOK, Requests
  <2>2. ASSUME Strobe
        PROVE  /\ strobes = 0 /\ wb_adr_int = request.addr
               /\ we_o <=> request.write
               /\ we_o => wb_dat8_i = request.data
    <3>1. cyc_is /\ wbstate = 0 /\ is = Wanted /\ wb_cyc
      BY <2>1, <2>2, StrobeMeans DEF RequestInv
    <3>2. strobes = 0
      BY <2>1, <3>1 DEF RequestInv
    <3>3. /\ wb_adr_int = request.addr /\ wb_dat8_i = request.data
          /\ is.we = request.write
      BY <2>1, <3>1, Unpacked
    <3> QED BY <2>1, <3>1, <3>2, <3>3 DEF we_o, MachineInv
  <2>3. iob_ready => strobes = 1
    BY <2>1 DEF iob_ready, MachineInv, RequestInv
  <2> QED BY <2>2, <2>3 DEF OneStrobePerRequest
<1> QED BY <1>1, PathInvariant, PTL

\* The byte to push is still there in the cycle after the strobe.
THEOREM DataAlwaysHeldForPush == BridgeSpec => []DataHeldForPush
<1>1. PathInv => DataHeldForPush
  <2> SUFFICES ASSUME PathInv, apart = 0 PROVE wb_dat8_i = request.data
    BY DEF DataHeldForPush
  <2>1. wbstate = 1
    BY DEF PathInv, BridgeTypeOK, MachineInv
  <2> QED BY <2>1, Unpacked DEF PathInv, RequestInv
<1> QED BY <1>1, PathInvariant, PTL

(***************************************************************************)
(* The answer on its way                                                    *)
(***************************************************************************)

\* The byte the register file returns stays in an output register until the
\* master has taken it.
LEMMA AnswerNext == PathInv /\ AnswerInv /\ [BridgeNext]_bridgeVars => AnswerInv'
<1> SUFFICES ASSUME PathInv, AnswerInv, [BridgeNext]_bridgeVars PROVE AnswerInv'
  OBVIOUS
<1>1. CASE BridgeNext
  <2>1. /\ BridgeTypeOK /\ MachineInv /\ RequestInv /\ wbstate \in 0 .. 2
        /\ request.write \in BOOLEAN /\ request.addr % 4 \in Lane
    BY LaneOfAddress DEF PathInv, BridgeTypeOK, Requests
  <2>2. ASSUME wbstate' = 1, ~request'.write PROVE Carries(wb_dat_o)'
    <3>1. wbstate = 0 /\ cyc_is
      BY <1>1, <2>2 DEF BridgeNext, Clock, Acknowledge
    <3>2. is = Wanted /\ wb_cyc
      BY <2>1, <3>1 DEF RequestInv
    <3>3. request' = request
      BY <1>1, <3>1, <3>2, MasterMeans
    <3>4. SelectedLane = request.addr % 4 /\ is.we = request.write
      BY <2>1, <3>2, Unpacked
    <3>5. re_o
      BY <2>1, <2>2, <3>1, <3>3, <3>4 DEF re_o, MachineInv
    <3>6. Cardinality(is.sel) = 1
      BY <3>2, FS_Singleton DEF Wanted
    <3>7. wb_dat_o' = OnLane(request.addr % 4, wb_dat8_o)
      BY <1>1, <3>4, <3>5, <3>6 DEF BridgeNext, Clock, ReadData
    <3>8. returned' = [addr |-> request.addr, byte |-> wb_dat8_o]
      <4>1. ~we_o
        BY <3>5 DEF re_o, we_o
      <4> QED BY <1>1, <3>5, <4>1 DEF BridgeNext, Observe
    <3>9. returned' # NoAnswer
      BY <3>8 DEF NoAnswer
    <3> QED BY <2>1, <3>7, <3>8, <3>9 DEF Carries, ByteOf, OnLane
  <2>3. ASSUME iob_rvalid' PROVE wbstate' = 2 /\ Carries(wb_data_r)'
    <3>1. iob_ready /\ ~held.we
      BY <1>1, <2>3 DEF BridgeNext, Clock, Bridge
    <3>2. wbstate = 1 /\ wb_ack
      BY <2>1, <3>1 DEF iob_ready, MachineInv
    <3>3. ~request.write
      BY <2>1, <3>1, <3>2 DEF RequestInv, Wanted
    <3>4. Carries(wb_dat_o)
      BY <3>2, <3>3 DEF AnswerInv
    <3>5. wb_data_r' = wb_dat_o /\ wbstate' = 2
      BY <1>1, <3>2 DEF BridgeNext, Clock, Bridge, Acknowledge
    <3>6. returned' = returned
      BY <1>1, <2>1, <3>2 DEF BridgeNext, Observe, re_o, we_o, MachineInv
    <3> QED BY <3>4, <3>5, <3>6 DEF Carries, ByteOf
  <2> QED BY <2>2, <2>3 DEF AnswerInv
<1>2. CASE UNCHANGED bridgeVars
  BY <1>2 DEF bridgeVars, bridge, core, history, AnswerInv, Carries, ByteOf
<1> QED BY <1>1, <1>2

\* A read returns the byte of its register, on its lane, for as long as the
\* master looks at it.
THEOREM ReadsReturn == BridgeSpec => []ReadReturns
<1>1. BridgeInit => AnswerInv
  BY DEF BridgeInit, Reset, AnswerInv
<1>2. PathInv /\ AnswerInv => ReadReturns
  <2> SUFFICES ASSUME PathInv, AnswerInv,
                      iob_rvalid \/ (iob_ready /\ ~request.write)
               PROVE  Carries(iob_rdata)
    BY DEF ReadReturns, Carries
  <2>1. wb_ack <=> wbstate = 1
    BY DEF PathInv, MachineInv
  <2>2. CASE iob_rvalid
    BY <2>1, <2>2 DEF AnswerInv, iob_rdata
  <2>3. CASE iob_ready /\ ~request.write
    BY <2>1, <2>3 DEF AnswerInv, iob_ready, iob_rdata
  <2> QED BY <2>2, <2>3
<1> QED BY <1>1, <1>2, AnswerNext, PathInvariant, PTL DEF BridgeSpec

-----------------------------------------------------------------------------
(***************************************************************************)
(* The Linux driver (LinuxDriver.tla): types.                               *)
(***************************************************************************)

\* The stages and labels by name.
LEMMA Names ==
  /\ Stages[1] = "resource" /\ Stages[2] = "regbase" /\ Stages[3] = "devnum"
  /\ Stages[4] = "cdev" /\ Stages[5] = "class" /\ Stages[6] = "device"
  /\ Stages[7] = "attributes"
  /\ Labels[1] = "attributes" /\ Labels[2] = "device" /\ Labels[3] = "class"
  /\ Labels[4] = "cdev" /\ Labels[5] = "devnum"
BY DEF Stages, Labels

\* The initial values have their types.
LEMMA DriverTypeInit == DriverInit => DriverTypeOK
<1> SUFFICES ASSUME DriverInit PROVE DriverTypeOK
  OBVIOUS
<1>1. /\ module \in {"out", "in", "leaving"} /\ phase \in Phases
      /\ pdev \in Device \cup {None}
      /\ stage \in 1 .. 7 /\ label \in 1 .. 6
      /\ outcome \in [Device -> Outcomes]
  <2>1. module \in {"out", "in", "leaving"} /\ phase \in Phases
    BY DEF DriverInit, Phases
  <2>2. pdev \in Device \cup {None} /\ stage \in 1 .. 7 /\ label \in 1 .. 6
    BY DEF DriverInit
  <2>3. outcome \in [Device -> Outcomes]
    BY DEF DriverInit, Outcomes
  <2> QED BY <2>1, <2>2, <2>3
<1>2. taken \subseteq Resource /\ device \in BOOLEAN
  BY DEF DriverInit
<1>3. /\ mutex \in Process \cup {None} /\ opened \subseteq Process
      /\ fd \in [Process -> {"zero", "bad", "open"}]
      /\ pos \in [Process -> 0 .. RegSize]
      /\ attr \in [Process -> {"none", "store", "storing", "show"}]
  BY LinuxDriverAssumption DEF DriverInit
<1>4. /\ writer \in [Watched -> Process \cup {None}]
      /\ wrote \in [Process -> SUBSET Watched]
      /\ fault \in BOOLEAN /\ ripped \in BOOLEAN
  BY DEF DriverInit
<1> QED BY <1>1, <1>2, <1>3, <1>4 DEF DriverTypeOK

\* Every step keeps the types: one step per group of actions.
LEMMA DriverTypeNext == DriverTypeOK /\ [DriverNext]_driverVars => DriverTypeOK'
<1> SUFFICES ASSUME DriverTypeOK, [DriverNext]_driverVars PROVE DriverTypeOK'
  OBVIOUS
<1> USE LinuxDriverAssumption DEF DriverTypeOK, Phases, Outcomes
<1>1. CASE KernelStep
  <2>1. CASE TakeStage
    BY <2>1 DEF TakeStage, files, past
  <2>2. CASE FailStage
    <3>1. UnwindFrom(Stages[stage]) \in 1 .. 6
      BY DEF UnwindFrom
    <3>2. "attributes" \in Resource
      BY DEF Resource, Stage, Stages
    <3> QED BY <2>2, <3>1, <3>2 DEF FailStage, files, past
  <2>3. CASE MissStage
    <3>1. stage \in 1 .. 6
      BY <2>3, Names DEF MissStage, Unseen
    <3> QED BY <2>3, <3>1 DEF MissStage, files, past
  <2>4. CASE Oops
    BY <2>4 DEF Oops, files, past
  <2>5. CASE Undo
    BY <2>5 DEF Undo, files
  <2>6. CASE EndUndo
    <3>1. module' \in {"out", "in", "leaving"} /\ ripped' \in BOOLEAN
      BY <2>6 DEF EndUndo
    <3>2. phase' \in Phases /\ pdev' \in Device \cup {None} /\ taken' \subseteq Resource
      BY <2>6 DEF EndUndo
    <3>3. outcome' \in [Device -> Outcomes]
      BY <2>6 DEF EndUndo
    <3>4. stage' \in 1 .. 7 /\ label' \in 1 .. 6
      BY <2>6 DEF EndUndo
    <3>5. UNCHANGED <<device, files, writer, wrote, fault>>
      BY <2>6 DEF EndUndo
    <3> HIDE DEF Phases, Outcomes
    <3> QED BY <3>1, <3>2, <3>3, <3>4, <3>5 DEF files
  <2> QED BY <1>1, <2>1, <2>2, <2>3, <2>4, <2>5, <2>6 DEF KernelStep
<1>2. CASE Admin
  <2>1. CASE Insmod
    BY <2>1 DEF Insmod, files, past
  <2>2. CASE Rmmod
    BY <2>2 DEF Rmmod, files, past
  <2>4. CASE Unbind
    BY <2>4 DEF Unbind, files, past
  <2>3. ASSUME NEW d \in Device, Probe(d) PROVE DriverTypeOK'
    <3>1. outcome' \in [Device -> Outcomes]
      BY <2>3 DEF Probe
    <3>2. phase' \in Phases /\ pdev' \in Device \cup {None} /\ stage' \in 1 .. 7
      BY <2>3 DEF Probe
    <3>3. UNCHANGED <<module, label, taken, device, files, past>>
      BY <2>3 DEF Probe
    <3> HIDE DEF Phases, Outcomes
    <3> QED BY <3>1, <3>2, <3>3 DEF files, past
  <2>5. ASSUME NEW d \in Device, Refuse(d) PROVE DriverTypeOK'
    <3>1. outcome' \in [Device -> Outcomes]
      BY <2>5 DEF Refuse
    <3>2. UNCHANGED <<module, phase, pdev, stage, label, taken, device, files, past>>
      BY <2>5 DEF Refuse
    <3> HIDE DEF Phases, Outcomes
    <3> QED BY <3>1, <3>2 DEF files, past
  <2> QED BY <1>2, <2>1, <2>2, <2>3, <2>4, <2>5 DEF Admin
<1>3. ASSUME NEW p \in Process, DeviceFile(p) PROVE DriverTypeOK'
  <2>1. CASE Open(p)
    BY <2>1 DEF Open, kernel
  <2>2. CASE Release(p)
    BY <2>2 DEF Release, kernel
  <2>3. CASE Seek(p)
    BY <2>3 DEF Seek, kernel, past
  <2>4. CASE Read(p) \/ \E r \in ReadableRegs : IoctlRead(p, r)
    BY <2>4 DEF Read, IoctlRead, Touch, kernel, files
  <2>5. ASSUME NEW r, Store(p, r) PROVE DriverTypeOK'
    BY <2>5 DEF Store, Touch, kernel, files
  <2> QED BY <1>3, <2>1, <2>2, <2>3, <2>4, <2>5
          DEF DeviceFile, ReadWrite, Ioctl, Write, IoctlWrite
<1>4. ASSUME NEW p \in Process, Attribute(p) PROVE DriverTypeOK'
  <2>1. CASE StoreBegin(p) \/ ShowBegin(p)
    BY <2>1 DEF StoreBegin, ShowBegin, kernel, past
  <2>2. CASE StoreLock(p)
    BY <2>2 DEF StoreLock, kernel, past
  <2>3. CASE StoreRejected(p)
    BY <2>3 DEF StoreRejected, kernel, past
  <2>4. CASE ShowEnd(p)
    BY <2>4 DEF ShowEnd, Touch, kernel
  <2>5. ASSUME NEW r, StoreEnd(p, r) PROVE DriverTypeOK'
    BY <2>5 DEF StoreEnd, Touch, kernel
  <2> QED BY <1>4, <2>1, <2>2, <2>3, <2>4, <2>5 DEF Attribute, CallEnds
<1>5. CASE UNCHANGED driverVars
  BY <1>5 DEF driverVars, kernel, files, past
<1> QED BY <1>1, <1>2, <1>3, <1>4, <1>5 DEF DriverNext

\* The variables have their types, in every instance of the driver.
THEOREM DriverTypeCorrect == DriverSpec => []DriverTypeOK
BY DriverTypeInit, DriverTypeNext, PTL DEF DriverSpec

(***************************************************************************)
(* The Linux driver: mutual exclusion.                                      *)
(***************************************************************************)

\* Nobody has the file open and nobody is in a store.
LEMMA LockInit == DriverInit => LockInv
BY LinuxDriverAssumption DEF DriverInit, LockInv, LockHasHolder, ConfigurationIsOwn

\* LockInv is about five variables and the two histories of writers.
LEMMA LockFrame ==
  ASSUME LockInv, UNCHANGED <<mutex, opened, fd, attr, writer, wrote>>
  PROVE  LockInv'
BY DEF LockInv, LockHasHolder, ConfigurationIsOwn

\* The calls on the device file: only open takes the mutex, and only when it
\* is free; only the process that has it gets to a register.
LEMMA LockDeviceFile ==
  ASSUME DriverTypeOK, LockInv, NEW p \in Process, DeviceFile(p)
  PROVE  LockInv'
<1> USE DEF DriverTypeOK, LockInv, LockHasHolder, ConfigurationIsOwn
<1>1. CASE Open(p)
  BY <1>1, LinuxDriverAssumption DEF DeviceFile, Open
<1>2. CASE Release(p)
  BY <1>2 DEF Release
<1>3. CASE Seek(p)
  BY <1>3, LockFrame DEF Seek, past
<1>4. CASE Read(p) \/ \E r \in ReadableRegs : IoctlRead(p, r)
  BY <1>4, LockFrame DEF Read, IoctlRead, files
<1>5. ASSUME NEW r, fd[p] = "open", Store(p, r) PROVE LockInv'
  BY <1>5 DEF Store, files
<1> QED BY <1>1, <1>2, <1>3, <1>4, <1>5
        DEF DeviceFile, ReadWrite, Ioctl, Write, IoctlWrite

\* The attributes: a store gets past the mutex only while no file is open.
LEMMA LockAttribute ==
  ASSUME DriverTypeOK, LockInv, NEW p \in Process, Attribute(p)
  PROVE  LockInv'
<1> USE DEF DriverTypeOK, LockInv, LockHasHolder, ConfigurationIsOwn
<1>1. CASE StoreBegin(p) \/ ShowBegin(p)
  BY <1>1 DEF StoreBegin, ShowBegin, past
<1>2. CASE StoreLock(p)
  BY <1>2, LinuxDriverAssumption DEF StoreLock, past
<1>3. CASE StoreRejected(p)
  BY <1>3 DEF StoreRejected, past
<1>4. CASE ShowEnd(p)
  BY <1>4 DEF ShowEnd
<1>5. ASSUME NEW r, StoreEnd(p, r) PROVE LockInv'
  BY <1>5 DEF StoreEnd
<1> QED BY <1>1, <1>2, <1>3, <1>4, <1>5 DEF Attribute, CallEnds

\* Every step keeps the invariant; most leave its variables alone.
LEMMA LockNext == DriverTypeOK /\ LockInv /\ [DriverNext]_driverVars => LockInv'
<1> SUFFICES ASSUME DriverTypeOK, LockInv, [DriverNext]_driverVars PROVE LockInv'
  OBVIOUS
<1>1. CASE KernelStep
  BY <1>1, LockFrame DEF KernelStep, TakeStage, FailStage, MissStage, Oops, Undo, EndUndo, files, past
<1>2. CASE Admin
  BY <1>2, LockFrame DEF Admin, Insmod, Rmmod, Unbind, Probe, Refuse, files, past
<1>3. ASSUME NEW p \in Process, DeviceFile(p) \/ Attribute(p) PROVE LockInv'
  BY <1>3, LockDeviceFile, LockAttribute
<1>4. CASE UNCHANGED driverVars
  BY <1>4, LockFrame DEF driverVars, files, past
<1> QED BY <1>1, <1>2, <1>3, <1>4 DEF DriverNext

\* One open file or one store at a time, whoever asks and in whatever order.
THEOREM LockInvariant == DriverSpec => []LockInv
BY DriverTypeInit, DriverTypeNext, LockInit, LockNext, PTL DEF DriverSpec

\* The mutex is never left locked, for any number of processes.
THEOREM LockAlwaysHasHolder == DriverSpec => []LockHasHolder
<1>1. LockInv => LockHasHolder
  BY DEF LockInv
<1> QED BY <1>1, LockInvariant, PTL

\* What a process wrote to the device it has open nobody else overwrites.
THEOREM ConfigurationIsAlwaysOwn == DriverSpec => []ConfigurationIsOwn
<1>1. LockInv => ConfigurationIsOwn
  BY DEF LockInv
<1> QED BY <1>1, LockInvariant, PTL

(***************************************************************************)
(* The Linux driver: probe, its error path and remove.                      *)
(***************************************************************************)
\* Every stage takes something, but the first.
LEMMA Resources ==
  Resource = {"regbase", "devnum", "cdev", "class", "device", "attributes"}
<1>1. Stage = {Stages[1], Stages[2], Stages[3], Stages[4], Stages[5], Stages[6], Stages[7]}
  BY DEF Stage
<1> QED BY <1>1, Names DEF Resource

\* The resources of the stages behind probe, at each stage.
LEMMA ReachedAt ==
  ASSUME stage \in 1 .. 7
  PROVE  /\ stage \in {1, 2} => Reached = {}
         /\ stage = 3 => Reached = {"regbase"}
         /\ stage = 4 => Reached = {"regbase", "devnum"}
         /\ stage = 5 => Reached = {"regbase", "devnum", "cdev"}
         /\ stage = 6 => Reached = {"regbase", "devnum", "cdev", "class"}
         /\ stage = 7 => Reached = {"regbase", "devnum", "cdev", "class", "device"}
BY Names DEF Reached

\* A stage that has what it needs finds the resources of all earlier stages taken.
LEMMA HasReached ==
  ASSUME DriverTypeOK, HeldInv, phase = "probing",
         Needs(Stages[stage]) \subseteq taken
  PROVE  taken = Reached
<1>1. /\ Reached \ Unseen \subseteq taken /\ taken \subseteq Reached
      /\ "device" \in taken => "class" \in taken
  BY DEF HeldInv
<1>2. CASE stage \in 1 .. 5
  <2>1. Reached \cap Unseen = {}
    BY <1>2, ReachedAt DEF Unseen
  <2> QED BY <1>1, <2>1
<1>3. CASE stage = 6
  <2>1. "class" \in taken
    BY <1>3, Names DEF Needs
  <2> QED BY <1>1, <1>3, <2>1, ReachedAt DEF Unseen
<1>4. CASE stage = 7
  <2>1. "device" \in taken
    BY <1>4, Names DEF Needs
  <2> QED BY <1>1, <1>4, <2>1, ReachedAt DEF Unseen
<1> QED BY <1>2, <1>3, <1>4 DEF DriverTypeOK

\* What is still to be given back at each call of the error path.
LEMMA Owed ==
  ASSUME NEW n \in 1 .. 6
  PROVE  /\ n = 1 => {Labels[i] : i \in n .. 5} =
                      {"attributes", "device", "class", "cdev", "devnum"}
         /\ n = 2 => {Labels[i] : i \in n .. 5} = {"device", "class", "cdev", "devnum"}
         /\ n = 3 => {Labels[i] : i \in n .. 5} = {"class", "cdev", "devnum"}
         /\ n = 4 => {Labels[i] : i \in n .. 5} = {"cdev", "devnum"}
         /\ n = 5 => {Labels[i] : i \in n .. 5} = {"devnum"}
         /\ n = 6 => {Labels[i] : i \in n .. 5} = {}
BY Names

\* No device, nothing taken.
LEMMA HeldInit == DriverInit => HeldInv
BY DEF DriverInit, HeldInv

\* Every step of the driver core leaves taken as the next stage or label wants it.
LEMMA HeldNext ==
  ASSUME DriverTypeOK, HeldInv, [DriverNext]_driverVars
  PROVE  HeldInv'
<1> USE DEF DriverTypeOK, HeldInv
<1>1. CASE KernelStep
  <2>1. CASE TakeStage
    <3>1. taken = Reached /\ taken' = taken \cup ({Stages[stage]} \cap Resource)
      BY <2>1, HasReached DEF TakeStage
    <3>2. CASE stage < 7
      <4>1. stage' = stage + 1 /\ phase' = "probing"
        BY <2>1, <3>2 DEF TakeStage
      <4>2. taken' = Reached'
        <5>1. Reached' = {Stages[i] : i \in 2 .. stage}
          BY <4>1 DEF Reached
        <5>2. CASE stage = 1
          BY <3>1, <5>1, <5>2, Names, Resources DEF Reached
        <5>3. CASE stage # 1
          <6>1. Stages[stage] \in Resource
            BY <3>2, <5>3, Names, Resources
          <6>2. Reached \cup {Stages[stage]} = {Stages[i] : i \in 2 .. stage}
            BY <3>2, <5>3 DEF Reached
          <6> QED BY <3>1, <5>1, <6>1, <6>2
        <5> QED BY <5>2, <5>3
      <4>3. "device" \in Reached' => "class" \in Reached'
        <5>1. stage + 1 \in 1 .. 7
          BY <3>2
        <5>2. "device" \in {Stages[i] : i \in 2 .. stage} => stage = 6
          BY <3>2, Names
        <5>3. "class" \in {Stages[i] : i \in 2 .. 6}
          BY Names
        <5> QED BY <4>1, <5>2, <5>3 DEF Reached
      <4> QED BY <4>1, <4>2, <4>3
    <3>3. CASE stage = 7
      <4>1. taken' = taken \cup {"attributes"} /\ phase' = "bound"
        BY <2>1, <3>3, Names, Resources DEF TakeStage
      <4> QED BY <3>1, <3>3, <4>1, ReachedAt, Resources
    <3> QED BY <3>2, <3>3
  <2>2. CASE FailStage
    <3>1. /\ phase' = "undoing" /\ label' = UnwindFrom(Stages[stage])
          /\ taken' = IF Stages[stage] = "attributes" THEN taken \cup {"attributes"} ELSE taken
          /\ taken = Reached /\ Stages[stage] \notin Unseen
      BY <2>2, HasReached DEF FailStage
    <3>2. stage # 5 /\ stage # 6
      BY <3>1, Names DEF Unseen
    <3>3. taken' \ {"regbase"} = {Labels[i] : i \in label' .. 5}
      <4>1. CASE stage \in {1, 2}
        <5>1. label' = 6 /\ taken' = {}
          BY <3>1, <4>1, Names, ReachedAt DEF UnwindFrom
        <5> QED BY <5>1
      <4>2. CASE stage = 3
        <5>1. label' = 6 /\ taken' = {"regbase"}
          BY <3>1, <4>2, Names, ReachedAt DEF UnwindFrom
        <5> QED BY <5>1
      <4>3. CASE stage = 4
        <5>1. label' = 5 /\ taken' = {"regbase", "devnum"}
          BY <3>1, <4>3, Names, ReachedAt DEF UnwindFrom
        <5>2. taken' \ {"regbase"} = {"devnum"}
          BY <5>1
        <5>3. {Labels[i] : i \in label' .. 5} = {"devnum"}
          BY <5>1, Names
        <5> QED BY <5>2, <5>3
      <4>4. CASE stage = 7
        <5>1. label' = 1
          BY <3>1, <4>4, Names DEF UnwindFrom
        <5>2. taken' = {"regbase", "devnum", "cdev", "class", "device", "attributes"}
          BY <3>1, <4>4, Names, ReachedAt
        <5>3. taken' \ {"regbase"} = {"attributes", "device", "class", "cdev", "devnum"}
          BY <5>2
        <5> QED BY <5>1, <5>3, Owed
      <4> QED BY <3>2, <4>1, <4>2, <4>3, <4>4
    <3> QED BY <3>1, <3>3
  <2>3. CASE MissStage
    <3>1. /\ stage \in {5, 6} /\ stage' = stage + 1
          /\ phase = "probing" /\ phase' = "probing" /\ taken' = taken
      BY <2>3, Names DEF MissStage, Unseen
    <3>2. Reached' = Reached \cup {Stages[stage]}
      BY <3>1 DEF Reached
    <3>3. Stages[stage] \in Unseen
      BY <2>3 DEF MissStage
    <3>4. Reached' \ Unseen \subseteq taken' /\ taken' \subseteq Reached'
      BY <3>1, <3>2, <3>3
    <3> QED BY <3>1, <3>4
  <2>4. CASE Oops
    <3>1. phase = "probing" /\ phase' = "oops" /\ taken' = taken /\ stage = 7
      BY <2>4, Names DEF Oops
    <3>2. Reached = {"regbase", "devnum", "cdev", "class", "device"}
      BY <3>1, ReachedAt
    <3> QED BY <3>1, <3>2 DEF Unseen
  <2>5. CASE Undo
    <3>1. /\ label \in 1 .. 5 /\ label' = label + 1
          /\ taken' = taken \ {Labels[label]} /\ UNCHANGED phase
          /\ phase \in {"undoing", "removing"}
      BY <2>5 DEF Undo
    <3>2. {Labels[i] : i \in label .. 5} \ {Labels[label]} = {Labels[i] : i \in label + 1 .. 5}
      BY <3>1, Names
    <3> QED BY <3>1, <3>2
  <2>6. CASE EndUndo
    <3>1. taken \ {"regbase"} = {}
      BY <2>6, Owed DEF EndUndo
    <3>2. phase' = "idle" /\ taken' = taken \ {"regbase"}
      BY <2>6 DEF EndUndo
    <3> QED BY <3>1, <3>2
  <2> QED BY <1>1, <2>1, <2>2, <2>3, <2>4, <2>5, <2>6 DEF KernelStep
<1>2. CASE Admin
  <2>1. CASE Insmod
    BY <2>1 DEF Insmod, Reached
  <2>2. CASE Rmmod \/ Unbind
    <3>1. CASE phase' = "removing" /\ label' = 1 /\ phase = "bound" /\ UNCHANGED taken
      BY <3>1, Owed, Resources
    <3>2. CASE UNCHANGED <<phase, label, stage, taken>>
      BY <3>2 DEF Reached
    <3> QED BY <2>2, <3>1, <3>2 DEF Rmmod, Unbind
  <2>3. ASSUME NEW d \in Device, Probe(d) PROVE HeldInv'
    <3>1. Reached' = {}
      BY <2>3 DEF Probe, Reached
    <3> QED BY <2>3, <3>1 DEF Probe
  <2>4. ASSUME NEW d \in Device, Refuse(d) PROVE HeldInv'
    BY <2>4 DEF Refuse, Reached
  <2> QED BY <1>2, <2>1, <2>2, <2>3, <2>4 DEF Admin
<1>3. ASSUME NEW p \in Process, DeviceFile(p) \/ Attribute(p) PROVE HeldInv'
  <2>1. UNCHANGED kernel
    BY <1>3 DEF DeviceFile, Attribute, Open, Release, ReadWrite, Ioctl, Seek, Read, Write,
                IoctlRead, IoctlWrite, Store, StoreBegin, ShowBegin, CallEnds, StoreLock,
                StoreRejected, ShowEnd, StoreEnd
  <2> QED BY <2>1 DEF kernel, Reached
<1>4. CASE UNCHANGED driverVars
  BY <1>4 DEF driverVars, kernel, Reached
<1> QED BY <1>1, <1>2, <1>3, <1>4 DEF DriverNext

\* A probe that returns has given back what it took or holds everything, and
\* remove leaves nothing over, whatever stages fail: also class_create and
\* device_create, whose failures probe does not see, for that probe does not
\* return.
THEOREM NothingEverLeaks == DriverSpec => []NothingLeaks
<1>1. DriverTypeOK /\ HeldInv /\ [DriverNext]_driverVars => HeldInv'
  BY HeldNext
<1>2. HeldInv => NothingLeaks
  BY DEF HeldInv, NothingLeaks
<1> QED BY <1>1, <1>2, HeldInit, DriverTypeInit, DriverTypeNext, PTL DEF DriverSpec

(***************************************************************************)
(* The Linux driver: accesses to the registers.                             *)
(***************************************************************************)
\* The invariant is about the driver core as well as open files and calls.
LEMMA UseInit == DriverInit => UseInv
BY LinuxDriverAssumption DEF DriverInit, UseInv, FaultOnlyIfRipped

\* A register access finds the region mapped, or the driver was ripped out.
LEMMA TouchIsSafe ==
  ASSUME UseInv, Touch, "regbase" \in taken \/ ripped, ripped' = ripped
  PROVE  FaultOnlyIfRipped'
BY DEF UseInv, Touch, FaultOnlyIfRipped

\* Calls on the device file: an open file keeps the region mapped.
LEMMA UseDeviceFile ==
  ASSUME DriverTypeOK, UseInv, NEW p \in Process, DeviceFile(p)
  PROVE  UseInv'
<1> USE DEF DriverTypeOK, UseInv, FaultOnlyIfRipped
<1>1. CASE Open(p)
  BY <1>1 DEF Open, kernel
<1>2. CASE Release(p)
  BY <1>2 DEF Release, kernel
<1>3. CASE Seek(p)
  BY <1>3 DEF Seek, kernel, past
<1>4. CASE Read(p) \/ \E r \in ReadableRegs : IoctlRead(p, r)
  BY <1>4, TouchIsSafe DEF Read, IoctlRead, kernel, files
<1>5. ASSUME NEW r, fd[p] = "open", Store(p, r) PROVE UseInv'
  BY <1>5, TouchIsSafe DEF Store, kernel, files
<1> QED BY <1>1, <1>2, <1>3, <1>4, <1>5
        DEF DeviceFile, ReadWrite, Ioctl, Write, IoctlWrite

\* Attribute calls: the driver is bound, or waits for them before it removes
\* anything.
LEMMA UseAttribute ==
  ASSUME DriverTypeOK, HeldInv, UseInv, NEW p \in Process, Attribute(p)
  PROVE  UseInv'
<1> USE DEF DriverTypeOK, UseInv, FaultOnlyIfRipped
<1>1. attr[p] # "none" => "regbase" \in taken
  BY Resources DEF HeldInv
<1>2. CASE StoreBegin(p) \/ ShowBegin(p)
  <2>1. phase = "bound"
    <3>1. "attributes" \in taken /\ phase \notin {"undoing", "removing"}
      BY <1>2 DEF StoreBegin, ShowBegin, AttributesLive
    <3>2. phase # "probing"
      <4> SUFFICES ASSUME phase = "probing" PROVE FALSE
        OBVIOUS
      <4>1. "attributes" \in Reached
        BY <3>1 DEF HeldInv
      <4> QED BY <4>1, Names DEF Reached
    <3> QED BY <3>1, <3>2 DEF Phases, HeldInv
  <2> QED BY <1>2, <2>1 DEF StoreBegin, ShowBegin, kernel, past
<1>3. CASE StoreLock(p)
  BY <1>3 DEF StoreLock, kernel, past
<1>4. CASE StoreRejected(p)
  BY <1>4 DEF StoreRejected, kernel, past
<1>5. CASE ShowEnd(p)
  BY <1>1, <1>5, TouchIsSafe DEF ShowEnd, kernel
<1>6. ASSUME NEW r, StoreEnd(p, r) PROVE UseInv'
  BY <1>1, <1>6, TouchIsSafe DEF StoreEnd, kernel
<1> QED BY <1>2, <1>3, <1>4, <1>5, <1>6 DEF Attribute, CallEnds

\* The driver core: removal begins only without open files, or rips, and
\* gives back only what is taken.
LEMMA UseKernel ==
  ASSUME DriverTypeOK, HeldInv, UseInv, KernelStep
  PROVE  UseInv'
<1> USE DEF DriverTypeOK, UseInv, FaultOnlyIfRipped
<1>1. CASE TakeStage
  <2>1. /\ phase = "probing" /\ phase' \in {"probing", "bound"}
        /\ taken \subseteq taken'
        /\ "cdev" \in taken' => "cdev" \in taken \/ Stages[stage] = "cdev"
        /\ UNCHANGED <<module, opened, fd, attr, fault, ripped>>
    BY <1>1 DEF TakeStage, files, past
  <2>2. Stages[stage] = "cdev" => "regbase" \in taken
    <3>1. Stages[stage] = "cdev" => stage = 4
      BY Names
    <3>2. stage = 4 => taken = {"regbase", "devnum"}
      BY <2>1, ReachedAt DEF HeldInv, Unseen
    <3> QED BY <3>1, <3>2
  <2> QED BY <2>1, <2>2
<1>2. CASE FailStage
  <2>1. /\ phase = "probing" /\ phase' = "undoing"
        /\ taken \subseteq taken'
        /\ "cdev" \in taken' => "cdev" \in taken
        /\ UNCHANGED <<module, opened, fd, attr, fault, ripped>>
    BY <1>2 DEF FailStage, files, past
  <2> QED BY <2>1
<1>3. CASE MissStage
  BY <1>3 DEF MissStage, files, past
<1>4. CASE Oops
  BY <1>4 DEF Oops, files, past, HeldInv
<1>5. CASE Undo
  <2>1. /\ phase \in {"undoing", "removing"} /\ label \in 1 .. 5 /\ label' = label + 1
        /\ label = 1 => \A p \in Process : attr[p] = "none"
        /\ taken' = taken \ {Labels[label]}
        /\ fault' = (fault \/ Labels[label] \notin taken)
        /\ UNCHANGED <<module, phase, opened, fd, attr, ripped>>
    BY <1>5, Names DEF Undo, files
  <2>2. Labels[label] \in taken
    <3>1. Labels[label] \in {Labels[i] : i \in label .. 5}
      BY <2>1
    <3> QED BY <2>1, <3>1 DEF HeldInv
  <2>3. Labels[label] # "regbase"
    BY <2>1, Names
  <2>4. \A p \in Process : attr[p] = "none"
    BY <2>1
  <2>5. fault' = fault
    BY <2>1, <2>2, Zenon
  <2> QED BY <2>1, <2>3, <2>4, <2>5
<1>6. CASE EndUndo
  <2>1. taken' = {} /\ phase' = "idle"
    <3>1. taken \ {"regbase"} = {}
      BY <1>6, Owed DEF EndUndo, HeldInv
    <3> QED BY <1>6, <3>1 DEF EndUndo, HeldInv
  <2>2. /\ ripped' = (ripped \/ (module = "in" /\ opened # {}))
        /\ module' = IF module = "leaving" THEN "out" ELSE module
        /\ UNCHANGED <<opened, fd, attr, fault>>
    BY <1>6 DEF EndUndo, files
  <2>3. module \in {"in", "leaving"}
    BY <1>6 DEF EndUndo
  <2>4. \A p \in Process : attr[p] = "none"
    BY <1>6 DEF EndUndo
  <2>5. opened # {} => ripped'
    BY <2>2, <2>3
  <2> QED BY <2>1, <2>2, <2>3, <2>4, <2>5
<1> QED BY <1>1, <1>2, <1>3, <1>4, <1>5, <1>6 DEF KernelStep

\* The commands of the administrator.
LEMMA UseAdmin ==
  ASSUME DriverTypeOK, HeldInv, UseInv, Admin
  PROVE  UseInv'
<1> USE DEF DriverTypeOK, UseInv, FaultOnlyIfRipped
<1>1. CASE Insmod
  BY <1>1 DEF Insmod, files, past
<1>2. CASE Rmmod
  <2>1. "regbase" \in taken \/ phase = "idle"
    BY <1>2, Resources DEF Rmmod, HeldInv
  <2> QED BY <1>2, <2>1 DEF Rmmod, ModuleInUse, files, past
<1>3. CASE Unbind
  <2>1. "regbase" \in taken
    BY <1>3, Resources DEF Unbind, HeldInv
  <2> QED BY <1>3, <2>1 DEF Unbind, files, past
<1>4. ASSUME NEW d \in Device, Probe(d) PROVE UseInv'
  BY <1>4 DEF Probe, files, past
<1>5. ASSUME NEW d \in Device, Refuse(d) PROVE UseInv'
  BY <1>5 DEF Refuse, files, past
<1> QED BY <1>1, <1>2, <1>3, <1>4, <1>5 DEF Admin

\* Every step keeps the invariant.
LEMMA UseNext ==
  ASSUME DriverTypeOK, HeldInv, UseInv, [DriverNext]_driverVars
  PROVE  UseInv'
<1>1. CASE UNCHANGED driverVars
  BY <1>1 DEF driverVars, kernel, files, past, UseInv, FaultOnlyIfRipped
<1> QED BY <1>1, UseKernel, UseAdmin, UseDeviceFile, UseAttribute DEF DriverNext

\* Without an unbind under an open file no access misses the registers, and
\* nothing is freed twice, whatever stages of probe fail.
THEOREM AccessesAreSafe == DriverSpec => []FaultOnlyIfRipped
<1>1. DriverTypeOK /\ HeldInv /\ [DriverNext]_driverVars => HeldInv'
  BY HeldNext
<1>2. DriverTypeOK /\ HeldInv /\ UseInv /\ [DriverNext]_driverVars => UseInv'
  BY UseNext
<1>3. UseInv => FaultOnlyIfRipped
  BY DEF UseInv
<1> QED BY <1>1, <1>2, <1>3, HeldInit, UseInit, DriverTypeInit, DriverTypeNext, PTL DEF DriverSpec
=============================================================================
