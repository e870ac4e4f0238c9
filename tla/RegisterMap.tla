----------------------------- MODULE RegisterMap -----------------------------
(***************************************************************************)
(* What the accessors of iob_uart16550_csrs.h promise: each call acts once, *)
(* at once, on one register of the UART whose base address is set, and on   *)
(* nothing else, although three registers lie behind a bit of LC.           *)
(***************************************************************************)
EXTENDS Integers, Sequences

CONSTANTS Base,     \* base addresses of the UARTs
          Byte      \* values software writes, and values of volatile registers

VARIABLES base,     \* the UART selected
          pending,  \* the call being made, or NoCall
          latch,    \* the registers that keep what is written, by UART
          trace,    \* what the last call did to registers other than LC
          reply     \* what the last call returned

mapVars == <<base, pending, latch, trace, reply>>

Latched == {"ie", "lc", "dl1", "dl2"}
Getter  == {"rb", "ie", "ii", "lc", "ls", "ms", "dl1", "dl2", "db1", "db2"}
Setter  == {"tr", "ie", "fc", "lc", "mc", "dl1", "dl2"}

NoCall == [op |-> "none"]
Call   == [op : {"get"}, reg : Getter] \cup [op : {"set"}, reg : Setter, value : Byte]
          \cup [op : {"init"}, msb : Byte, lsb : Byte]

\* ier has four bits.
Kept(r, v) == IF r = "ie" THEN v % 16 ELSE v

\* Values after reset, 8n1 and no divisor.
Power == [r \in Latched |-> IF r = "lc" THEN 3 ELSE 0]

MapInit == /\ base = 0
           /\ pending = NoCall
           /\ latch = [u \in Base |-> Power]
           /\ trace = <<>> /\ reply = 0

Select(b) == /\ pending = NoCall
             /\ base' = b
             /\ UNCHANGED <<pending, latch, trace, reply>>

Begin(call) == /\ pending = NoCall
               /\ pending' = call
               /\ trace' = <<>> /\ reply' = 0
               /\ UNCHANGED <<base, latch>>

\* The registers a call is about, in the order it must reach them.
Intended(call) ==
  CASE call.op = "init" -> <<"dl2", "dl1", "fc", "ie">>
    [] call.op = "none" -> <<>>
    [] OTHER            -> IF call.reg = "lc" THEN <<>> ELSE <<call.reg>>

Answer(call) ==
  IF call.op # "get" THEN {0}
  ELSE IF call.reg \in Latched THEN {latch[base][call.reg]}
  ELSE IF call.reg \in {"db1", "db2"} THEN {0} ELSE Byte

NewLatch(call, old) ==
  CASE call.op = "set" /\ call.reg \in Latched ->
         [old EXCEPT ![call.reg] = Kept(call.reg, call.value)]
    [] call.op = "init" ->
         [old EXCEPT !["dl2"] = call.msb, !["dl1"] = call.lsb, !["ie"] = 3, !["lc"] = @ % 128]
    [] OTHER -> old

\* The whole effect of a call, when it returns.
Return ==
  /\ pending # NoCall
  /\ reply' \in Answer(pending)
  /\ latch' = [latch EXCEPT ![base] = NewLatch(pending, @)]
  /\ trace' = [i \in 1 .. Len(Intended(pending)) |-> <<base, Intended(pending)[i]>>]
  /\ pending' = NoCall
  /\ UNCHANGED base

MapNext == \/ \E b \in Base : Select(b)
           \/ \E call \in Call : Begin(call)
           \/ Return

MapSpec == MapInit /\ [][MapNext]_mapVars
=============================================================================
