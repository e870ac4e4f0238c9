--------------------------- MODULE RegisterAccess ----------------------------
(***************************************************************************)
(* Software that reaches the registers of two UARTs in simulation: the      *)
(* accessors of iob_uart16550_csrs.c and uart16550_init of iob_uart16550.c, *)
(* their bus accesses sent by iob_c_tb.c through two pipes to the simulator *)
(* (iob_v_tb.v), and the decoding of an address by uart_regs.v.             *)
(*                                                                          *)
(* A call is a program of bus accesses; an access is a request, its service *)
(* and its reply, each a step of one of the two processes.  That the bus    *)
(* carries an access to the right register is WbBridge's concern.           *)
(***************************************************************************)
EXTENDS Integers, Sequences, FiniteSets

CONSTANTS Base, Byte,
          Calls,       \* the calls the program makes, of those of RegisterMap
          ReqModulus   \* bound of the request counters (2^32 in the code)

VARIABLES
  c,        \* where the C program is
  v,        \* where the simulator is
  fifos,    \* the named pipes that exist
  c2v, v2c, \* the message in each pipe, or Nothing
  req, ack, \* request counters of the two sides
  base,     \* static base of the library
  call,     \* the call in progress
  at,       \* its next bus access
  saved,    \* its local copy of LC
  reply,    \* what the last call returned
  latch,    \* the registers that keep what is written
  before,   \* latch when the call began (history)
  touched   \* the registers other than LC the call reached (history)

software == <<base, call, at, saved, reply>>
hardware == <<latch, before, touched>>
pipes    == <<fifos, c2v, v2c>>
vars     == <<c, v, pipes, req, ack, software, hardware>>

Nothing == [req |-> -1]

M == INSTANCE RegisterMap WITH
       pending <- call,
       latch <- IF call.op = "none" THEN latch ELSE before,
       trace <- IF call.op = "none" THEN touched ELSE <<>>,
       reply <- IF call.op = "none" THEN reply ELSE 0

NoCall == M!NoCall

ASSUME RegisterAccessAssumption ==
  /\ 0 \in Base /\ \A b \in Base : b \in Nat /\ b % 32 = 0
  /\ Byte \subseteq 0 .. 255
  /\ Calls \subseteq M!Call
  /\ ReqModulus \in Nat \ {0, 1}

-----------------------------------------------------------------------------
(***************************************************************************)
(* Addresses                                                                *)
(***************************************************************************)
\* IOB_UART16550_CSRS_*_ADDR.
Address == [rb |-> 0, tr |-> 0, ie |-> 1, ii |-> 2, fc |-> 2, lc |-> 3, mc |-> 4,
            ls |-> 5, ms |-> 6, sr |-> 7, dl1 |-> 0, dl2 |-> 1, db1 |-> 8, db2 |-> 12]

\* The register of uart_regs.v that an access at offset a of a UART reaches.
Decode(a, mode, dlab) ==
  CASE a = 0 -> IF dlab THEN "dl1" ELSE IF mode = "R" THEN "rb" ELSE "tr"
    [] a = 1 -> IF dlab THEN "dl2" ELSE "ie"
    [] a = 2 -> IF mode = "R" THEN "ii" ELSE "fc"
    [] a = 3 -> "lc"
    [] a = 4 -> "mc"
    [] a = 5 -> "ls"
    [] a = 6 -> "ms"
    [] a = 7 -> "sr"
    [] a = 8 -> "db1"
    [] a = 12 -> "db2"

\* The base address whose UART answers at address a.
Instance(a) == (a \div 32) * 32

LCWithAdded(x) == x + 128

\* clr_bit and set_bit of bit 7.
LCWithout(x) == x % 128
LCWith(x)    == (x % 128) + 128

-----------------------------------------------------------------------------
(***************************************************************************)
(* The accessors                                                            *)
(***************************************************************************)
Access(mode, r, value) == [mode |-> mode, reg |-> r, value |-> value]
Save       == Access("R", "lc", "save")
Restore    == Access("W", "lc", "saved")

\* Registers that are only there with bit 7 of LC clear, or set.
Below == {"rb", "tr", "ie"}
Above == {"dl1", "dl2"}

AroundNoRestore(r, access) ==
  IF r \in Below THEN <<Save, Access("W", "lc", "without"), access>>
  ELSE IF r \in Above THEN <<Save, Access("W", "lc", "with"), access>>
  ELSE <<access>>

\* Save LC, set its bit 7 as the register needs it, access, restore LC.
Around(r, access) ==
  IF r \in Below THEN <<Save, Access("W", "lc", "without"), access, Restore>>
  ELSE IF r \in Above THEN <<Save, Access("W", "lc", "with"), access, Restore>>
  ELSE <<access>>

\* The bus accesses of each call, in order.
Program(k) ==
  CASE k.op = "get"  -> Around(k.reg, Access("R", k.reg, "reply"))
    [] k.op = "set"  -> Around(k.reg, Access("W", k.reg, "value"))
    [] k.op = "init" -> <<Save, Access("W", "lc", "with"),
                          Access("W", "dl2", "msb"), Access("W", "dl1", "lsb"),
                          Access("W", "lc", "without"),
                          Access("W", "fc", "trigger"), Access("W", "ie", "enables")>>

\* What an access of the current call writes.
ToWrite(access) ==
  CASE access.value = "saved"   -> saved
    [] access.value = "with"    -> LCWith(saved)
    [] access.value = "without" -> LCWithout(saved)
    [] access.value = "value"   -> call.value
    [] access.value = "msb"     -> call.msb
    [] access.value = "lsb"     -> call.lsb
    [] access.value = "trigger" -> 192
    [] access.value = "enables" -> 3
    [] OTHER                    -> 0

-----------------------------------------------------------------------------
(***************************************************************************)
(* The C program                                                            *)
(***************************************************************************)
Power == [b \in Base |-> M!Power]

Init ==
  /\ c = "mkfifo" /\ v = "open c2v"
  /\ fifos = {} /\ c2v = Nothing /\ v2c = Nothing
  /\ req = 0 /\ ack = 0
  /\ base = 0 /\ call = NoCall /\ at = 1 /\ saved = 0 /\ reply = 0
  /\ latch = Power /\ before = Power /\ touched = <<>>

MakePipesOneLate ==
  /\ c = "mkfifo"
  /\ fifos' = {"c2v"}
  /\ c' = "open c2v"
  /\ UNCHANGED <<v, c2v, v2c, req, ack, software, hardware>>

\* iob_start: mkfifo twice, before either pipe is opened.
MakePipes ==
  /\ c = "mkfifo"
  /\ fifos' = fifos \cup {IF "v2c" \notin fifos THEN "v2c" ELSE "c2v"}
  /\ c' = IF "v2c" \in fifos THEN "open c2v" ELSE c
  /\ UNCHANGED <<v, c2v, v2c, req, ack, software, hardware>>

\* fopen of a pipe waits for the other side to open it too.
MeetAtC2V ==
  /\ c = "open c2v" /\ v = "open c2v" /\ "c2v" \in fifos
  /\ c' = "open v2c" /\ v' = "open v2c"
  /\ UNCHANGED <<pipes, req, ack, software, hardware>>

\* $fopen for writing makes an ordinary file where there is no pipe.
MeetAtV2C ==
  /\ v = "open v2c"
  /\ "v2c" \in fifos => c = "open v2c"
  /\ v' = "serve"
  /\ c' = IF "v2c" \in fifos THEN "idle" ELSE "aborted"
  /\ UNCHANGED <<pipes, req, ack, software, hardware>>

\* iob_uart16550_csrs_init_baseaddr, uart16550_base.
SetBase(b) ==
  /\ c = "idle"
  /\ base' = b
  /\ UNCHANGED <<c, v, pipes, req, ack, call, at, saved, reply, hardware>>

\* A call begins.
Enter(k) ==
  /\ c = "idle"
  /\ call' = k /\ at' = 1 /\ reply' = 0
  /\ before' = latch /\ touched' = <<>>
  /\ c' = "send"
  /\ UNCHANGED <<v, pipes, req, ack, base, saved, latch>>

\* iob_read and iob_write: the request.
Send ==
  /\ c = "send"
  /\ LET access == Program(call)[at]
     IN c2v' = [req |-> req, mode |-> access.mode, address |-> base + Address[access.reg],
                data |-> IF access.mode = "W" THEN ToWrite(access) ELSE 0]
  /\ c' = "wait"
  /\ UNCHANGED <<v, fifos, v2c, req, ack, software, hardware>>

\* The reply belongs to the request, or the program exits with 1.
Matches(m) == /\ m.req = req /\ m.mode = Program(call)[at].mode
              /\ m.address = base + Address[Program(call)[at].reg]
              /\ m.mode = "W" => m.data = ToWrite(Program(call)[at])

\* The next bus access of the call, or its return.
Receive ==
  /\ c = "wait" /\ v2c # Nothing
  /\ v2c' = Nothing
  /\ IF ~Matches(v2c)
     THEN c' = "aborted" /\ UNCHANGED <<req, call, at, saved, reply>>
     ELSE /\ req' = (req + 1) % ReqModulus
          /\ saved' = IF Program(call)[at].value = "save" THEN v2c.data ELSE saved
          /\ reply' = IF Program(call)[at].value = "reply" THEN v2c.data ELSE reply
          /\ IF at < Len(Program(call))
             THEN at' = at + 1 /\ c' = "send" /\ UNCHANGED call
             ELSE at' = 1 /\ c' = "idle" /\ call' = NoCall
  /\ UNCHANGED <<v, fifos, c2v, ack, base, hardware>>

\* iob_finish: the last request is not answered.
Finish ==
  /\ c = "idle"
  /\ c2v' = [req |-> req, mode |-> "F", address |-> 0, data |-> 0]
  /\ c' = "exited"
  /\ UNCHANGED <<v, fifos, v2c, req, ack, software, hardware>>

-----------------------------------------------------------------------------
(***************************************************************************)
(* The simulator                                                            *)
(***************************************************************************)
\* What a read returns; volatile registers read as any value.
Readable(u, r) == IF r \in M!Latched THEN {latch[u][r]}
                  ELSE IF r \in {"rb", "ii", "ls", "ms"} THEN Byte ELSE {0}

\* A bus access reaches register r of UART u and is answered with data.
Perform(u, r, m, data) ==
  /\ touched' = IF r = "lc" THEN touched ELSE Append(touched, <<u, r>>)
  /\ v2c' = [m EXCEPT !.data = data]
  /\ latch' = IF m.mode = "W" /\ r \in M!Latched
              THEN [latch EXCEPT ![u][r] = M!Kept(r, data)] ELSE latch

NextAckSkipsOne == (ack + 2) % ReqModulus
NextAck == (ack + 1) % ReqModulus

\* The server loop: a request out of turn is dropped without an answer.
Serve ==
  /\ v = "serve" /\ c2v # Nothing
  /\ c2v' = Nothing
  /\ IF c2v.req # ack \/ c2v.mode = "F"
     THEN /\ v' = IF c2v.req = ack THEN "finished" ELSE v
          /\ UNCHANGED <<v2c, ack, latch, touched>>
     ELSE LET u == Instance(c2v.address)
              r == Decode(c2v.address % 32, c2v.mode, latch[u]["lc"] >= 128)
          IN /\ \E data \in IF c2v.mode = "W" THEN {c2v.data} ELSE Readable(u, r) :
                  Perform(u, r, c2v, data)
             /\ ack' = NextAck
             /\ UNCHANGED v
  /\ UNCHANGED <<c, fifos, req, software, before>>

-----------------------------------------------------------------------------
Progress == MakePipes \/ MeetAtC2V \/ MeetAtV2C \/ Send \/ Receive \/ Serve

Next == \/ Progress
        \/ \E b \in Base : SetBase(b)
        \/ \E k \in Calls : Enter(k)
        \/ Finish

\* Both processes run; the test program may pause between calls.
Spec == Init /\ [][Next]_vars /\ WF_vars(Progress)

-----------------------------------------------------------------------------
(***************************************************************************)
(* Properties                                                               *)
(***************************************************************************)
Bytes   == 0 .. 255
Message == [req : 0 .. ReqModulus - 1, mode : {"R", "W", "F"}, address : Nat, data : Bytes]
Starting == {"mkfifo", "open c2v", "open v2c"}

\* The variables have their types.
TypeOK ==
  /\ c \in Starting \cup {"idle", "send", "wait", "exited", "aborted"}
  /\ v \in {"open c2v", "open v2c", "serve", "finished"}
  /\ fifos \subseteq {"c2v", "v2c"}
  /\ c2v \in Message \cup {Nothing} /\ v2c \in Message \cup {Nothing}
  /\ req \in 0 .. ReqModulus - 1 /\ ack \in 0 .. ReqModulus - 1
  /\ base \in Base /\ call \in Calls \cup {NoCall}
  /\ at \in 1 .. 7 /\ saved \in Bytes /\ reply \in Bytes
  /\ latch \in [Base -> [M!Latched -> Bytes]]
  /\ before \in [Base -> [M!Latched -> Bytes]]
  /\ touched \in Seq(Base \X DOMAIN Address)

\* Every call does what RegisterMap says: it reaches its own register of the
\* selected UART once, in spite of the divisor latch access bit, leaves LC
\* and everything else as it was, and returns the register's value.
ImplementsRegisterMap == M!MapSpec

\* The two processes agree on pipes, request numbers and messages: neither
\* exit(1) of iob_c_tb.c nor an ordinary file in place of a pipe.
NeverAborts == c # "aborted"

\* The start of the two processes and every call come to an end.
EveryCallReturns == c \notin {"idle", "exited"} ~> c = "idle"
=============================================================================
