------------------------------ MODULE WbBridge ------------------------------
(***************************************************************************)
(* The path of a register access: iob_iob2wishbone.v turns the requests of  *)
(* an IOb master into Wishbone cycles, uart_wb.v samples those and gives    *)
(* the register file one-cycle read and write strobes.  All accesses are of *)
(* one byte (READ_BYTES = 1, the byte accessors of the driver).             *)
(*                                                                          *)
(* A step is one rising edge of clk.                                        *)
(***************************************************************************)
EXTENDS Naturals, FiniteSets

CONSTANTS Addresses,  \* byte addresses of registers
          Octet,       \* the values of a byte
          ZeroOctet

ASSUME OctetAssumption == ZeroOctet \in Octet /\ Addresses \subseteq Nat

VARIABLES iob_valid, iob_addr, iob_wdata, iob_wstrb,  \* the master's outputs
          wb_dat8_o,                                  \* register file output
          iob_valid_r, held,                          \* registers of the
          wb_data_r, iob_rvalid,                      \* bridge
          cyc_is, is,                                 \* sampled Wishbone inputs
          wbstate, wb_ack, wre, wb_dat_o,             \* uart_wb.v
          request,   \* history: the request accepted last
          strobes,   \* history: strobes seen since then, at most 2
          returned,  \* history: address and byte of the read done last, or NoAnswer
          apart      \* history: cycles since the last strobe, at most 2

master  == <<iob_valid, iob_addr, iob_wdata, iob_wstrb>>
bridge  == <<iob_valid_r, held, wb_data_r, iob_rvalid>>
core    == <<cyc_is, is, wbstate, wb_ack, wre, wb_dat_o>>
history == <<request, strobes, returned, apart>>
bridgeVars    == <<master, wb_dat8_o, bridge, core, history>>

Lane  == 0 .. 3
Lanes == [Lane -> Octet]
NoAnswer == <<>>
OnLane(l, b) == [i \in Lane |-> IF i = l THEN b ELSE ZeroOctet]

\* adr, select lines, write enable and data of a Wishbone cycle.
Wishbone == [adr : Addresses, sel : SUBSET Lane, we : BOOLEAN, dat : Lanes]
NoCycle  == [adr |-> 0, sel |-> {}, we |-> FALSE, dat |-> OnLane(0, ZeroOctet)]

\* Outputs of the bridge: the request itself in its first cycles, then the
\* registered copy.
wb_we == iob_wstrb # {}
Asked == [adr |-> iob_addr, we |-> wb_we, dat |-> iob_wdata,
          sel |-> IF wb_we THEN iob_wstrb ELSE {iob_addr % 4}]
wb     == IF iob_valid THEN Asked ELSE held
wb_cyc == iob_valid \/ iob_valid_r

iob_ready == wb_ack
iob_rdata == IF wb_ack THEN wb_dat_o ELSE wb_data_r

\* Strobes of uart_wb.v to the register file, with address and data picked
\* out by the select lines.
we_o == is.we /\ cyc_is /\ wre
re_o == ~is.we /\ cyc_is /\ wre

SelectedLane == IF Cardinality(is.sel) = 1 THEN CHOOSE l \in is.sel : TRUE ELSE 0
wb_adr_int == 4 * (is.adr \div 4) + SelectedLane
wb_dat8_i  == is.dat[SelectedLane]

Reset == /\ iob_valid_r = FALSE /\ held = NoCycle
         /\ wb_data_r = OnLane(0, ZeroOctet) /\ iob_rvalid = FALSE
         /\ cyc_is = FALSE /\ is = NoCycle
         /\ wbstate = 0 /\ wb_ack = FALSE /\ wre = TRUE
         /\ wb_dat_o = OnLane(0, ZeroOctet)

\* A mutant of Bridge: the data of the request are not registered.
BridgeForgetsData ==
  /\ iob_valid_r' = (~wb_ack /\ (iob_valid \/ iob_valid_r))
  /\ held' = IF iob_valid THEN [Asked EXCEPT !.dat = OnLane(0, ZeroOctet)] ELSE held
  /\ wb_data_r' = IF wb_ack THEN wb_dat_o ELSE wb_data_r
  /\ iob_rvalid' = (~iob_rvalid /\ iob_valid /\ iob_ready /\ ~held.we)

\* The registers of the bridge; those with a synchronous reset are cleared
\* by it whatever their enable.
Bridge ==
  /\ iob_valid_r' = (~wb_ack /\ (iob_valid \/ iob_valid_r))
  /\ held' = IF iob_valid THEN Asked ELSE held
  /\ wb_data_r' = IF wb_ack THEN wb_dat_o ELSE wb_data_r
  /\ iob_rvalid' = (~iob_rvalid /\ iob_valid /\ iob_ready /\ ~held.we)

Sample == cyc_is' = wb_cyc /\ is' = wb

\* Mutants of Acknowledge: without the pause of state 2, with wre left low
\* after it, stuck in it, and counting on.
AcknowledgeTwoStates ==
  \/ wbstate = 0 /\ cyc_is  /\ wre' = FALSE /\ wbstate' = 1 /\ wb_ack' = TRUE
  \/ wbstate = 0 /\ ~cyc_is /\ wre' = TRUE  /\ wbstate' = 0 /\ wb_ack' = FALSE
  \/ wbstate = 1            /\ wre' = TRUE  /\ wbstate' = 0 /\ wb_ack' = FALSE
AcknowledgeAfter(state, enable) ==
  \/ wbstate = 0 /\ cyc_is  /\ wre' = FALSE  /\ wbstate' = 1 /\ wb_ack' = TRUE
  \/ wbstate = 0 /\ ~cyc_is /\ wre' = TRUE   /\ wbstate' = 0 /\ wb_ack' = FALSE
  \/ wbstate = 1            /\ wre' = FALSE  /\ wbstate' = 2 /\ wb_ack' = FALSE
  \/ wbstate > 1            /\ wre' = enable /\ wbstate' = state /\ wb_ack' = FALSE
AcknowledgeKeepsWreLow == AcknowledgeAfter(0, FALSE)
AcknowledgeStuck       == AcknowledgeAfter(2, FALSE)
AcknowledgeCountsOn    == AcknowledgeAfter((wbstate + 1) % 4, TRUE)

\* The acknowledge machine: the sampled request of state 0 is acknowledged in
\* state 1; state 2 lets the request of the cycle of the acknowledge, still
\* in the sampling registers, pass by.
Acknowledge ==
  \/ /\ wbstate = 0 /\ cyc_is
     /\ wre' = FALSE /\ wbstate' = 1 /\ wb_ack' = TRUE
  \/ /\ wbstate = 0 /\ ~cyc_is
     /\ wre' = TRUE /\ wb_ack' = FALSE
     /\ UNCHANGED wbstate
  \/ /\ wbstate = 1
     /\ wb_ack' = FALSE /\ wbstate' = 2 /\ wre' = FALSE
  \/ /\ wbstate = 2
     /\ wb_ack' = FALSE /\ wbstate' = 0 /\ wre' = TRUE

\* A mutant of ReadData: the byte is not moved to its lane.
ReadDataOnLaneZero ==
  wb_dat_o' = IF re_o THEN OnLane(0, wb_dat8_o) ELSE wb_dat_o

ReadData ==
  wb_dat_o' = CASE re_o /\ Cardinality(is.sel) = 1 -> OnLane(SelectedLane, wb_dat8_o)
                [] re_o /\ Cardinality(is.sel) # 1 -> OnLane(0, ZeroOctet)
                [] OTHER                           -> wb_dat_o

\* One edge of clk.
Clock == Bridge /\ Sample /\ Acknowledge /\ ReadData

\* A request is outstanding until its iob_ready_o.  The master keeps it until
\* then; it may lower iob_valid_i early, as the registers of the bridge allow,
\* but asks nothing else meanwhile.
Outstanding == (iob_valid \/ iob_valid_r) /\ ~iob_ready

Requests == [addr : Addresses, write : BOOLEAN, data : Octet]

\* A byte goes and comes on the lane of its address.
Ask(r) == /\ iob_addr' = r.addr
          /\ iob_wstrb' = IF r.write THEN {r.addr % 4} ELSE {}
          /\ iob_wdata' = OnLane(r.addr % 4, r.data)

ByteOf(word, addr) == word[addr % 4]

Drive ==
  /\ wb_dat8_o' \in Octet
  /\ \/ /\ ~Outstanding
        /\ iob_valid' = TRUE
        /\ \E r \in Requests : Ask(r)
     \/ /\ ~Outstanding
        /\ iob_valid' = FALSE
        /\ iob_wstrb' = {}
        /\ UNCHANGED <<iob_addr, iob_wdata>>
     \/ /\ Outstanding
        /\ iob_valid' \in {iob_valid, FALSE}
        /\ UNCHANGED <<iob_addr, iob_wdata, iob_wstrb>>

Strobe == we_o \/ re_o

Accepted == iob_valid' /\ ~Outstanding

Observe ==
  /\ request' = IF Accepted THEN [addr  |-> iob_addr', write |-> iob_wstrb' # {},
                                  data  |-> iob_wdata'[iob_addr' % 4]]
                            ELSE request
  /\ strobes' = CASE Accepted                           -> 0
                  [] ~Accepted /\ Strobe /\ strobes < 2 -> strobes + 1
                  [] OTHER                              -> strobes
  /\ returned' = CASE re_o -> [addr |-> request.addr, byte |-> wb_dat8_o]
                   [] we_o -> NoAnswer
                   [] OTHER -> returned
  /\ apart' = CASE Strobe                -> 0
                [] ~Strobe /\ apart < 2  -> apart + 1
                [] OTHER                 -> 2

BridgeInit == /\ Reset
        /\ iob_valid = FALSE /\ iob_addr \in Addresses
        /\ iob_wdata = OnLane(0, ZeroOctet) /\ iob_wstrb = {}
        /\ wb_dat8_o \in Octet
        /\ request = [addr |-> iob_addr, write |-> FALSE, data |-> ZeroOctet]
        /\ strobes = 1
        /\ returned = NoAnswer
        /\ apart = 2

BridgeNext == Clock /\ Drive /\ Observe

BridgeSpec == BridgeInit /\ [][BridgeNext]_bridgeVars /\ WF_bridgeVars(BridgeNext)
-----------------------------------------------------------------------------
(* Properties *)

BridgeTypeOK == /\ iob_valid \in BOOLEAN /\ iob_addr \in Addresses
          /\ iob_wdata \in Lanes /\ iob_wstrb \subseteq Lane
          /\ wb_dat8_o \in Octet
          /\ iob_valid_r \in BOOLEAN /\ held \in Wishbone \union {NoCycle}
          /\ wb_data_r \in Lanes /\ iob_rvalid \in BOOLEAN
          /\ cyc_is \in BOOLEAN /\ is \in Wishbone \union {NoCycle}
          /\ wbstate \in 0 .. 2 /\ wb_ack \in BOOLEAN /\ wre \in BOOLEAN
          /\ wb_dat_o \in Lanes
          /\ request \in Requests /\ strobes \in 0 .. 2
          /\ returned \in [addr : Addresses, byte : Octet] \union {NoAnswer}
          /\ apart \in 0 .. 2

\* Reads of this register file have effects (they pop a character, clear
\* errors and interrupts), so that one too many loses data.  Each strobe is
\* the first for the request outstanding, with its address, its direction
\* and its data, although the sampling registers show a request for longer
\* than the strobe lasts and the next one may follow at once; and the
\* acknowledge comes only after it.
OneStrobePerRequest ==
  /\ Strobe => /\ strobes = 0
               /\ wb_adr_int = request.addr
               /\ we_o <=> request.write
               /\ we_o => wb_dat8_i = request.data
  /\ iob_ready => strobes = 1

\* The register file pushes a written character into the transmitter FIFO one
\* cycle after the strobe (tf_push) but takes it from wb_dat8_i itself: the
\* data must still be there.
DataHeldForPush == apart = 0 /\ request.write => wb_dat8_i = request.data

\* Two strobes are at least two cycles apart.  The interrupt and status logic
\* of the register file relies on it; TxStatus.tla and RxStatus.tla assume it.
StrobesApart == Strobe => apart = 2

\* A read is answered with the byte the register file returned to it, where
\* the test bench picks it up: on the lane of its address, in the cycle of
\* iob_ready_o and in that of iob_rvalid_o, when the master may already ask
\* for something else; and iob_rvalid_o never follows a write.
ReadReturns ==
  iob_rvalid \/ (iob_ready /\ ~request.write) =>
    returned # NoAnswer /\ ByteOf(iob_rdata, returned.addr) = returned.byte

\* Why: the acknowledge machine counts the cycles since a strobe;
MachineInv ==
  /\ wb_ack <=> wbstate = 1
  /\ wre <=> wbstate = 0
  /\ apart = IF wbstate = 0 THEN 2 ELSE wbstate - 1

\* the bus shows the request until it is acknowledged, so that the sampling
\* registers and the bridge hold it when it strobes and one cycle later, and
\* it has been seen once from then on;
Wanted == [adr |-> request.addr, sel |-> {request.addr % 4}, we |-> request.write,
           dat |-> OnLane(request.addr % 4, request.data)]

RequestInv ==
  /\ wb_cyc => wb = Wanted
  /\ wbstate = 1 \/ (wbstate = 0 /\ cyc_is) => wb_cyc /\ is = Wanted /\ held = Wanted
  /\ strobes = IF wb_cyc /\ wbstate # 1 THEN 0 ELSE 1

\* and the answer is in the output register of uart_wb.v in the cycle of the
\* acknowledge, and in that of the bridge one cycle later.
Carries(word) == returned # NoAnswer /\ ByteOf(word, returned.addr) = returned.byte

AnswerInv ==
  /\ wbstate = 1 /\ ~request.write => Carries(wb_dat_o)
  /\ iob_rvalid => wbstate = 2 /\ Carries(wb_data_r)

\* Every request is acknowledged, and the master's wait ends.
EveryRequestAnswered == Outstanding ~> iob_ready
=============================================================================
