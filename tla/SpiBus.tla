------------------------------- MODULE SpiBus -------------------------------
(***************************************************************************)
(* The path of one register access: SpiDev::write_at or read_at on the     *)
(* Raspberry Pi, spislave (hdl/spi_slave.vhd) on the SPI clock, the seven  *)
(* sync_Vector of hdl/top.vhd, and the register bank (hdl/sky-tracker.vhd) *)
(* on clock_150.                                                           *)
(*                                                                         *)
(* A transfer is an address byte, four data bytes and a byte of holdoff: a *)
(* write sends the holdoff last, a read ignores what comes back in it.     *)
(* spislave samples the SPI clock with clock_150, so that its edges follow *)
(* ticks of clock_150.  They are Period / Unit ticks apart and stop        *)
(* between transfers, and with them one side of every crossing.            *)
(*                                                                         *)
(* The crossings are SyncVector with a depth of 2.  A capture is whole     *)
(* there (CaptureIsWhole), so that here D4 takes D0.  What a crossing in   *)
(* "late" sends has a long route, and is seen as it was a tick ago.        *)
(***************************************************************************)
EXTENDS Integers

CONSTANTS Transfers,    \* [write, address, word]: what the software asks for
          Unit, Period, \* the SPI clock is Period / Unit ticks of clock_150
          Lates         \* sets of crossings of which one is late

ADDR_WIDTH == 8
DATA_WIDTH == 32
HOLDOFF == 8
TransferBits == ADDR_WIDTH + DATA_WIDTH + HOLDOFF

ToBus == {"address", "strobe", "rw", "write_data"}
FromBus == {"ack", "sts_read", "ctrl_read"}
Crossings == ToBus \cup FromBus
Banks == {"sts", "ctrl"}
Addresses == 0..63
Registers == 0..29   \* those of the control bank

ASSUME SpiAssumption ==
    /\ Unit \in Nat \ {0} /\ Period \in Nat \ {0} /\ Lates \subseteq SUBSET Crossings
    /\ \A t \in Transfers : IF t.write THEN t.address \in Registers
                                       ELSE t.address \in Addresses

VARIABLES op, got,                                 \* the software
          wait,                                    \* 1/Unit ticks to the next SPI edge
          spi_ce, last_spi_ce, spi_rst,
          count, addr, data, strobe, write, out,   \* spislave
          cross, late,                             \* the crossings
          ctrl, read_data, ack, acknowledge,       \* the register bank
          landed                                   \* history: the write has reached it

chip == <<last_spi_ce, spi_rst>>
slave == <<count, addr, data, strobe, write, out>>
bank == <<ctrl, read_data, ack, acknowledge, landed>>
vars == <<op, got, wait, spi_ce, chip, slave, cross, late, bank>>

-----------------------------------------------------------------------------
(* One edge of either clock of a crossing. *)

Quiet == [D0 |-> 0, T1 |-> 0, sent |-> 0, syncClk2 |-> <<0, 0>>,
          D2 |-> 0, D4 |-> 0, syncClk1 |-> <<0, 0>>]

Busy(x) == x.T1 # x.syncClk1[2]

Clock1(x, Input) ==
    [x EXCEPT !.D0 = IF Busy(x) THEN @ ELSE Input,
              !.T1 = IF ~Busy(x) /\ x.D0 # Input THEN 1 - @ ELSE @,
              !.syncClk1 = <<x.D2, @[1]>>]

Clock2(x, level) ==
    [x EXCEPT !.D4 = IF x.syncClk2[2] # x.D2 THEN x.D0 ELSE @,
              !.D2 = x.syncClk2[2],
              !.syncClk2 = <<level, @[1]>>]

Level(c) == IF c \in late THEN cross[c].sent ELSE cross[c].T1
Output(c) == cross[c].D4
Number(b) == IF b THEN 1 ELSE 0

-----------------------------------------------------------------------------
(* clock_150: the register bank, and the chip select of spislave. *)

sts_select == (addr \div 32) % 2 = 1
Enabled(b) == Output("strobe") = 1 /\ sts_select = (b = "sts")
Reads(b) == Enabled(b) /\ Output("rw") = 1
Writes == Enabled("ctrl") /\ Output("rw") = 0

\* A status register holds what identifies it.
StatusAt(a) == IF a % 16 <= 11 THEN 128 + (a % 16) ELSE 0
ControlAt(a) == IF a \in Registers THEN ctrl[a] ELSE 0
Stored(b, a) == IF b = "sts" THEN StatusAt(a) ELSE ControlAt(a)

BankEdge ==
    /\ acknowledge' = ack
    /\ ack' = [sts |-> Reads("sts"), ctrl |-> Enabled("ctrl")]
    /\ read_data' = [b \in Banks |-> IF Reads(b) THEN Stored(b, Output("address"))
                                                 ELSE read_data[b]]
    /\ ctrl' = [a \in Registers |-> IF Writes /\ a = Output("address")
                                    THEN Output("write_data") ELSE ctrl[a]]
    /\ landed' = (landed \/ Writes)

BusInput(c) == CASE c = "ack" -> Number(\E b \in Banks : acknowledge[b])
                 [] c = "sts_read" -> read_data["sts"]
                 [] c = "ctrl_read" -> read_data["ctrl"]

\* spi_rst comes with the second tick without chip select, and holds.
ResetSlave == /\ count' = 0 /\ strobe' = FALSE /\ write' = FALSE /\ out' = 0
              /\ UNCHANGED <<addr, data>>

Tick ==
    /\ spi_ce \/ wait > 0
    /\ wait' = IF spi_ce THEN 0 ELSE wait - Unit
    /\ last_spi_ce' = spi_ce
    /\ spi_rst' = (last_spi_ce /\ spi_ce)
    /\ IF spi_rst' THEN ResetSlave ELSE UNCHANGED slave
    /\ BankEdge
    /\ cross' = [c \in Crossings |->
                   [(IF c \in ToBus THEN Clock2(cross[c], Level(c))
                                    ELSE Clock1(cross[c], BusInput(c)))
                        EXCEPT !.sent = cross[c].T1]]
    /\ UNCHANGED <<op, got, spi_ce, late>>

-----------------------------------------------------------------------------
(* The SPI clock: spislave. *)

\* The address byte on MOSI, the write bit first.
Mosi(i) == IF i = 0 THEN Number(op.write)
           ELSE (op.address \div 2^(ADDR_WIDTH - 1 - i)) % 2

wb_ack == Output("ack") = 1
wb_data_i == IF sts_select THEN Output("sts_read") ELSE Output("ctrl_read")

AddressIn == count = ADDR_WIDTH - 1
ReadBegins == AddressIn /\ (addr \div 2^(ADDR_WIDTH - 2)) % 2 = 0
WriteBegins == /\ count = ADDR_WIDTH + DATA_WIDTH - 1
               /\ addr \div 2^(ADDR_WIDTH - 1) = 1
CycleEndsNever == FALSE   \* mutant
CycleEnds == strobe /\ wb_ack

SlaveEdge ==
    /\ count' = count + 1
    /\ addr' = IF count < ADDR_WIDTH THEN (2 * addr + Mosi(count)) % 2^ADDR_WIDTH ELSE addr
    /\ strobe' = (~CycleEnds /\ (strobe \/ ReadBegins \/ WriteBegins))
    /\ write' = (~ReadBegins /\ (write \/ WriteBegins))
    /\ data' = IF ReadBegins THEN 0 ELSE IF WriteBegins THEN op.word ELSE data
    /\ out' = IF count < ADDR_WIDTH + HOLDOFF /\ wb_ack THEN wb_data_i ELSE out

SpiInput(c) == CASE c = "address" -> addr % 32
                 [] c = "strobe" -> Number(strobe)
                 [] c = "rw" -> Number(~write)
                 [] c = "write_data" -> data

\* What goes out after the holdoff is what the software receives.
Edge ==
    /\ ~spi_ce /\ ~spi_rst /\ wait <= 0 /\ count < TransferBits
    /\ wait' = wait + Period
    /\ SlaveEdge
    /\ cross' = [c \in Crossings |-> IF c \in ToBus THEN Clock1(cross[c], SpiInput(c))
                                     ELSE Clock2(cross[c], Level(c))]
    /\ got' = IF count = ADDR_WIDTH + HOLDOFF /\ ~op.write THEN out ELSE got
    /\ UNCHANGED <<op, spi_ce, chip, late, bank>>

-----------------------------------------------------------------------------
(* The software: one transfer after another. *)

\* The clock starts between two and three ticks after the chip select.
Select == /\ spi_ce /\ spi_rst
          /\ spi_ce' = FALSE
          /\ op' \in Transfers
          /\ wait' \in (2 * Unit + 1)..(3 * Unit)
          /\ landed' = FALSE
          /\ UNCHANGED <<got, chip, slave, cross, late, ctrl, read_data, ack, acknowledge>>

Release == /\ ~spi_ce /\ count = TransferBits /\ wait <= 0
           /\ spi_ce' = TRUE /\ wait' = 0
           /\ UNCHANGED <<op, got, chip, slave, cross, late, bank>>

NoTransfer == [write |-> FALSE, address |-> -1, word |-> 0]

\* The registers hold what an earlier server left.  They differ, so that one
\* taken for another is seen.
InitialAt(a) == IF a >= 32 THEN StatusAt(a - 32) ELSE IF a \in Registers THEN 64 + a ELSE 0

Init == /\ op = NoTransfer /\ got = 0 /\ wait = 0
        /\ spi_ce = TRUE /\ last_spi_ce = TRUE /\ spi_rst = TRUE
        /\ count = 0 /\ addr = 0 /\ data = 0 /\ out = 0
        /\ strobe = FALSE /\ write = FALSE
        /\ cross = [c \in Crossings |-> Quiet] /\ late \in Lates
        /\ ctrl = [a \in Registers |-> InitialAt(a)]
        /\ read_data = [b \in Banks |-> 0]
        /\ ack = [b \in Banks |-> FALSE] /\ acknowledge = [b \in Banks |-> FALSE]
        /\ landed = FALSE

Next == Tick \/ Edge \/ Select \/ Release

Spec == Init /\ [][Next]_vars

-----------------------------------------------------------------------------
(* Properties. *)

Held(a) == IF a >= 32 THEN StatusAt(a - 32) ELSE ControlAt(a)

\* spi_slave.vhd:34-36: the holdoff allows enough cycles for the crossings.
\* What a read sends back is the register it asked for, not one that the bank
\* was asked for while the address was still crossing.
ReadReturnsRegister ==
    ~spi_ce /\ ~op.write /\ count > ADDR_WIDTH + HOLDOFF => got = Held(op.address)

RegisterPath == INSTANCE RegisterFile
    WITH Requests <- Transfers, NoRequest <- NoTransfer,
         Initial <- [a \in Addresses |-> InitialAt(a)],
         registers <- [a \in Addresses |-> Held(a)],
         request <- IF spi_ce THEN NoTransfer ELSE op,
         done <- ~spi_ce /\ IF op.write THEN landed ELSE count > ADDR_WIDTH + HOLDOFF,
         returned <- got

\* Address, data, direction and strobe cross on their own, and so do the
\* acknowledgement and the answer; together they still are a register file: a
\* write is in its register when its transfer ends, and no other word was in
\* it or in any other register meanwhile.
ImplementsRegisterFile == RegisterPath!Spec
=============================================================================
