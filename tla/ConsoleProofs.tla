---------------------------- MODULE ConsoleProofs ----------------------------
(***************************************************************************)
(* The proof that IInv of ConsoleInvariant is an invariant of Console, and *)
(* what follows from it.  The texts and the scripts come first, then the   *)
(* effect of each write on the registers, then one lemma for each action.  *)
(***************************************************************************)
EXTENDS ConsoleInvariant, FiniteSetTheorems, SequenceTheorems, TLAPS

----------------------------------------------------------------------------
(* The scripts, the texts and the registers.                               *)

\* A write of a script.
Wr(r, v) == [register |-> r, value |-> v]

\* The two parts of a write.
LEMMA WrFields == \A r, v : Wr(r, v).register = r /\ Wr(r, v).value = v
  BY DEF Wr

\* The eight writes of FinalScript.
LEMMA FinalWrites ==
  /\ Len(FinalScript) = 8
  /\ FinalScript[1] = Wr("DLAB", TRUE)
  /\ FinalScript[2] = Wr("DATA", Byte(1))
  /\ FinalScript[3] = Wr("INTR_CONF", Byte(0))
  /\ FinalScript[4] = Wr("DLAB", FALSE)
  /\ FinalScript[5] = Wr("LINE_CONF", {"8BIT"})
  /\ FinalScript[6] = Wr("FIFO_CONF", {"ENABLE", "TX_FLUSH", "RX_FLUSH"})
  /\ FinalScript[7] = Wr("MODEM_CONF", {"TX", "RX", "IRQ"})
  /\ FinalScript[8] = Wr("DLAB", FALSE)
<1>1. Byte(1 % 256) = Byte(1) /\ Byte(1 \div 256) = Byte(0)
  BY DEF Byte
<1>2. FinalScript = <<Wr("DLAB", TRUE)>> \o <<Wr("DATA", Byte(1))>> \o <<Wr("INTR_CONF", Byte(0))>>
        \o <<Wr("DLAB", FALSE)>> \o <<Wr("LINE_CONF", {"8BIT"})>>
        \o <<Wr("FIFO_CONF", {"ENABLE", "TX_FLUSH", "RX_FLUSH"})>>
        \o <<Wr("MODEM_CONF", {"TX", "RX", "IRQ"})>> \o <<Wr("DLAB", FALSE)>>
  BY <1>1, Zenon DEF FinalScript, serial_set_divisor, serial_set_lcr, serial_set_fifo,
     serial_set_mcr, serial_set_dlab, W, Wr
<1> QED
  <2> DEFINE a == Wr("DLAB", TRUE)
             b == Wr("DATA", Byte(1))
             c == Wr("INTR_CONF", Byte(0))
             d == Wr("DLAB", FALSE)
             e == Wr("LINE_CONF", {"8BIT"})
             f == Wr("FIFO_CONF", {"ENABLE", "TX_FLUSH", "RX_FLUSH"})
             g == Wr("MODEM_CONF", {"TX", "RX", "IRQ"})
             E == <<a>> \o <<b>> \o <<c>> \o <<d>> \o <<e>> \o <<f>> \o <<g>> \o <<d>>
  <2>1. FinalScript = E
    BY <1>2, Zenon
  <2> HIDE DEF a, b, c, d, e, f, g
  <2>2. /\ Len(E) = 8 /\ E[1] = a /\ E[2] = b /\ E[3] = c /\ E[4] = d /\ E[5] = e
        /\ E[6] = f /\ E[7] = g /\ E[8] = d
    OBVIOUS
  <2> HIDE DEF E
  <2>3. /\ Len(FinalScript) = 8 /\ FinalScript[1] = a /\ FinalScript[2] = b
        /\ FinalScript[3] = c /\ FinalScript[4] = d /\ FinalScript[5] = e
        /\ FinalScript[6] = f /\ FinalScript[7] = g /\ FinalScript[8] = d
    BY <2>1, <2>2, Zenon
  <2> QED
    BY <2>3, Zenon DEF a, b, c, d, e, f, g

\* The ten writes of TestScript.
LEMMA TestWrites ==
  /\ Len(TestScript) = 10
  /\ TestScript[1] = Wr("DLAB", FALSE)
  /\ TestScript[2] = Wr("INTR_CONF", Byte(0))
  /\ TestScript[3] = Wr("DLAB", TRUE)
  /\ TestScript[4] = Wr("DATA", Byte(1))
  /\ TestScript[5] = Wr("INTR_CONF", Byte(0))
  /\ TestScript[6] = Wr("DLAB", FALSE)
  /\ TestScript[7] = Wr("LINE_CONF", {"8BIT"})
  /\ TestScript[8] = Wr("FIFO_CONF", {"TX_FLUSH", "RX_FLUSH"})
  /\ TestScript[9] = Wr("MODEM_CONF", {"TX", "RX", "LOOP"})
  /\ TestScript[10] = Wr("DLAB", FALSE)
<1>1. Byte(1 % 256) = Byte(1) /\ Byte(1 \div 256) = Byte(0)
  BY DEF Byte
<1>2. TestScript = <<Wr("DLAB", FALSE)>> \o <<Wr("INTR_CONF", Byte(0))>>
        \o (<<Wr("DLAB", TRUE)>> \o <<Wr("DATA", Byte(1))>> \o <<Wr("INTR_CONF", Byte(0))>>
              \o <<Wr("DLAB", FALSE)>>) 
        \o <<Wr("LINE_CONF", {"8BIT"})>>
        \o <<Wr("FIFO_CONF", {"TX_FLUSH", "RX_FLUSH"})>>
        \o <<Wr("MODEM_CONF", {"TX", "RX", "LOOP"})>> \o <<Wr("DLAB", FALSE)>>
  BY <1>1, Zenon DEF TestScript, serial_set_interrupts, serial_set_divisor, serial_set_lcr,
     serial_set_fifo, serial_set_mcr, serial_set_dlab, W, Wr
<1> QED
  <2> DEFINE a == Wr("DLAB", TRUE)
             b == Wr("DATA", Byte(1))
             c == Wr("INTR_CONF", Byte(0))
             d == Wr("DLAB", FALSE)
             e == Wr("LINE_CONF", {"8BIT"})
             f == Wr("FIFO_CONF", {"TX_FLUSH", "RX_FLUSH"})
             g == Wr("MODEM_CONF", {"TX", "RX", "LOOP"})
             E == <<d>> \o <<c>> \o (<<a>> \o <<b>> \o <<c>> \o <<d>>)
                     \o <<e>> \o <<f>> \o <<g>> \o <<d>>
  <2>1. TestScript = E
    BY <1>2, Zenon
  <2> HIDE DEF a, b, c, d, e, f, g
  <2>2. /\ Len(E) = 10 /\ E[1] = d /\ E[2] = c /\ E[3] = a /\ E[4] = b /\ E[5] = c
        /\ E[6] = d /\ E[7] = e /\ E[8] = f /\ E[9] = g /\ E[10] = d
    OBVIOUS
  <2> HIDE DEF E
  <2>3. /\ Len(TestScript) = 10 /\ TestScript[1] = d /\ TestScript[2] = c
        /\ TestScript[3] = a /\ TestScript[4] = b /\ TestScript[5] = c
        /\ TestScript[6] = d /\ TestScript[7] = e /\ TestScript[8] = f
        /\ TestScript[9] = g /\ TestScript[10] = d
    BY <2>1, <2>2, Zenon
  <2> QED
    BY <2>3, Zenon DEF a, b, c, d, e, f, g

\* Every text is a nonempty sequence of pieces; "sink" is none of them.
LEMMA TextsClean == ASSUME NEW t \in Messages \cup Faults PROVE t \in Seq(Pieces) /\ t # <<>>
<1> DEFINE Good(s) == s \in Seq(Pieces) /\ s # <<>>
<1>1. ASSUME NEW s, NEW u \in Seq(Pieces), Good(s) PROVE Good(s \o u)
  BY <1>1
<1>2. Good(log_print) /\ Good(log_print_raw) /\ Good(<<"halt">>)
  BY DEF log_print, log_print_raw, Pieces
<1> HIDE DEF Good
<1>3. Good(panic)
  <2>1. log_print_raw \in Seq(Pieces) /\ <<"halt">> \in Seq(Pieces)
    BY <1>2 DEF Good
  <2> QED BY <1>1, <1>2, <2>1 DEF panic
<1>4. \A n : print_type(n) \in Seq(Pieces)
  BY <1>2 DEF print_type, Good
<1>5. \A l, r : Good(Report(l, r))
  <2>1. panic \in Seq(Pieces)
    BY <1>3 DEF Good
  <2> QED
  BY <1>1, <1>2, <1>4, <2>1 DEF Report
<1>6. CASE t \in UbsanReports
  <2> DEFINE S(h) == {Report(named[1], named[2]) :
                        named \in {UbsanTypes[h] > 0, FALSE} \X {UbsanTypes[h] > 1, FALSE}}
  <2>1. \E h \in DOMAIN UbsanTypes : t \in S(h)
    BY <1>6, Zenon DEF UbsanReports
  <2>2. ASSUME NEW h, t \in S(h) PROVE Good(t)
    <3>1. \E named : t = Report(named[1], named[2])
      BY <2>2, Zenon
    <3> QED BY <1>5, <3>1, Zenon
  <2> QED BY <2>1, <2>2, Zenon DEF Good
<1>7. CASE t = UbsanAbort
  <2>1. Good(Report(FALSE, FALSE)) /\ panic \in Seq(Pieces)
    BY <1>3, <1>5 DEF Good
  <2>2. Good(UbsanAbort)
    BY <2>1, <1>1 DEF UbsanAbort
  <2> QED
    BY <1>7, <2>2 DEF Good
<1>8. CASE t \in Messages
  <2>1. Good(uacpi_kernel_log)
    <3>1. log_print_raw \in Seq(Pieces)
      BY <1>2 DEF Good
    <3> QED BY <1>1, <1>2, <3>1 DEF uacpi_kernel_log
  <2> QED
    BY <1>2, <1>8, <2>1 DEF Messages, Good
<1> QED
 BY <1>3, <1>6, <1>7, <1>8 DEF Faults, Good

\* The parts that the code may find at the port.
LEMMA DeviceFacts ==
  ASSUME device \in Device
  PROVE  /\ device.present \in BOOLEAN /\ device.loopback \in BOOLEAN
         /\ device.scratch \in BOOLEAN /\ device.fifo \in BOOLEAN
         /\ device.scratch => device.present
         /\ device.fifo => device.present /\ device.scratch
<1>1. /\ device.present \in BOOLEAN /\ device.loopback \in BOOLEAN
      /\ device.scratch \in BOOLEAN /\ device.fifo \in BOOLEAN
  <2>1. PICK p, l, s, f \in BOOLEAN :
             device = [present |-> p, loopback |-> l, scratch |-> s, fifo |-> f]
    BY Zenon DEF Device, Part
  <2>2. device.present = p /\ device.loopback = l /\ device.scratch = s /\ device.fifo = f
    BY <2>1
  <2> QED
    BY <2>2, Zenon
<1>2. device.scratch => device.present
  BY DEF Device, Part
<1>3. device.fifo => device.present /\ device.scratch
  BY DEF Device, Part
<1> QED BY <1>1, <1>2, <1>3

\* Bytes and characters.
LEMMA ByteType == \A n \in Int : Byte(n) \in Bytes /\ Char(n) \in Bytes /\ Char(n).core = n
  BY DEF Byte, Char, Bytes

\* A write to a port that is not there.
LEMMA OutAbsent ==
  ASSUME NEW r, NEW v, Out(r, v), ~device.present
  PROVE  uart' = uart
  BY DEF Out

\* A write to the latch bit.
LEMMA OutDlab ==
  ASSUME uart \in UartType, device.present
  PROVE  /\ Out("DLAB", TRUE) => /\ uart' \in UartType
                                 /\ uart'.lcr = uart.lcr \cup {"DLAB"}
         /\ Out("DLAB", FALSE) => /\ uart' \in UartType
                                  /\ uart'.lcr = uart.lcr \ {"DLAB"}
         /\ Out("DLAB", TRUE) \/ Out("DLAB", FALSE) =>
              /\ uart'.mcr = uart.mcr /\ uart'.fifo = uart.fifo /\ uart'.ier = uart.ier
              /\ uart'.divisor = uart.divisor /\ uart'.rx = uart.rx /\ uart'.txq = uart.txq
<1>1. uart.lcr \cup {"DLAB"} \in SUBSET {"DLAB", "8BIT"}
  BY DEF UartType
<1>2. uart.lcr \ {"DLAB"} \in SUBSET {"DLAB", "8BIT"}
  BY DEF UartType
<1>3. Out("DLAB", TRUE) => uart' = [uart EXCEPT !.lcr = @ \cup {"DLAB"}]
  BY DEF Out, WriteRegister
<1>4. Out("DLAB", FALSE) => uart' = [uart EXCEPT !.lcr = @ \ {"DLAB"}]
  BY DEF Out, WriteRegister
<1> QED
  BY <1>1, <1>2, <1>3, <1>4 DEF UartType

\* A write to the line register.
LEMMA OutLine ==
  ASSUME uart \in UartType, NEW v \in SUBSET {"DLAB", "8BIT"}, Out("LINE_CONF", v), device.present
  PROVE  /\ uart' \in UartType
         /\ uart'.lcr = v
         /\ uart'.mcr = uart.mcr /\ uart'.fifo = uart.fifo /\ uart'.ier = uart.ier
         /\ uart'.divisor = uart.divisor /\ uart'.rx = uart.rx /\ uart'.txq = uart.txq
  BY DEF Out, WriteRegister, UartType

\* A write to the modem register.
LEMMA OutModem ==
  ASSUME uart \in UartType, NEW v \in SUBSET {"TX", "RX", "LOOP", "IRQ"},
         Out("MODEM_CONF", v), device.present
  PROVE  /\ uart' \in UartType
         /\ uart'.mcr = v
         /\ uart'.lcr = uart.lcr /\ uart'.fifo = uart.fifo /\ uart'.ier = uart.ier
         /\ uart'.divisor = uart.divisor /\ uart'.rx = uart.rx /\ uart'.txq = uart.txq
  BY DEF Out, WriteRegister, UartType

\* A write to the FIFO register that flushes the transmitter.
LEMMA OutFifo ==
  ASSUME uart \in UartType, NEW v, Out("FIFO_CONF", v), device.present,
         "TX_FLUSH" \in v
  PROVE  /\ uart' \in UartType
         /\ uart'.fifo = IF device.fifo THEN "ENABLE" \in v ELSE uart.fifo
         /\ uart'.txq = IF device.fifo THEN <<>> ELSE uart.txq
         /\ uart'.mcr = uart.mcr /\ uart'.lcr = uart.lcr /\ uart'.ier = uart.ier
         /\ uart'.divisor = uart.divisor
<1>1. Unset \in Bytes /\ <<>> \in Seq(Bytes)
  BY ByteType DEF Unset
<1>2. CASE device.fifo
  <2>1. PICK x \in Bytes : uart' = [uart EXCEPT !.fifo = "ENABLE" \in v, !.txq = <<>>, !.rx = x]
    BY <1>1, <1>2 DEF Out, WriteRegister, UartType
  <2>2. ("ENABLE" \in v) \in BOOLEAN
    OBVIOUS
  <2> QED
    BY <1>1, <1>2, <2>1, <2>2 DEF UartType
<1>3. CASE ~device.fifo
  BY <1>1, <1>3 DEF Out, WriteRegister, UartType
<1> QED BY <1>2, <1>3

\* A write to the interrupt register, or to the divisor's high byte.
LEMMA OutInterrupts ==
  ASSUME uart \in UartType, NEW v \in Bytes, Out("INTR_CONF", v), device.present
  PROVE  /\ uart' \in UartType
         /\ uart'.lcr = uart.lcr
         /\ uart'.mcr = uart.mcr /\ uart'.fifo = uart.fifo
         /\ uart'.ier = IF Dlab THEN uart.ier ELSE v
         /\ uart'.divisor = IF Dlab THEN <<uart.divisor[1], v>> ELSE uart.divisor
         /\ uart'.rx = uart.rx /\ uart'.txq = uart.txq
<1>1. [uart.divisor EXCEPT ![2] = v] = <<uart.divisor[1], v>>
  BY DEF UartType
<1>2. <<uart.divisor[1], v>> \in Bytes \X Bytes
  BY DEF UartType
<1>3. CASE Dlab
  BY <1>1, <1>2, <1>3 DEF Out, WriteRegister, UartType, Dlab
<1>4. CASE ~Dlab
  BY <1>4 DEF Out, WriteRegister, UartType, Dlab
<1> QED BY <1>3, <1>4

\* A write to the data register, or to the divisor's low byte.
LEMMA OutData ==
  ASSUME uart \in UartType, NEW v \in Bytes, Out("DATA", v), device.present
  PROVE  /\ uart' \in UartType
         /\ uart'.lcr = uart.lcr
         /\ uart'.mcr = uart.mcr /\ uart'.fifo = uart.fifo
         /\ uart'.ier = uart.ier /\ uart'.rx = uart.rx
         /\ uart'.divisor = IF Dlab THEN <<v, uart.divisor[2]>> ELSE uart.divisor
         /\ uart'.txq = IF ~Dlab /\ Len(uart.txq) < Capacity THEN Append(uart.txq, v)
                        ELSE uart.txq
<1>1. [uart.divisor EXCEPT ![1] = v] = <<v, uart.divisor[2]>>
  BY DEF UartType
<1>2. <<v, uart.divisor[2]>> \in Bytes \X Bytes
  BY DEF UartType
<1>3. CASE Dlab
  BY <1>1, <1>2, <1>3 DEF Out, WriteRegister, WriteData, UartType, Dlab
<1>4. CASE ~Dlab
  <2>1. Append(uart.txq, v) \in Seq(Bytes)
    BY DEF UartType
  <2>2. uart' = IF Len(uart.txq) < Capacity THEN [uart EXCEPT !.txq = Append(@, v)] ELSE uart
    BY <1>4 DEF Out, WriteRegister, WriteData, Dlab
  <2> QED
    BY <1>4, <2>1, <2>2 DEF UartType
<1> QED BY <1>3, <1>4
----------------------------------------------------------------------------
(* The set-up of the port.                                                 *)

\* A step of the set-up: what it says about everything but the port.
LEMMA SetupFrame ==
  ASSUME IInv, NEW from \in Setup, NEW to \in Setup, Goto(Bsp, from, to),
         UNCHANGED <<device, overrun, released, text, gaveUp>>, UNCHANGED works,
         uart' \in UartType, step' \in [Core -> Nat \ {0}],
         device.fifo => Len(uart'.txq) <= 1,
         device.fifo => uart'.txq = <<>> \/ Looped'
  PROVE  /\ ~works /\ pc[Bsp] = from /\ pc'[Bsp] = to
         /\ PortInv' => IInv'
<1>1. Bsp \in Core /\ ApCount \in Nat
  BY ConsoleAssumption DEF Bsp, Core
<1>2. pc[Bsp] = from /\ pc'[Bsp] = to /\ \A c \in Core \ {Bsp} : pc'[c] = pc[c]
  BY <1>1 DEF Goto, IInv, ConsoleType
<1>3. ~works
  BY <1>2 DEF IInv, PortInv
<1>4. ~released /\ \A c \in Core \ {Bsp} : pc[c] = "idle"
  BY <1>2 DEF IInv, TurnsInv, Setup
<1>5. pc' \in [Core -> Setup \cup Printing \cup {"idle", "halted"}]
  BY <1>1 DEF Goto, IInv, ConsoleType
<1>6. ConsoleType'
  BY <1>5 DEF IInv, ConsoleType
<1>7. TurnsInv'
  BY <1>2, <1>4 DEF IInv, TurnsInv, Setup
<1>8. TextInv'
  <2>1. \A c \in Core : pc'[c] \notin {"poll", "send"} /\ pc'[c] \notin Printing
    BY <1>2, <1>4 DEF Setup, Printing
  <2> QED
    BY <2>1 DEF IInv, TextInv
<1>9. FifoInv'
  <2>1. Senders' = {}
    BY <1>2, <1>4 DEF Senders, Setup
  <2>2. Cardinality(Senders') = 0
    BY <2>1, FS_EmptySet
  <2> QED
    BY <1>1, <2>2 DEF FifoInv, UartType
<1>10. OnlyLogged'
  BY DEF OnlyLogged, Looped
<1>11. NoOverrun'
  BY DEF IInv, NoOverrun
<1> QED
  BY <1>2, <1>3, <1>6, <1>7, <1>8, <1>9, <1>10, <1>11 DEF IInv

\* Where the boot processor goes on in a script of k writes.
LEMMA ConfigureStep ==
  ASSUME IInv, NEW s, NEW from, NEW to, Configure(s, from, to), NEW k \in Nat, Len(s) = k
  PROVE  /\ step[Bsp] \in Nat \ {0} /\ step' \in [Core -> Nat \ {0}]
         /\ step[Bsp] = k => step'[Bsp] = 1 /\ Goto(Bsp, from, to)
         /\ step[Bsp] # k => step'[Bsp] = step[Bsp] + 1 /\ Goto(Bsp, from, from)
         /\ pc[Bsp] = from
<1>1. Bsp \in Core /\ step \in [Core -> Nat \ {0}]
  BY ConsoleAssumption DEF Bsp, Core, IInv, ConsoleType
<1>2. /\ pc[Bsp] = from
      /\ step[Bsp] = k => Goto(Bsp, from, to)
      /\ step[Bsp] # k => Goto(Bsp, from, from)
  BY DEF Configure, Goto
<1>3. step' = [step EXCEPT ![Bsp] = IF @ = k THEN 1 ELSE @ + 1]
  BY DEF Configure
<1>4. /\ step[Bsp] \in Nat \ {0} /\ step' \in [Core -> Nat \ {0}]
      /\ step'[Bsp] = IF step[Bsp] = k THEN 1 ELSE step[Bsp] + 1
  BY <1>1, <1>3
<1> QED
  BY <1>2, <1>4

\* Write n of TestScript.
LEMMA TestScriptWrite ==
  ASSUME uart \in UartType, device.present, NEW n \in 1..10, TestScriptInv(n),
         Out(TestScript[n].register, TestScript[n].value)
  PROVE  /\ uart' \in UartType /\ uart'.txq = <<>>
         /\ n # 10 => TestScriptInv(n + 1)'
         /\ n = 10 => TestInv'
<1> USE DEF TestScriptInv, Dlab, Looped
<1>1. Byte(0) \in Bytes /\ Byte(1) \in Bytes
  BY ByteType
<1>2. CASE n = 1
  <2>1. Out("DLAB", FALSE)
    <3>1. TestScript[1] = Wr("DLAB", FALSE)
      BY TestWrites
    <3>2. TestScript[1].register = "DLAB" /\ TestScript[1].value = FALSE
      BY <3>1 DEF Wr
    <3> QED BY <1>2, <3>2, Zenon
  <2> QED
    BY <1>2, <2>1, OutDlab
<1>3. CASE n = 2
  <2>1. Out("INTR_CONF", Byte(0))
    <3>1. TestScript[2] = Wr("INTR_CONF", Byte(0))
      BY TestWrites
    <3>2. TestScript[2].register = "INTR_CONF" /\ TestScript[2].value = Byte(0)
      BY <3>1 DEF Wr
    <3> QED BY <1>3, <3>2, Zenon
  <2>2. ~Dlab
    BY <1>3
  <2>3. /\ uart' \in UartType
        /\ uart'.ier = Byte(0) /\ uart'.divisor = uart.divisor
        /\ uart'.lcr = uart.lcr /\ uart'.mcr = uart.mcr /\ uart'.fifo = uart.fifo
        /\ uart'.txq = uart.txq
    BY <1>1, <2>1, <2>2, OutInterrupts
  <2> QED
    BY <1>3, <2>2, <2>3
<1>4. CASE n = 3
  <2>1. Out("DLAB", TRUE)
    <3>1. TestScript[3] = Wr("DLAB", TRUE)
      BY TestWrites
    <3>2. TestScript[3].register = "DLAB" /\ TestScript[3].value = TRUE
      BY <3>1 DEF Wr
    <3> QED BY <1>4, <3>2, Zenon
  <2> QED
    BY <1>4, <2>1, OutDlab
<1>5. CASE n = 4
  <2>1. Out("DATA", Byte(1))
    <3>1. TestScript[4] = Wr("DATA", Byte(1))
      BY TestWrites
    <3>2. TestScript[4].register = "DATA" /\ TestScript[4].value = Byte(1)
      BY <3>1 DEF Wr
    <3> QED BY <1>5, <3>2, Zenon
  <2>2. Dlab
    BY <1>5
  <2>3. /\ uart' \in UartType
        /\ uart'.ier = uart.ier /\ uart'.divisor = <<Byte(1), uart.divisor[2]>>
        /\ uart'.lcr = uart.lcr /\ uart'.mcr = uart.mcr /\ uart'.fifo = uart.fifo
        /\ uart'.txq = uart.txq
    BY <1>1, <2>1, <2>2, OutData
  <2> QED
    BY <1>5, <2>2, <2>3
<1>6. CASE n = 5
  <2>1. Out("INTR_CONF", Byte(0))
    <3>1. TestScript[5] = Wr("INTR_CONF", Byte(0))
      BY TestWrites
    <3>2. TestScript[5].register = "INTR_CONF" /\ TestScript[5].value = Byte(0)
      BY <3>1 DEF Wr
    <3> QED BY <1>6, <3>2, Zenon
  <2>2. Dlab
    BY <1>6
  <2>3. /\ uart' \in UartType
        /\ uart'.ier = uart.ier /\ uart'.divisor = <<uart.divisor[1], Byte(0)>>
        /\ uart'.lcr = uart.lcr /\ uart'.mcr = uart.mcr /\ uart'.fifo = uart.fifo
        /\ uart'.txq = uart.txq
    BY <1>1, <2>1, <2>2, OutInterrupts
  <2> QED
    BY <1>6, <2>2, <2>3
<1>7. CASE n = 6
  <2>1. Out("DLAB", FALSE)
    <3>1. TestScript[6] = Wr("DLAB", FALSE)
      BY TestWrites
    <3>2. TestScript[6].register = "DLAB" /\ TestScript[6].value = FALSE
      BY <3>1 DEF Wr
    <3> QED BY <1>7, <3>2, Zenon
  <2> QED
    BY <1>7, <2>1, OutDlab
<1>8. CASE n = 7
  <2>1. Out("LINE_CONF", {"8BIT"})
    <3>1. TestScript[7] = Wr("LINE_CONF", {"8BIT"})
      BY TestWrites
    <3>2. TestScript[7].register = "LINE_CONF" /\ TestScript[7].value = {"8BIT"}
      BY <3>1 DEF Wr
    <3> QED BY <1>8, <3>2, Zenon
  <2> QED
    BY <1>8, <2>1, OutLine
<1>9. CASE n = 8
  <2>1. Out("FIFO_CONF", {"TX_FLUSH", "RX_FLUSH"})
    <3>1. TestScript[8] = Wr("FIFO_CONF", {"TX_FLUSH", "RX_FLUSH"})
      BY TestWrites
    <3>2. TestScript[8].register = "FIFO_CONF" /\ TestScript[8].value = {"TX_FLUSH", "RX_FLUSH"}
      BY <3>1 DEF Wr
    <3> QED BY <1>9, <3>2, Zenon
  <2>2. /\ uart' \in UartType
        /\ ~uart'.fifo
        /\ uart'.lcr = uart.lcr /\ uart'.mcr = uart.mcr /\ uart'.ier = uart.ier
        /\ uart'.divisor = uart.divisor /\ uart'.txq = <<>>
    <3> DEFINE v == {"TX_FLUSH", "RX_FLUSH"}
    <3>1. "TX_FLUSH" \in v /\ "ENABLE" \notin v /\ Out("FIFO_CONF", v)
      BY <2>1
    <3>2. ~uart.fifo /\ uart.txq = <<>>
      BY <1>9
    <3> HIDE DEF v
    <3> QED BY <3>1, <3>2, OutFifo
  <2> QED
    BY <1>9, <2>2
<1>10. CASE n = 9
  <2>1. Out("MODEM_CONF", {"TX", "RX", "LOOP"})
    <3>1. TestScript[9] = Wr("MODEM_CONF", {"TX", "RX", "LOOP"})
      BY TestWrites
    <3>2. TestScript[9].register = "MODEM_CONF" /\ TestScript[9].value = {"TX", "RX", "LOOP"}
      BY <3>1 DEF Wr
    <3> QED BY <1>10, <3>2, Zenon
  <2> QED
    BY <1>10, <2>1, OutModem
<1>11. CASE n = 10
  <2>1. Out("DLAB", FALSE)
    <3>1. TestScript[10] = Wr("DLAB", FALSE)
      BY TestWrites
    <3>2. TestScript[10].register = "DLAB" /\ TestScript[10].value = FALSE
      BY <3>1 DEF Wr
    <3> QED BY <1>11, <3>2, Zenon
  <2>2. uart'.divisor = <<Byte(1), Byte(0)>>
    <3>1. uart'.divisor = uart.divisor
      BY <2>1, OutDlab
    <3>2. uart.divisor \in Bytes \X Bytes /\ uart.divisor[1] = Byte(1) /\ uart.divisor[2] = Byte(0)
      BY <1>11 DEF UartType
    <3> QED BY <3>1, <3>2
  <2> QED
    BY <1>11, <2>1, <2>2, OutDlab DEF TestInv, RateSet
<1> QED
  BY <1>2, <1>3, <1>4, <1>5, <1>6, <1>7, <1>8, <1>9, <1>10, <1>11

\* Each step of the set-up preserves the invariant.
LEMMA TestSetupInv ==
  ASSUME IInv, TestSetup
  PROVE  IInv'
<1>1. Configure(TestScript, "test_script", "test_write") /\ UNCHANGED works
  BY DEF TestSetup
<1>2. Len(TestScript) = 10 /\ pc[Bsp] = "test_script"
  BY <1>1, TestWrites DEF Configure, Goto
<1>3. /\ step[Bsp] \in Nat \ {0} /\ step' \in [Core -> Nat \ {0}]
      /\ step[Bsp] = 10 => step'[Bsp] = 1 /\ Goto(Bsp, "test_script", "test_write")
      /\ step[Bsp] # 10 => step'[Bsp] = step[Bsp] + 1 /\ Goto(Bsp, "test_script", "test_script")
  <2>1. 10 \in Nat
    OBVIOUS
  <2> QED
    BY <1>1, <1>2, <2>1, ConfigureStep, Zenon
<1>4. PICK n \in 1..10 : step[Bsp] = n
  BY <1>2, <1>3 DEF IInv, PortInv
<1>5. uart \in UartType /\ device \in Device
  BY DEF IInv, ConsoleType
<1>6. Out(TestScript[n].register, TestScript[n].value)
  BY <1>1, <1>4 DEF Configure
<1>7. UNCHANGED <<device, overrun, released, text, gaveUp>>
  BY <1>1 DEF Configure
<1>8. /\ uart' \in UartType /\ uart'.txq = <<>>
      /\ device.present /\ n # 10 => TestScriptInv(n + 1)'
      /\ device.present /\ n = 10 => TestInv'
  <2>1. CASE device.present
    <3>1. TestScriptInv(n)
      BY <1>2, <1>4, <2>1 DEF IInv, PortInv
    <3> QED
      BY <1>5, <1>6, <2>1, <3>1, TestScriptWrite
  <2>2. CASE ~device.present
    <3>1. uart' = uart /\ uart.txq = <<>>
      BY <1>6, <2>2, OutAbsent DEF IInv, PortInv
    <3> QED
      BY <1>5, <2>2, <3>1
  <2> QED
    BY <2>1, <2>2
<1>9. ASSUME NEW to \in Setup, Goto(Bsp, "test_script", to)
      PROVE  ~works /\ pc'[Bsp] = to /\ (PortInv' => IInv')
  <2>1. Len(uart'.txq) <= 1
    BY <1>8
  <2> QED
    BY <1>1, <1>3, <1>7, <1>8, <1>9, <2>1, SetupFrame DEF Setup
<1>10. CASE n = 10
  <2>1. ~works /\ pc'[Bsp] = "test_write" /\ (PortInv' => IInv')
    BY <1>3, <1>4, <1>9, <1>10 DEF Setup
  <2>2. step'[Bsp] = 1
    BY <1>3, <1>4, <1>10
  <2>3. PortInv'
    BY <1>1, <1>7, <1>8, <1>10, <2>1, <2>2 DEF PortInv, Setup
  <2> QED
    BY <2>1, <2>3
<1>11. CASE n # 10
  <2>1. ~works /\ pc'[Bsp] = "test_script" /\ (PortInv' => IInv')
    BY <1>3, <1>4, <1>9, <1>11 DEF Setup
  <2>2. step'[Bsp] = n + 1 /\ n + 1 <= 10
    BY <1>3, <1>4, <1>11
  <2>3. device.present => TestScriptInv(step[Bsp])'
    BY <1>8, <1>11, <2>2 DEF TestScriptInv, Dlab, Looped
  <2>4. PortInv'
    BY <1>1, <1>7, <1>8, <2>1, <2>2, <2>3 DEF PortInv, Setup
  <2> QED
    BY <2>1, <2>4
<1> QED
  BY <1>10, <1>11

\* Write n of FinalScript.
LEMMA FinalScriptWrite ==
  ASSUME uart \in UartType, device \in Device, UNCHANGED device, device.present,
         NEW n \in 1..8, FinalScriptInv(n),
         Out(FinalScript[n].register, FinalScript[n].value)
  PROVE  /\ uart' \in UartType
         /\ n # 8 => FinalScriptInv(n + 1)'
         /\ n = 8 => ReadyInv' /\ (device.fifo => uart'.txq = <<>>)
<1> USE DEF FinalScriptInv, Dlab, Looped, RateSet
<1>1. Byte(0) \in Bytes /\ Byte(1) \in Bytes /\ device.fifo \in BOOLEAN
  BY ByteType, DeviceFacts
<1>2. CASE n = 1
  <2>1. Out("DLAB", TRUE)
    <3>1. FinalScript[1] = Wr("DLAB", TRUE)
      BY FinalWrites
    <3>2. FinalScript[1].register = "DLAB" /\ FinalScript[1].value = TRUE
      BY <3>1 DEF Wr
    <3> QED BY <1>2, <3>2, Zenon
  <2> QED
    BY <1>2, <2>1, OutDlab
<1>3. CASE n = 2
  <2>1. Out("DATA", Byte(1))
    <3>1. FinalScript[2] = Wr("DATA", Byte(1))
      BY FinalWrites
    <3>2. FinalScript[2].register = "DATA" /\ FinalScript[2].value = Byte(1)
      BY <3>1 DEF Wr
    <3> QED BY <1>3, <3>2, Zenon
  <2>2. Dlab
    BY <1>3
  <2>3. /\ uart' \in UartType
        /\ uart'.ier = uart.ier /\ uart'.divisor = <<Byte(1), uart.divisor[2]>>
        /\ uart'.lcr = uart.lcr /\ uart'.mcr = uart.mcr /\ uart'.fifo = uart.fifo
        /\ uart'.txq = uart.txq
    BY <1>1, <2>1, <2>2, OutData
  <2> QED
    BY <1>3, <2>2, <2>3
<1>4. CASE n = 3
  <2>1. Out("INTR_CONF", Byte(0))
    <3>1. FinalScript[3] = Wr("INTR_CONF", Byte(0))
      BY FinalWrites
    <3>2. FinalScript[3].register = "INTR_CONF" /\ FinalScript[3].value = Byte(0)
      BY <3>1 DEF Wr
    <3> QED BY <1>4, <3>2, Zenon
  <2>2. Dlab
    BY <1>4
  <2>3. /\ uart' \in UartType
        /\ uart'.ier = uart.ier /\ uart'.divisor = <<uart.divisor[1], Byte(0)>>
        /\ uart'.lcr = uart.lcr /\ uart'.mcr = uart.mcr /\ uart'.fifo = uart.fifo
        /\ uart'.txq = uart.txq
    BY <1>1, <2>1, <2>2, OutInterrupts
  <2> QED
    BY <1>4, <2>2, <2>3
<1>5. CASE n = 4
  <2>1. Out("DLAB", FALSE)
    <3>1. FinalScript[4] = Wr("DLAB", FALSE)
      BY FinalWrites
    <3>2. FinalScript[4].register = "DLAB" /\ FinalScript[4].value = FALSE
      BY <3>1 DEF Wr
    <3> QED BY <1>5, <3>2, Zenon
  <2> QED
    BY <1>5, <2>1, OutDlab
<1>6. CASE n = 5
  <2>1. Out("LINE_CONF", {"8BIT"})
    <3>1. FinalScript[5] = Wr("LINE_CONF", {"8BIT"})
      BY FinalWrites
    <3>2. FinalScript[5].register = "LINE_CONF" /\ FinalScript[5].value = {"8BIT"}
      BY <3>1 DEF Wr
    <3> QED BY <1>6, <3>2, Zenon
  <2> QED
    BY <1>6, <2>1, OutLine
<1>7. CASE n = 6
  <2>1. Out("FIFO_CONF", {"ENABLE", "TX_FLUSH", "RX_FLUSH"})
    <3>1. FinalScript[6] = Wr("FIFO_CONF", {"ENABLE", "TX_FLUSH", "RX_FLUSH"})
      BY FinalWrites
    <3>2. /\ FinalScript[6].register = "FIFO_CONF"
          /\ FinalScript[6].value = {"ENABLE", "TX_FLUSH", "RX_FLUSH"}
      BY <3>1 DEF Wr
    <3> QED BY <1>7, <3>2, Zenon
  <2>2. /\ uart' \in UartType
        /\ uart'.lcr = uart.lcr /\ uart'.mcr = uart.mcr /\ uart'.ier = uart.ier
        /\ uart'.divisor = uart.divisor
        /\ uart'.fifo = device.fifo
        /\ device.fifo => uart'.txq = <<>>
    <3> DEFINE v == {"ENABLE", "TX_FLUSH", "RX_FLUSH"}
    <3>1. "TX_FLUSH" \in v /\ "ENABLE" \in v /\ Out("FIFO_CONF", v)
      BY <2>1
    <3>2. ~uart.fifo /\ uart.fifo \in BOOLEAN
      BY <1>7 DEF UartType
    <3> HIDE DEF v
    <3> QED BY <1>1, <3>1, <3>2, OutFifo
  <2> QED
    BY <1>7, <2>2
<1>8. CASE n = 7
  <2>1. Out("MODEM_CONF", {"TX", "RX", "IRQ"})
    <3>1. FinalScript[7] = Wr("MODEM_CONF", {"TX", "RX", "IRQ"})
      BY FinalWrites
    <3>2. FinalScript[7].register = "MODEM_CONF" /\ FinalScript[7].value = {"TX", "RX", "IRQ"}
      BY <3>1 DEF Wr
    <3> QED BY <1>8, <3>2, Zenon
  <2> QED
    BY <1>8, <2>1, OutModem
<1>9. CASE n = 8
  <2>1. Out("DLAB", FALSE)
    <3>1. FinalScript[8] = Wr("DLAB", FALSE)
      BY FinalWrites
    <3>2. FinalScript[8].register = "DLAB" /\ FinalScript[8].value = FALSE
      BY <3>1 DEF Wr
    <3> QED BY <1>9, <3>2, Zenon
  <2> QED
    BY <1>9, <2>1, OutDlab DEF ReadyInv
<1> QED
  BY <1>2, <1>3, <1>4, <1>5, <1>6, <1>7, <1>8, <1>9

LEMMA FinalSetupInv ==
  ASSUME IInv, FinalSetup
  PROVE  IInv'
<1>1. Configure(FinalScript, "final_script", "configured") /\ UNCHANGED works
  BY DEF FinalSetup
<1>2. Len(FinalScript) = 8 /\ pc[Bsp] = "final_script"
  BY <1>1, FinalWrites DEF Configure, Goto
<1>3. /\ step[Bsp] \in Nat \ {0} /\ step' \in [Core -> Nat \ {0}]
      /\ step[Bsp] = 8 => step'[Bsp] = 1 /\ Goto(Bsp, "final_script", "configured")
      /\ step[Bsp] # 8 => step'[Bsp] = step[Bsp] + 1 /\ Goto(Bsp, "final_script", "final_script")
  <2>1. 8 \in Nat
    OBVIOUS
  <2> QED
    BY <1>1, <1>2, <2>1, ConfigureStep, Zenon
<1>4. PICK n \in 1..8 : step[Bsp] = n
  BY <1>2, <1>3 DEF IInv, PortInv
<1>5. uart \in UartType /\ device \in Device
  BY DEF IInv, ConsoleType
<1>6. Out(FinalScript[n].register, FinalScript[n].value)
  BY <1>1, <1>4 DEF Configure
<1>7. UNCHANGED <<device, overrun, released, text, gaveUp>>
  BY <1>1 DEF Configure
<1>8. device.present /\ FinalScriptInv(n)
  BY <1>2, <1>4 DEF IInv, PortInv
<1>9. /\ uart' \in UartType
      /\ n # 8 => FinalScriptInv(n + 1)'
      /\ n = 8 => ReadyInv' /\ (device.fifo => uart'.txq = <<>>)
  BY <1>5, <1>6, <1>7, <1>8, FinalScriptWrite
<1>10. ASSUME NEW to \in Setup, Goto(Bsp, "final_script", to)
      PROVE  ~works /\ pc'[Bsp] = to /\ (PortInv' => IInv')
  <2>1. device.fifo => uart'.txq = <<>> \/ (Looped' /\ Len(uart'.txq) <= 1)
    <3>1. CASE n \in 1..5
      BY <1>9, <3>1 DEF FinalScriptInv
    <3>2. CASE n \in 6..7
      <4>1. n + 1 > 6 /\ n # 8
        BY <3>2
      <4>2. device'.fifo => uart'.txq = <<>>
        BY <1>9, <4>1, Zenon DEF FinalScriptInv
      <4> QED BY <1>7, <4>2
    <3> QED
      BY <1>9, <3>1, <3>2
  <2>2. device.fifo => Len(uart'.txq) <= 1 /\ (uart'.txq = <<>> \/ Looped')
    BY <2>1
  <2> QED
    BY <1>1, <1>3, <1>7, <1>9, <1>10, <2>2, SetupFrame DEF Setup
<1>11. CASE n = 8
  <2>1. ~works /\ pc'[Bsp] = "configured" /\ (PortInv' => IInv')
    BY <1>3, <1>4, <1>10, <1>11 DEF Setup
  <2>2. step'[Bsp] = 1
    BY <1>3, <1>4, <1>11
  <2>3. PortInv'
    BY <1>1, <1>7, <1>8, <1>9, <1>11, <2>1, <2>2 DEF PortInv, Setup
  <2> QED
    BY <2>1, <2>3
<1>12. CASE n # 8
  <2>1. ~works /\ pc'[Bsp] = "final_script" /\ (PortInv' => IInv')
    BY <1>3, <1>4, <1>10, <1>12 DEF Setup
  <2>2. step'[Bsp] = n + 1 /\ n + 1 <= 8
    BY <1>3, <1>4, <1>12
  <2>3. FinalScriptInv(step[Bsp])'
    BY <1>9, <1>12, <2>2 DEF FinalScriptInv, Dlab, Looped
  <2>4. PortInv'
    BY <1>1, <1>7, <1>8, <2>1, <2>2, <2>3 DEF PortInv, Setup
  <2> QED
    BY <2>1, <2>4
<1> QED
  BY <1>11, <1>12

LEMMA TestWriteInv ==
  ASSUME IInv, TestWrite
  PROVE  IInv'
<1>1. /\ Goto(Bsp, "test_write", "test_read") /\ Out("DATA", MAGIC)
      /\ UNCHANGED <<device, overrun, released, text, gaveUp>> /\ UNCHANGED works
      /\ UNCHANGED step
  BY DEF TestWrite, setup
<1>2. uart \in UartType /\ MAGIC \in Bytes /\ step \in [Core -> Nat \ {0}]
  BY ByteType DEF IInv, ConsoleType, MAGIC
<1>3. pc[Bsp] = "test_write" /\ step[Bsp] = 1
  BY <1>1 DEF Goto, IInv, PortInv
<1>4. uart' \in UartType /\ (device.present => TestInv') /\ (~device.present => uart'.txq = <<>>)
  <2>1. CASE device.present
    <3>1. TestInv
      BY <1>3, <2>1 DEF IInv, PortInv
    <3>2. ~Dlab
      BY <3>1 DEF TestInv, Dlab
    <3>3. /\ uart' \in UartType
          /\ uart'.lcr = uart.lcr /\ uart'.mcr = uart.mcr /\ uart'.fifo = uart.fifo
          /\ uart'.ier = uart.ier /\ uart'.divisor = uart.divisor
          /\ uart'.txq = IF Len(uart.txq) < 1 THEN Append(uart.txq, MAGIC) ELSE uart.txq
      BY <1>1, <1>2, <2>1, <3>1, <3>2, OutData DEF TestInv, Capacity
    <3>4. Len(uart'.txq) <= 1
      BY <3>1, <3>3, <1>2 DEF TestInv, UartType
    <3> QED
      BY <2>1, <3>1, <3>3, <3>4 DEF TestInv, RateSet, Looped
  <2>2. CASE ~device.present
    <3>1. uart' = uart /\ uart.txq = <<>>
      BY <1>1, <2>2, OutAbsent DEF IInv, PortInv
    <3> QED
      BY <1>2, <2>2, <3>1
  <2> QED
    BY <2>1, <2>2
<1>5. ~works /\ pc'[Bsp] = "test_read" /\ (PortInv' => IInv')
  <2>1. device.fifo => Len(uart'.txq) <= 1 /\ (uart'.txq = <<>> \/ Looped')
    BY <1>4 DEF TestInv
  <2> QED
    BY <1>1, <1>2, <1>4, <2>1, SetupFrame DEF Setup
<1>6. PortInv'
  BY <1>1, <1>3, <1>4, <1>5 DEF PortInv, Setup
<1> QED
  BY <1>5, <1>6

LEMMA TestReadInv ==
  ASSUME IInv, TestRead
  PROVE  IInv'
<1> DEFINE to == IF device.present /\ uart.rx = MAGIC THEN "final_script"
                 ELSE IF attempt + 1 < TEST_RETRIES THEN "test_write" ELSE "test_scratch"
<1>1. /\ Goto(Bsp, "test_read", to) /\ UNCHANGED <<device, overrun, released, text, gaveUp>>
      /\ UNCHANGED works /\ UNCHANGED <<uart, step>>
  BY DEF TestRead, port
<1>2. uart' \in UartType /\ step' \in [Core -> Nat \ {0}]
  BY <1>1 DEF IInv, ConsoleType
<1>3. pc[Bsp] = "test_read" /\ step'[Bsp] = 1
  BY <1>1 DEF Goto, IInv, PortInv
<1>4. (device.present => TestInv') /\ (~device.present => uart'.txq = <<>>)
  BY <1>1, <1>3 DEF IInv, PortInv, TestInv, RateSet, Looped
<1>5. /\ to \in {"final_script", "test_write", "test_scratch"}
      /\ (to = "final_script" => device.present)
  OBVIOUS
<1> HIDE DEF to
<1>6. ~works /\ pc'[Bsp] = to /\ (PortInv' => IInv')
  <2>1. device.fifo => Len(uart'.txq) <= 1 /\ (uart'.txq = <<>> \/ Looped')
    BY <1>4 DEF TestInv
  <2>2. "test_read" \in Setup /\ to \in Setup
    BY <1>5 DEF Setup
  <2> QED
    BY <1>1, <1>2, <2>1, <2>2, SetupFrame
<1>7. PortInv'
  <2>1. CASE to = "final_script"
    <3>1. FinalScriptInv(step[Bsp])'
      BY <1>3, <1>4, <1>5, <2>1 DEF FinalScriptInv, TestInv, Dlab
    <3> QED
      BY <1>1, <1>3, <1>5, <1>6, <2>1, <3>1 DEF PortInv, Setup
  <2>2. CASE to # "final_script"
    BY <1>1, <1>3, <1>4, <1>5, <1>6, <2>2 DEF PortInv, Setup
  <2> QED
    BY <2>1, <2>2
<1> QED
  BY <1>6, <1>7

\* The message that ends the set-up.
LEMMA LogText ==
  /\ log_print \in Seq(Pieces) /\ log_print # <<>>
  /\ log_print \o <<"sink">> \in Seq(Pieces \cup {"sink"}) /\ log_print \o <<"sink">> # <<>>
  BY DEF log_print, Pieces

\* A sequence of pieces is a text.
LEMMA SeqPieces == \A s : s \in Seq(Pieces) => s \in Seq(Pieces \cup {"sink"})
  OBVIOUS

LEMMA TestScratchInv ==
  ASSUME IInv, TestScratch
  PROVE  IInv'
<1> DEFINE to == IF device.scratch THEN "final_script" ELSE "putc"
<1>1. /\ Goto(Bsp, "test_scratch", to) /\ UNCHANGED <<device, overrun, released, gaveUp>>
      /\ UNCHANGED works /\ UNCHANGED step /\ Out("SCRATCH_REG", MAGIC)
      /\ text' = [text EXCEPT ![Bsp] = IF device.scratch THEN @ ELSE log_print]
  BY DEF TestScratch
<1>2. /\ uart \in UartType /\ device \in Device /\ step \in [Core -> Nat \ {0}]
      /\ pc[Bsp] = "test_scratch" /\ step[Bsp] = 1 /\ Bsp \in Core
      /\ text \in [Core -> Seq(Pieces \cup {"sink"})]
  BY <1>1, ConsoleAssumption DEF Goto, IInv, ConsoleType, PortInv, Bsp, Core
<1>3. uart' = IF device.scratch THEN [uart EXCEPT !.scratch = MAGIC] ELSE uart
  BY <1>1, <1>2, DeviceFacts DEF Out, WriteRegister
<1>4. uart' \in UartType
  <2>1. MAGIC \in Bytes
    BY ByteType DEF MAGIC
  <2> QED
    BY <1>2, <1>3, <2>1 DEF UartType
<1>5. (device.present => TestInv') /\ (~device.present => uart'.txq = <<>>)
  BY <1>2, <1>3, DeviceFacts DEF IInv, PortInv, TestInv, RateSet, Looped, UartType
<1>6. device.fifo => Len(uart'.txq) <= 1 /\ (uart'.txq = <<>> \/ Looped')
  BY <1>5 DEF TestInv
<1>7. CASE device.scratch
  <2>1. UNCHANGED text
    BY <1>1, <1>2, <1>7
  <2>2. Goto(Bsp, "test_scratch", "final_script") /\ device.present
    BY <1>1, <1>2, <1>7, DeviceFacts
  <2>3. ~works /\ pc'[Bsp] = "final_script" /\ (PortInv' => IInv')
    BY <1>1, <1>2, <1>4, <1>6, <2>1, <2>2, SetupFrame DEF Setup
  <2>4. FinalScriptInv(step[Bsp])'
    BY <1>1, <1>2, <1>5, <2>2 DEF FinalScriptInv, TestInv, Dlab
  <2>5. PortInv'
    BY <1>1, <1>2, <1>5, <2>2, <2>3, <2>4 DEF PortInv, Setup
  <2> QED
    BY <2>3, <2>5
<1>8. CASE ~device.scratch
  <2>1. /\ pc'[Bsp] = "putc" /\ \A c \in Core \ {Bsp} : pc'[c] = pc[c]
        /\ pc' \in [Core -> Setup \cup Printing \cup {"idle", "halted"}]
    BY <1>1, <1>2, <1>8 DEF Goto, IInv, ConsoleType, Printing
  <2>2. ~works /\ ~released /\ \A c \in Core \ {Bsp} : pc[c] = "idle"
    BY <1>2 DEF IInv, PortInv, TurnsInv, Setup
  <2>3. /\ text'[Bsp] = log_print /\ \A c \in Core \ {Bsp} : text'[c] = text[c]
        /\ text' \in [Core -> Seq(Pieces \cup {"sink"})]
    BY <1>1, <1>2, <1>8, LogText, SeqPieces
  <2>4. ConsoleType'
    BY <1>1, <1>4, <2>1, <2>3 DEF IInv, ConsoleType
  <2>5. TurnsInv'
    BY <1>1, <2>1, <2>2 DEF TurnsInv, Setup
  <2>6. TextInv'
    <3> SUFFICES ASSUME NEW c \in Core
                 PROVE  /\ pc'[c] \notin {"poll", "send"}
                        /\ pc'[c] \in Printing => text'[c] # <<>>
                        /\ text'[c] \in Seq(Pieces)
      BY <1>1, <2>2 DEF TextInv
    <3>1. CASE c = Bsp
      BY <2>1, <2>3, <3>1, LogText
    <3>2. CASE c # Bsp
      BY <2>1, <2>2, <2>3, <3>2 DEF IInv, TextInv, Printing
    <3> QED BY <3>1, <3>2
  <2>7. ~device.fifo /\ ~device'.fifo
    BY <1>1, <1>2, <1>8, DeviceFacts
  <2>8. PortInv'
    BY <1>1, <1>2, <1>5, <1>8, <2>1, <2>2 DEF PortInv, Setup
  <2> QED
    BY <2>4, <2>5, <2>6, <2>7, <2>8 DEF IInv, FifoInv, OnlyLogged, NoOverrun
<1> QED
  BY <1>7, <1>8

LEMMA SetupDoneInv ==
  ASSUME IInv, SetupDone
  PROVE  IInv'
<1>1. /\ Goto(Bsp, "configured", "putc")
      /\ UNCHANGED <<device, uart, overrun, released, gaveUp, step>>
      /\ works' = TRUE
      /\ text' = [text EXCEPT ![Bsp] = IF status = 1 THEN log_print ELSE log_print \o <<"sink">>]
  BY DEF SetupDone, port
<1>2. /\ Bsp \in Core /\ pc[Bsp] = "configured"
      /\ text \in [Core -> Seq(Pieces \cup {"sink"})]
  BY <1>1, ConsoleAssumption DEF Goto, IInv, ConsoleType, Bsp, Core
<1>3. /\ pc'[Bsp] = "putc" /\ \A c \in Core \ {Bsp} : pc'[c] = pc[c]
      /\ pc' \in [Core -> Setup \cup Printing \cup {"idle", "halted"}]
  BY <1>1, <1>2 DEF Goto, IInv, ConsoleType, Printing
<1>4. ~released /\ \A c \in Core \ {Bsp} : pc[c] = "idle"
  BY <1>2 DEF IInv, PortInv, TurnsInv, Setup
<1>5. /\ text'[Bsp] # <<>> /\ \A c \in Core \ {Bsp} : text'[c] = text[c]
      /\ text' \in [Core -> Seq(Pieces \cup {"sink"})]
  BY <1>1, <1>2, LogText, SeqPieces
<1>6. ConsoleType'
  BY <1>1, <1>3, <1>5 DEF IInv, ConsoleType
<1>7. TurnsInv'
  BY <1>1, <1>3, <1>4 DEF TurnsInv, Setup
<1>8. TextInv'
  <2>1. \A c \in Core : pc'[c] \in Printing => text'[c] # <<>>
    BY <1>3, <1>4, <1>5 DEF Printing
  <2> QED
    BY <1>1, <2>1 DEF TextInv
<1>9. device.present /\ ReadyInv /\ (device.fifo => uart.txq = <<>>)
  BY <1>2 DEF IInv, PortInv
<1>10. PortInv'
  <2>1. ReadyInv'
    BY <1>1, <1>9 DEF ReadyInv, RateSet, Looped
  <2> QED
    BY <1>1, <1>3, <1>9, <2>1 DEF PortInv, Setup
<1>11. FifoInv'
  <2>1. Senders' = {}
    BY <1>3, <1>4 DEF Senders
  <2>2. Cardinality(Senders') = 0
    BY <2>1, FS_EmptySet
  <2>3. device.fifo => Len(uart.txq) = 0
    BY <1>9
  <2> QED
    BY <1>1, <2>2, <2>3, ConsoleAssumption DEF FifoInv
<1>12. OnlyLogged' /\ NoOverrun'
  BY <1>1 DEF IInv, OnlyLogged, NoOverrun
<1> QED
  BY <1>6, <1>7, <1>8, <1>10, <1>11, <1>12 DEF IInv

----------------------------------------------------------------------------
(* Printing.                                                               *)

\* Each step of printing preserves the invariant.
LEMMA ReleaseInv ==
  ASSUME IInv, Release
  PROVE  IInv'
<1>1. /\ UNCHANGED <<device, uart, overrun, works, pc, step, text, gaveUp>>
      /\ released' = TRUE /\ pc[Bsp] = "idle"
  BY DEF Release, port
<1>2. ConsoleType' /\ TurnsInv' /\ TextInv'
  BY <1>1 DEF IInv, ConsoleType, TurnsInv, TextInv
<1>3. PortInv'
  <2>1. works' => ReadyInv'
    BY <1>1 DEF IInv, PortInv, ReadyInv, RateSet, Looped
  <2> QED
    BY <1>1, <2>1 DEF IInv, PortInv, Setup
<1>4. FifoInv' /\ OnlyLogged' /\ NoOverrun'
  BY <1>1 DEF IInv, FifoInv, Senders, OnlyLogged, NoOverrun
<1> QED
  BY <1>2, <1>3, <1>4 DEF IInv

\* A step of a core that has its turn to print: what it says about the turns and
\* about the port, of which it changes the transmitter at most.
LEMMA CoreFrame ==
  ASSUME IInv, NEW c \in Core, NEW to \in Printing \cup {"idle", "halted"},
         pc' = [pc EXCEPT ![c] = to],
         \/ pc[c] \in Printing
         \/ pc[c] = "idle" /\ (released <=> c # Bsp),
         UNCHANGED <<device, works, released>>,
         uart'.lcr = uart.lcr /\ uart'.mcr = uart.mcr /\ uart'.fifo = uart.fifo,
         uart'.ier = uart.ier /\ uart'.divisor = uart.divisor,
         ~device.present => uart'.txq = uart.txq
  PROVE  /\ pc'[c] = to /\ \A d \in Core \ {c} : pc'[d] = pc[d]
         /\ pc' \in [Core -> Setup \cup Printing \cup {"idle", "halted"}]
         /\ TurnsInv' /\ PortInv'
<1>1. Bsp \in Core
  BY ConsoleAssumption DEF Bsp, Core
<1>2. /\ pc'[c] = to /\ \A d \in Core \ {c} : pc'[d] = pc[d]
      /\ pc' \in [Core -> Setup \cup Printing \cup {"idle", "halted"}]
  BY DEF IInv, ConsoleType
<1>3. /\ pc[c] \notin Setup /\ pc'[c] \notin Setup
      /\ \A s \in Setup : pc'[Bsp] = s <=> pc[Bsp] = s
  BY <1>1, <1>2 DEF Printing, Setup
<1>4. released <=> c # Bsp
  BY <1>1 DEF IInv, TurnsInv, Printing
<1>5. TurnsInv'
  BY <1>1, <1>2, <1>3, <1>4 DEF IInv, TurnsInv
<1>6. pc'[Bsp] \notin Setup /\ pc[Bsp] \notin Setup
  BY <1>1, <1>2, <1>3, <1>4 DEF IInv, TurnsInv, Setup
<1>7. works => ReadyInv'
  <2>1. works => ReadyInv /\ device.present
    BY DEF IInv, PortInv
  <2> QED
    BY <2>1 DEF ReadyInv, RateSet, Looped
<1>8. PortInv'
  BY <1>6, <1>7 DEF IInv, PortInv, Setup
<1> QED
  BY <1>2, <1>5, <1>8

\* What a core still has to print, when it has printed a character.
LEMMA AfterCharText ==
  ASSUME IInv, NEW c \in Core, AfterChar(c), pc[c] \in Printing
  PROVE  \E to \in {"idle", "putc"} :
           /\ pc' = [pc EXCEPT ![c] = to]
           /\ text' \in [Core -> Seq(Pieces \cup {"sink"})]
           /\ to = "putc" => text'[c] # <<>>
           /\ text[c] \in Seq(Pieces) => text'[c] \in Seq(Pieces)
           /\ \A d \in Core \ {c} : text'[d] = text[d]
<1>1. text \in [Core -> Seq(Pieces \cup {"sink"})] /\ text[c] # <<>>
  BY DEF IInv, ConsoleType, TextInv
<1>2. text' = [text EXCEPT ![c] = Tail(text[c])]
  BY DEF AfterChar
<1>3. Tail(text[c]) \in Seq(Pieces \cup {"sink"})
  BY <1>1
<1>4. text[c] \in Seq(Pieces) => Tail(text[c]) \in Seq(Pieces)
  BY <1>1
<1>5. text'[c] = Tail(text[c]) /\ \A d \in Core \ {c} : text'[d] = text[d]
  BY <1>1, <1>2
<1>6. text' \in [Core -> Seq(Pieces \cup {"sink"})]
  BY <1>1, <1>2, <1>3
<1>7. CASE Tail(text[c]) = <<>>
  BY <1>4, <1>5, <1>6, <1>7 DEF AfterChar
<1>8. CASE Tail(text[c]) # <<>>
  BY <1>4, <1>5, <1>6, <1>8 DEF AfterChar
<1> QED
  BY <1>7, <1>8

\* What one core has to print says nothing of the others.
LEMMA TextFrame ==
  ASSUME IInv, NEW c \in Core, UNCHANGED works,
         \A d \in Core \ {c} : pc'[d] = pc[d] /\ text'[d] = text[d],
         pc'[c] \in {"poll", "send"} => works,
         pc'[c] \in Printing => text'[c] # <<>>,
         ~works => text'[c] \in Seq(Pieces)
  PROVE  TextInv'
<1> SUFFICES ASSUME NEW d \in Core
             PROVE  /\ pc'[d] \in {"poll", "send"} => works
                    /\ pc'[d] \in Printing => text'[d] # <<>>
                    /\ ~works => text'[d] \in Seq(Pieces)
  BY DEF TextInv
<1>1. CASE d = c
  BY <1>1
<1>2. CASE d # c
  BY <1>2 DEF IInv, TextInv
<1> QED
  BY <1>1, <1>2

\* A step of a core that sends neither before nor after.
LEMMA SendersFrame ==
  ASSUME NEW c \in Core, \A d \in Core \ {c} : pc'[d] = pc[d],
         pc[c] # "send", pc'[c] # "send"
  PROVE  Senders' = Senders
  BY DEF Senders

LEMMA CallInv ==
  ASSUME IInv, NEW c \in Core, Call(c)
  PROVE  IInv'
<1>1. PICK t \in Messages \cup Faults : text' = [text EXCEPT ![c] = t]
  BY DEF Call
<1>2. /\ pc[c] = "idle" /\ pc' = [pc EXCEPT ![c] = "putc"] /\ (released <=> c # Bsp)
      /\ UNCHANGED <<device, uart, overrun, works, released, step, gaveUp>>
  BY DEF Call, Goto, port, setup
<1>3. t \in Seq(Pieces) /\ t # <<>>
  BY TextsClean
<1>4. /\ text'[c] = t /\ \A d \in Core \ {c} : text'[d] = text[d]
      /\ text' \in [Core -> Seq(Pieces \cup {"sink"})]
  BY <1>1, <1>3, SeqPieces DEF IInv, ConsoleType
<1>5. /\ pc'[c] = "putc" /\ \A d \in Core \ {c} : pc'[d] = pc[d]
      /\ pc' \in [Core -> Setup \cup Printing \cup {"idle", "halted"}]
      /\ TurnsInv' /\ PortInv'
  BY <1>2, CoreFrame DEF Printing
<1>6. ConsoleType'
  BY <1>2, <1>4, <1>5 DEF IInv, ConsoleType
<1>7. TextInv'
  BY <1>2, <1>3, <1>4, <1>5, TextFrame
<1>8. FifoInv' /\ OnlyLogged' /\ NoOverrun'
  <2>1. Senders' = Senders
    BY <1>2, <1>5, SendersFrame
  <2> QED
    BY <1>2, <2>1 DEF IInv, FifoInv, OnlyLogged, NoOverrun
<1> QED
  BY <1>5, <1>6, <1>7, <1>8 DEF IInv

LEMMA PutcInv ==
  ASSUME IInv, NEW c \in Core, Putc(c)
  PROVE  IInv'
<1>1. /\ pc[c] = "putc" /\ UNCHANGED <<device, uart, overrun, works, released, step, gaveUp>>
      /\ pc[c] \in Printing
  BY DEF Putc, port, setup, Printing
<1>2. ~works => text[c] \in Seq(Pieces) /\ text[c] # <<>>
  BY <1>1 DEF IInv, TextInv
<1>3. ~works => Head(text[c]) # "sink"
  <2>1. \A s \in Seq(Pieces) : s # <<>> => Head(s) \in Pieces
    OBVIOUS
  <2> QED
    BY <1>2, <2>1 DEF Pieces
<1>4. \E to \in {"idle", "putc", "poll"} :
           /\ pc' = [pc EXCEPT ![c] = to]
           /\ text' \in [Core -> Seq(Pieces \cup {"sink"})]
           /\ to = "poll" => works
           /\ to # "idle" => text'[c] # <<>>
           /\ ~works => text'[c] \in Seq(Pieces)
           /\ \A d \in Core \ {c} : text'[d] = text[d]
  <2>1. CASE works
    <3>1. pc' = [pc EXCEPT ![c] = "poll"] /\ UNCHANGED text
      BY <2>1 DEF Putc
    <3> QED
      BY <1>1, <2>1, <3>1 DEF IInv, ConsoleType, TextInv
  <2>2. CASE ~works
    <3>1. AfterChar(c)
      BY <1>3, <2>2 DEF Putc
    <3> QED
      BY <1>1, <1>2, <2>2, <3>1, AfterCharText
  <2> QED
    BY <2>1, <2>2
<1>5. PICK to \in {"idle", "putc", "poll"} :
           /\ pc' = [pc EXCEPT ![c] = to]
           /\ text' \in [Core -> Seq(Pieces \cup {"sink"})]
           /\ to = "poll" => works
           /\ to # "idle" => text'[c] # <<>>
           /\ ~works => text'[c] \in Seq(Pieces)
           /\ \A d \in Core \ {c} : text'[d] = text[d]
  BY <1>4
<1>6. /\ pc'[c] = to /\ \A d \in Core \ {c} : pc'[d] = pc[d]
      /\ pc' \in [Core -> Setup \cup Printing \cup {"idle", "halted"}]
      /\ TurnsInv' /\ PortInv'
  BY <1>1, <1>5, CoreFrame DEF Printing
<1>7. ConsoleType'
  BY <1>1, <1>5, <1>6 DEF IInv, ConsoleType
<1>8. TextInv'
  BY <1>1, <1>5, <1>6, TextFrame DEF Printing
<1>9. FifoInv' /\ OnlyLogged' /\ NoOverrun'
  <2>1. Senders' = Senders
    BY <1>1, <1>5, <1>6, SendersFrame
  <2> QED
    BY <1>1, <2>1 DEF IInv, FifoInv, OnlyLogged, NoOverrun
<1> QED
  BY <1>6, <1>7, <1>8, <1>9 DEF IInv

LEMMA HaltInv ==
  ASSUME IInv, NEW c \in Core, Halt(c)
  PROVE  IInv'
<1>1. /\ pc[c] = "putc" /\ UNCHANGED <<device, uart, overrun, works, released, step, text, gaveUp>>
      /\ pc[c] \in Printing /\ pc' = [pc EXCEPT ![c] = "halted"]
  BY DEF Halt, port, setup, Printing
<1>2. /\ pc'[c] = "halted" /\ \A d \in Core \ {c} : pc'[d] = pc[d]
      /\ pc' \in [Core -> Setup \cup Printing \cup {"idle", "halted"}]
      /\ TurnsInv' /\ PortInv'
  BY <1>1, CoreFrame
<1>3. ConsoleType'
  BY <1>1, <1>2 DEF IInv, ConsoleType
<1>4. TextInv'
  <2>1. ~works => text'[c] \in Seq(Pieces)
    BY <1>1 DEF IInv, TextInv
  <2> QED
    BY <1>1, <1>2, <2>1, TextFrame DEF Printing
<1>5. FifoInv' /\ OnlyLogged' /\ NoOverrun'
  <2>1. Senders' = Senders
    BY <1>1, <1>2, SendersFrame
  <2> QED
    BY <1>1, <2>1 DEF IInv, FifoInv, OnlyLogged, NoOverrun
<1> QED
  BY <1>2, <1>3, <1>4, <1>5 DEF IInv

\* No more senders than cores.
LEMMA SendersSize ==
  /\ IsFiniteSet(Core) /\ Cardinality(Core) = ApCount + 1
  /\ IsFiniteSet(Senders) /\ Cardinality(Senders) \in Nat
  /\ Cardinality(Senders) <= ApCount + 1
<1>1. IsFiniteSet(Core) /\ Cardinality(Core) = ApCount + 1
  BY ConsoleAssumption, FS_Interval DEF Core
<1>2. Senders \subseteq Core
  BY DEF Senders
<1> QED
  BY <1>1, <1>2, FS_Subset, FS_CardinalityType

\* A core that becomes a sender saw the transmitter empty or gave up.
LEMMA PollInv ==
  ASSUME IInv, NEW c \in Core, Poll(c)
  PROVE  IInv'
<1> DEFINE last == transmit_empty \/ LastPoll(c)
           to == IF last THEN "send" ELSE "poll"
<1>1. /\ pc[c] = "poll" /\ UNCHANGED <<device, uart, overrun, works, released, text>>
      /\ pc[c] \in Printing /\ pc' = [pc EXCEPT ![c] = to]
      /\ step' = [step EXCEPT ![c] = IF last THEN 1 ELSE IF @ < MAX_POLLS THEN @ + 1 ELSE @]
      /\ gaveUp' = (gaveUp \/ (~transmit_empty /\ LastPoll(c)))
  BY DEF Poll, port, setup, Printing, Goto
<1>2. to \in {"send", "poll"} /\ (to = "send" <=> last)
  OBVIOUS
<1> HIDE DEF to
<1>3. /\ pc'[c] = to /\ \A d \in Core \ {c} : pc'[d] = pc[d]
      /\ pc' \in [Core -> Setup \cup Printing \cup {"idle", "halted"}]
      /\ TurnsInv'
  BY <1>1, <1>2, CoreFrame DEF Printing
<1>4. PortInv'
  BY <1>1, <1>2, CoreFrame DEF Printing
<1>5. step' \in [Core -> Nat \ {0}]
  BY <1>1, ConsoleAssumption DEF IInv, ConsoleType
<1>6. ConsoleType'
  BY <1>1, <1>3, <1>5 DEF IInv, ConsoleType
<1>7. works /\ text[c] # <<>>
  BY <1>1 DEF IInv, TextInv
<1>8. TextInv'
  BY <1>1, <1>3, <1>7, TextFrame
<1>9. (gaveUp => gaveUp') /\ (gaveUp' => gaveUp \/ (last /\ ~transmit_empty))
  BY <1>1
<1>10. FifoInv'
  <2> SUFFICES ASSUME device.fifo, ~gaveUp'
               PROVE  Len(uart.txq) + Cardinality(Senders') <= ApCount + 1
    BY <1>1 DEF FifoInv
  <2>1. CASE last
    <3>1. uart.txq = <<>>
      <4>1. device.present
        BY DeviceFacts DEF IInv, ConsoleType
      <4>2. transmit_empty
        BY <1>1, <2>1
      <4> QED
        BY <4>1, <4>2 DEF transmit_empty, TxEmpty
    <3>2. Senders' \subseteq Core
      BY DEF Senders
    <3>3. Cardinality(Senders') <= ApCount + 1 /\ Cardinality(Senders') \in Nat
      BY <3>2, SendersSize, FS_Subset, FS_CardinalityType
    <3>4. Len(uart.txq) = 0
      BY <3>1
    <3> QED
      BY <3>3, <3>4, ConsoleAssumption
  <2>2. CASE ~last
    <3>1. Senders' = Senders
      BY <1>1, <1>2, <1>3, <2>2, SendersFrame
    <3> QED
      BY <1>9, <3>1 DEF IInv, FifoInv
  <2> QED
    BY <2>1, <2>2
<1>11. OnlyLogged' /\ NoOverrun'
  BY <1>1, <1>9 DEF IInv, OnlyLogged, NoOverrun
<1> QED
  BY <1>3, <1>4, <1>6, <1>8, <1>10, <1>11 DEF IInv

\* A sender adds one byte at most and stops being one.
LEMMA SendInv ==
  ASSUME IInv, NEW c \in Core, Send(c)
  PROVE  IInv'
<1>1. /\ pc[c] = "send" /\ UNCHANGED <<device, works, released, step, gaveUp>>
      /\ pc[c] \in Printing /\ AfterChar(c) /\ Out("DATA", Char(c))
      /\ overrun' = (overrun \/ Len(uart.txq) >= Capacity)
  BY DEF Send, setup, Printing
<1>2. works /\ device.present /\ ReadyInv /\ uart \in UartType
  BY <1>1 DEF IInv, TextInv, PortInv, ConsoleType
<1>3. ~Dlab
  BY <1>2 DEF ReadyInv, Dlab
<1>4. Char(c) \in Bytes /\ Char(c).core = c
  BY ByteType, ConsoleAssumption DEF Core
<1>5. /\ uart' \in UartType
      /\ uart'.lcr = uart.lcr /\ uart'.mcr = uart.mcr /\ uart'.fifo = uart.fifo
      /\ uart'.ier = uart.ier /\ uart'.divisor = uart.divisor
      /\ uart'.txq = IF Len(uart.txq) < Capacity THEN Append(uart.txq, Char(c)) ELSE uart.txq
  BY <1>1, <1>2, <1>3, <1>4, OutData
<1>6. PICK to \in {"idle", "putc"} :
           /\ pc' = [pc EXCEPT ![c] = to]
           /\ text' \in [Core -> Seq(Pieces \cup {"sink"})]
           /\ to = "putc" => text'[c] # <<>>
           /\ text[c] \in Seq(Pieces) => text'[c] \in Seq(Pieces)
           /\ \A d \in Core \ {c} : text'[d] = text[d]
  BY <1>1, AfterCharText
<1>7. /\ pc'[c] = to /\ \A d \in Core \ {c} : pc'[d] = pc[d]
      /\ pc' \in [Core -> Setup \cup Printing \cup {"idle", "halted"}]
      /\ TurnsInv'
  BY <1>1, <1>2, <1>5, <1>6, CoreFrame DEF Printing
<1>8. PortInv'
  BY <1>1, <1>2, <1>5, <1>6, CoreFrame DEF Printing
<1>9. ConsoleType'
  BY <1>1, <1>5, <1>6, <1>7 DEF IInv, ConsoleType
<1>10. TextInv'
  BY <1>1, <1>2, <1>6, <1>7, TextFrame DEF Printing
<1>11. Cardinality(Senders') = Cardinality(Senders) - 1
  <2>1. Senders' = Senders \ {c} /\ c \in Senders
    BY <1>1, <1>6, <1>7 DEF Senders
  <2> QED
    BY <2>1, SendersSize, FS_RemoveElement
<1>12. uart.txq \in Seq(Bytes) /\ Len(uart'.txq) \in Nat /\ Len(uart'.txq) <= Len(uart.txq) + 1
  BY <1>2, <1>4, <1>5 DEF UartType
<1>13. FifoInv'
  <2>1. Len(uart'.txq) + Cardinality(Senders') <= Len(uart.txq) + Cardinality(Senders)
    BY <1>11, <1>12, SendersSize
  <2>2. Cardinality(Senders') \in Int
    BY <1>11, SendersSize
  <2> QED
    BY <1>1, <1>12, <2>1, <2>2, SendersSize, ConsoleAssumption DEF IInv, FifoInv
<1>14. OnlyLogged'
  <2> SUFFICES ASSUME device.loopback, device.fifo, "LOOP" \notin uart.mcr,
                      NEW k \in 1..Len(uart'.txq)
               PROVE  uart'.txq[k].core \in Core
    BY <1>1, <1>5 DEF OnlyLogged
  <2>1. \A j \in 1..Len(uart.txq) : uart.txq[j].core \in Core
    BY DEF IInv, OnlyLogged
  <2>2. CASE uart'.txq = uart.txq
    BY <2>1, <2>2
  <2>3. CASE uart'.txq = Append(uart.txq, Char(c))
    <3>1. k \in 1..Len(uart.txq) => uart'.txq[k] = uart.txq[k]
      BY <1>4, <1>12, <2>3
    <3>2. k \notin 1..Len(uart.txq) => uart'.txq[k] = Char(c)
      BY <1>4, <1>12, <2>3
    <3> QED
      BY <1>4, <2>1, <3>1, <3>2
  <2> QED
    BY <1>5, <2>2, <2>3
<1>15. NoOverrun'
  <2> SUFFICES ASSUME overrun', ~gaveUp, device.fifo
               PROVE  FALSE
    BY <1>1 DEF NoOverrun
  <2>1. ~overrun
    BY DEF IInv, NoOverrun
  <2>2. Capacity = FIFO_DEPTH
    BY <1>2 DEF ReadyInv, Capacity
  <2>3. Cardinality(Senders) >= 1
    <3>1. c \in Senders
      BY <1>1 DEF Senders
    <3>2. Cardinality(Senders) # 0
      BY <3>1, SendersSize, FS_EmptySet
    <3> QED
      BY <3>2, SendersSize
  <2>4. Len(uart.txq) + Cardinality(Senders) <= ApCount + 1
    BY DEF IInv, FifoInv
  <2>5. Len(uart.txq) \in Nat
    BY <1>12
  <2>6. ~(Len(uart.txq) >= Capacity)
    BY <2>2, <2>3, <2>4, <2>5, SendersSize, ConsoleAssumption
  <2> QED
    BY <1>1, <2>1, <2>6
<1> QED
  BY <1>7, <1>8, <1>9, <1>10, <1>13, <1>14, <1>15 DEF IInv

\* The port removes a byte.
LEMMA TransmitInv ==
  ASSUME IInv, Transmit
  PROVE  IInv'
<1>1. /\ UNCHANGED <<device, overrun, works, released, pc, step, text, gaveUp>>
      /\ uart.txq # <<>> /\ uart \in UartType /\ device \in Device
  BY DEF Transmit, setup, IInv, ConsoleType
<1>2. uart.txq \in Seq(Bytes)
  BY <1>1 DEF UartType
<1>3. /\ Tail(uart.txq) \in Seq(Bytes) /\ Head(uart.txq) \in Bytes
      /\ Len(Tail(uart.txq)) = Len(uart.txq) - 1 /\ Len(uart.txq) \in Nat
  BY <1>1, <1>2
<1>4. /\ uart' \in UartType
      /\ uart'.lcr = uart.lcr /\ uart'.mcr = uart.mcr /\ uart'.fifo = uart.fifo
      /\ uart'.ier = uart.ier /\ uart'.divisor = uart.divisor
      /\ uart'.txq = Tail(uart.txq)
  <2>1. PICK x \in Bytes : uart' = [uart EXCEPT !.txq = Tail(uart.txq), !.rx = x]
    BY <1>1, <1>3 DEF Transmit, UartType
  <2> QED
    BY <1>1, <1>3, <2>1 DEF UartType
<1>5. ConsoleType' /\ TurnsInv' /\ TextInv' /\ NoOverrun'
  BY <1>1, <1>4 DEF IInv, ConsoleType, TurnsInv, TextInv, NoOverrun
<1>6. device.present /\ pc[Bsp] # "test_script"
  BY <1>1 DEF IInv, PortInv, TestScriptInv
<1>7. Len(uart'.txq) <= Len(uart.txq) /\ Len(uart'.txq) \in Nat
  BY <1>3, <1>4
<1>8. PortInv'
  <2>1. TestInv => TestInv'
    BY <1>3, <1>4, <1>7 DEF TestInv, RateSet, Looped
  <2>2. ReadyInv => ReadyInv'
    BY <1>1, <1>4 DEF ReadyInv, RateSet, Looped
  <2>3. FinalScriptInv(step[Bsp]) => FinalScriptInv(step[Bsp])'
    BY <1>1, <1>3, <1>4, <1>7 DEF FinalScriptInv, RateSet, Looped, Dlab
  <2> QED
    BY <1>1, <1>6, <2>1, <2>2, <2>3 DEF IInv, PortInv, Setup
<1>9. FifoInv'
  <2>1. Senders' = Senders
    BY <1>1 DEF Senders
  <2> QED
    BY <1>1, <1>3, <1>7, <2>1, SendersSize, ConsoleAssumption DEF IInv, FifoInv
<1>10. OnlyLogged'
  <2> SUFFICES ASSUME device.loopback, device.fifo, "LOOP" \notin uart.mcr,
                      NEW k \in 1..Len(uart'.txq)
               PROVE  uart'.txq[k].core \in Core
    BY <1>1, <1>4 DEF OnlyLogged
  <2>1. \A j \in 1..Len(uart.txq) : uart.txq[j].core \in Core
    BY DEF IInv, OnlyLogged
  <2>2. uart'.txq[k] = uart.txq[k + 1] /\ k + 1 \in 1..Len(uart.txq)
    BY <1>1, <1>2, <1>3, <1>4
  <2> QED
    BY <2>1, <2>2
<1> QED
  BY <1>5, <1>8, <1>9, <1>10 DEF IInv

----------------------------------------------------------------------------
(* The theorems.                                                           *)

\* The invariant holds at first.
LEMMA InvInit == Init => IInv
<1> SUFFICES ASSUME Init PROVE IInv
  OBVIOUS
<1>1. Bsp \in Core /\ ApCount \in Nat /\ Core \subseteq Int
  BY ConsoleAssumption DEF Bsp, Core
<1>2. uart \in UartType /\ uart.txq = <<>> /\ ~uart.fifo
  <2>1. Unset \in Bytes
    BY ByteType DEF Unset
  <2>2. uart \in [lcr : {{}, {"DLAB", "8BIT"}}, mcr : {{}, {"LOOP"}}, fifo : {FALSE},
                  ier : {Unset}, divisor : {<<Unset, Unset>>}, scratch : {Unset},
                  rx : {Unset}, txq : {<<>>}]
    BY DEF Init
  <2>3. uart.txq = <<>> /\ uart.fifo = FALSE
    BY <2>2
  <2>4. /\ {{}, {"DLAB", "8BIT"}} \subseteq SUBSET {"DLAB", "8BIT"}
        /\ {{}, {"LOOP"}} \subseteq SUBSET {"TX", "RX", "LOOP", "IRQ"}
        /\ {FALSE} \subseteq BOOLEAN /\ {Unset} \subseteq Bytes
        /\ {<<Unset, Unset>>} \subseteq Bytes \X Bytes /\ {<<>>} \subseteq Seq(Bytes)
    BY <2>1
  <2>5. uart \in UartType
    BY <2>2, <2>4 DEF UartType
  <2> QED
    BY <2>3, <2>5
<1>3. ConsoleType
  <2>1. <<>> \in Seq(Pieces \cup {"sink"})
    OBVIOUS
  <2>2. pc \in [Core -> Setup \cup Printing \cup {"idle", "halted"}]
    BY DEF Init, Setup
  <2>3. step \in [Core -> Nat \ {0}] /\ text \in [Core -> Seq(Pieces \cup {"sink"})]
    BY <2>1 DEF Init
  <2> QED
    BY <1>2, <2>2, <2>3 DEF Init, ConsoleType
<1>4. /\ pc[Bsp] = "test_script" /\ step[Bsp] = 1
      /\ \A c \in Core \ {Bsp} : pc[c] = "idle"
  BY <1>1 DEF Init
<1>5. ~works /\ ~released /\ ~overrun
  BY DEF Init
<1>6. TurnsInv
  BY <1>4, <1>5 DEF TurnsInv, Setup
<1>7. TextInv
  <2>1. \A c \in Core : pc[c] \in {"test_script", "idle"} /\ text[c] = <<>>
    BY <1>4 DEF Init
  <2>2. <<>> \in Seq(Pieces)
    OBVIOUS
  <2> QED
    BY <2>1, <2>2 DEF TextInv, Printing
<1>8. PortInv
  BY <1>2, <1>4, <1>5 DEF PortInv, Setup, TestScriptInv, Dlab
<1>9. FifoInv
  <2>1. Len(uart.txq) = 0
    BY <1>2
  <2> QED
    BY <2>1, SendersSize, ConsoleAssumption DEF FifoInv
<1>10. OnlyLogged /\ NoOverrun
  BY <1>2, <1>5 DEF OnlyLogged, NoOverrun
<1> QED
  BY <1>3, <1>6, <1>7, <1>8, <1>9, <1>10 DEF IInv

\* Every step preserves it.
LEMMA InvNext == IInv /\ [Next]_vars => IInv'
<1> SUFFICES ASSUME IInv, [Next]_vars PROVE IInv'
  OBVIOUS
<1>1. CASE arch_16550uart_early_setup
  BY <1>1, TestSetupInv, TestWriteInv, TestReadInv, TestScratchInv, FinalSetupInv, SetupDoneInv
     DEF arch_16550uart_early_setup
<1>2. CASE Release
  BY <1>2, ReleaseInv
<1>3. ASSUME NEW c \in Core, Call(c) \/ Emit(c) PROVE IInv'
  BY <1>3, CallInv, PutcInv, PollInv, SendInv, HaltInv DEF Emit
<1>4. CASE Transmit
  BY <1>4, TransmitInv
<1>5. CASE UNCHANGED vars
  <2>1. UNCHANGED <<device, uart, overrun, works, released, pc, step, text, gaveUp>>
    BY <1>5 DEF vars, port, setup
  <2>2. ConsoleType' /\ TurnsInv' /\ TextInv' /\ FifoInv' /\ OnlyLogged' /\ NoOverrun'
    BY <2>1 DEF IInv, ConsoleType, TurnsInv, TextInv, FifoInv, Senders, OnlyLogged, NoOverrun
  <2>3. PortInv'
    BY <2>1 DEF IInv, PortInv, TestScriptInv, TestInv, FinalScriptInv, ReadyInv, RateSet,
       Looped, Dlab
  <2> QED
    BY <2>2, <2>3 DEF IInv
<1> QED
  BY <1>1, <1>2, <1>3, <1>4, <1>5 DEF Next

\* The invariant holds for any number of cores, calls, retries and polls, and any
\* FIFO that has room for one byte of every core.
THEOREM Invariance == Spec => []IInv
  BY InvInit, InvNext, PTL DEF Spec

\* PortReady: when characters may go to the port it is configured to send them, after
\* any self test (16550uart.c:189-203).
THEOREM PortStaysReady == Spec => []PortReady
<1>1. IInv => PortReady
  BY DEF IInv, PortInv, ReadyInv, RateSet, Looped, PortReady
<1> QED
  BY <1>1, Invariance, PTL

\* OnlyLogged: no byte of the self test and no divisor byte is ever sent on the line
\* (16550uart.c:132-149, 198-203).
THEOREM OnlyLoggedLeaves == Spec => []OnlyLogged
<1>1. IInv => OnlyLogged
  BY DEF IInv
<1> QED
  BY <1>1, Invariance, PTL

\* NoOverrun: without a lock, no byte is lost in a port with a FIFO unless a wait for
\* the transmitter timed out (16550uart.c:165-173).
THEOREM NothingLost == Spec => []NoOverrun
<1>1. IInv => NoOverrun
  BY DEF IInv
<1> QED
  BY <1>1, Invariance, PTL
============================================================================
