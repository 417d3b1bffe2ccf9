-------------------------- MODULE ConsoleInvariant --------------------------
(***************************************************************************)
(* An inductive invariant of Console, for any number of cores, calls and   *)
(* retries: the registers of the port after each write of the two scripts, *)
(* and how many bytes the cores can have on their way to the transmitter.  *)
(***************************************************************************)
EXTENDS Console, FiniteSets

Bytes == [core : Int, value : Int]
UartType == [lcr : SUBSET {"DLAB", "8BIT"}, mcr : SUBSET {"TX", "RX", "LOOP", "IRQ"},
             fifo : BOOLEAN, ier : Bytes, divisor : Bytes \X Bytes,
             scratch : Bytes, rx : Bytes, txq : Seq(Bytes)]

Setup == {"test_script", "test_write", "test_read", "test_scratch", "final_script",
          "configured"}
Printing == {"putc", "poll", "send"}
Pieces == {"text", "halt"}

ConsoleType ==
    /\ device \in Device
    /\ uart \in UartType
    /\ overrun \in BOOLEAN /\ works \in BOOLEAN /\ released \in BOOLEAN /\ gaveUp \in BOOLEAN
    /\ pc \in [Core -> Setup \cup Printing \cup {"idle", "halted"}]
    /\ step \in [Core -> Nat \ {0}]
    /\ text \in [Core -> Seq(Pieces \cup {"sink"})]

\* One core at a time: the others print only when the boot processor is done.
TurnsInv ==
    /\ released => pc[Bsp] = "idle"
    /\ \A c \in Core \ {Bsp} : ~released => pc[c] = "idle"
    /\ \A c \in Core \ {Bsp} : pc[c] \notin Setup

\* Bytes go to the port only when it works, and what a core still has to print is
\* there while it prints.
TextInv ==
    \A c \in Core :
        /\ pc[c] \in {"poll", "send"} => works
        /\ pc[c] \in Printing => text[c] # <<>>
        /\ ~works => text[c] \in Seq(Pieces)

RateSet == uart.ier = Byte(0) /\ uart.divisor = <<Byte(1), Byte(0)>>
Looped == "LOOP" \in uart.mcr
Dlab == "DLAB" \in uart.lcr

\* The port before write s of TestScript.
TestScriptInv(s) ==
    /\ s <= 10
    /\ uart.txq = <<>> /\ ~uart.fifo
    /\ s > 1 => (Dlab <=> s \in 4..6)
    /\ s > 2 => uart.ier = Byte(0)
    /\ s > 4 => uart.divisor[1] = Byte(1)
    /\ s > 5 => uart.divisor[2] = Byte(0)
    /\ s > 7 => uart.lcr = {"8BIT"}
    /\ s > 9 => Looped

\* The port while it is tested: what is written stays inside.
TestInv ==
    /\ RateSet /\ uart.lcr = {"8BIT"} /\ Looped /\ ~uart.fifo
    /\ Len(uart.txq) <= 1

\* The port before write s of FinalScript: the flush comes before the loop opens.
FinalScriptInv(s) ==
    /\ s <= 8
    /\ RateSet
    /\ Dlab <=> s \in 2..4
    /\ s > 5 => uart.lcr = {"8BIT"}
    /\ s <= 6 => ~uart.fifo /\ Len(uart.txq) <= 1
    /\ s > 6 => uart.fifo = device.fifo
    /\ s > 6 /\ device.fifo => uart.txq = <<>>
    /\ s <= 7 <=> Looped

\* The port when characters may go to it.
ReadyInv ==
    /\ RateSet /\ uart.lcr = {"8BIT"} /\ ~Looped
    /\ uart.fifo = device.fifo

PortInv ==
    /\ works => device.present /\ pc[Bsp] \notin Setup
    /\ pc[Bsp] \notin Setup => works \/ ~device.scratch
    /\ ~device.present => uart.txq = <<>>
    /\ device.present =>
         /\ pc[Bsp] = "test_script" => TestScriptInv(step[Bsp])
         /\ pc[Bsp] \in {"test_write", "test_read", "test_scratch"} => TestInv
         /\ pc[Bsp] = "final_script" => FinalScriptInv(step[Bsp])
         /\ pc[Bsp] = "configured" => ReadyInv /\ (device.fifo => uart.txq = <<>>)
         /\ works => ReadyInv
    /\ pc[Bsp] \in {"test_write", "test_read", "test_scratch", "configured"} => step[Bsp] = 1
    /\ pc[Bsp] = "test_script" => step[Bsp] <= 10
    /\ pc[Bsp] = "final_script" => step[Bsp] <= 8 /\ device.present
    /\ pc[Bsp] = "configured" => device.present

\* A core that saw the transmitter empty sends one byte before it looks again, so
\* the bytes in the FIFO and the cores about to send are no more than there are
\* cores, unless a wait was given up.
Senders == {c \in Core : pc[c] = "send"}
FifoInv ==
    device.fifo /\ ~gaveUp => Len(uart.txq) + Cardinality(Senders) <= ApCount + 1

\* The invariant: PortReady, OnlyLogged and NoOverrun follow from it.
IInv ==
    /\ ConsoleType
    /\ TurnsInv
    /\ TextInv
    /\ PortInv
    /\ FifoInv
    /\ OnlyLogged
    /\ NoOverrun
============================================================================
