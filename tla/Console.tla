------------------------------ MODULE Console ------------------------------
(***************************************************************************)
(* What the cores print and where it goes (x86_64): the boot processor     *)
(* tests and configures the serial port, and from then on every character  *)
(* goes to the debug port and to the serial port.  Nothing locks the port, *)
(* and after the release of the other cores all of them print at once.     *)
(*                                                                         *)
(* A step is one access to the port.  A character is known by its core; of *)
(* a text only its pieces are kept, one character for each.                *)
(***************************************************************************)
EXTENDS Integers, Sequences

CONSTANTS
    ApCount,                \* cores other than the boot processor
    MAX_CALLS,              \* bound: calls that print, of all cores together
    TEST_RETRIES,           \* SERIAL_TEST_RETRIES
    MAX_POLLS,              \* looks at the transmitter before one byte is sent
    FIFO_DEPTH              \* of the port, when it has a FIFO

Bsp == 0
Core == 0..ApCount

ASSUME ConsoleAssumption ==
    /\ ApCount \in Nat /\ MAX_CALLS \in Nat
    /\ TEST_RETRIES \in Nat \ {0} /\ MAX_POLLS \in Nat \ {0}
    /\ FIFO_DEPTH \in Nat /\ FIFO_DEPTH > ApCount

VARIABLES
    device,                 \* what the hardware at the port can do
    uart,                   \* its registers
    overrun,                \* a byte was written to a full transmitter
    works,                  \* g_arch_16550uart_works
    attempt, status,        \* local to serial_test and its caller
    released,               \* g_ap_init_lock
    pc, step,               \* of each core; step counts in the script of pc
    text,                   \* of each core: the pieces it still has to print
    fault,                  \* of each core: it has begun to report a fault
    calls,
    gaveUp                  \* some wait for the transmitter has timed out

port == <<device, uart, overrun>>
setup == <<works, attempt, status, released>>
vars == <<port, setup, pc, step, text, fault, calls, gaveUp>>

----------------------------------------------------------------------------
(* The hardware, as the code uses it.                                      *)

Byte(n) == [core |-> -1, value |-> n]
Char(c) == [core |-> c, value |-> 0]
MAGIC == Byte(105)          \* SERIAL_TEST_MAGIC
Unset == Byte(255)

\* Nothing there, a part that fails the self test in whole or in part, a 16450
\* and a 16550.
Part(l, s, f) == [present |-> TRUE, loopback |-> l, scratch |-> s, fifo |-> f]
Device ==
    {[present |-> FALSE, loopback |-> FALSE, scratch |-> FALSE, fifo |-> FALSE],
     Part(FALSE, FALSE, FALSE), Part(FALSE, TRUE, TRUE), Part(TRUE, TRUE, FALSE),
     Part(TRUE, TRUE, TRUE)}

Capacity == IF uart.fifo THEN FIFO_DEPTH ELSE 1
TxEmpty == device.present => uart.txq = <<>>        \* an absent port reads as ones

\* A write to the data port: a divisor byte, or a byte to send.
WriteData(b) ==
    IF "DLAB" \in uart.lcr THEN [uart EXCEPT !.divisor[1] = b]
    ELSE IF Len(uart.txq) < Capacity THEN [uart EXCEPT !.txq = Append(@, b)]
    ELSE uart

\* A write v to register r; DLAB is a read of the line register and a write.
WriteRegister(r, v) ==
    CASE r = "DATA" -> WriteData(v)
      [] r = "INTR_CONF" -> IF "DLAB" \in uart.lcr THEN [uart EXCEPT !.divisor[2] = v]
                            ELSE [uart EXCEPT !.ier = v]
      [] r = "FIFO_CONF" -> IF device.fifo
                            THEN [uart EXCEPT !.fifo = "ENABLE" \in v,
                                    !.txq = IF "TX_FLUSH" \in v THEN <<>> ELSE @,
                                    !.rx = IF "RX_FLUSH" \in v THEN Unset ELSE @]
                            ELSE uart
      [] r = "LINE_CONF" -> [uart EXCEPT !.lcr = v]
      [] r = "MODEM_CONF" -> [uart EXCEPT !.mcr = v]
      [] r = "DLAB" -> [uart EXCEPT !.lcr = IF v THEN @ \cup {"DLAB"} ELSE @ \ {"DLAB"}]
      [] r = "SCRATCH_REG" -> IF device.scratch THEN [uart EXCEPT !.scratch = v] ELSE uart

Out(r, v) == uart' = IF device.present THEN WriteRegister(r, v) ELSE uart

\* The port takes its time over the oldest byte, and may never send it.
Transmit ==
    /\ uart.txq # <<>>
    /\ uart' = [uart EXCEPT !.txq = Tail(@),
                  !.rx = IF "LOOP" \in uart.mcr /\ device.loopback THEN Head(uart.txq) ELSE @]
    /\ UNCHANGED <<device, overrun, setup, pc, step, text, fault, calls, gaveUp>>

----------------------------------------------------------------------------
(* The configuration, as a sequence of register writes.                    *)

W(r, v) == <<[register |-> r, value |-> v]>>

serial_set_dlab(setting) == W("DLAB", setting)
serial_set_divisor(d) ==
    serial_set_dlab(TRUE) \o W("DATA", Byte(d % 256)) \o W("INTR_CONF", Byte(d \div 256))
        \o serial_set_dlab(FALSE)
\* Mutant: the interrupt register is written as it was found, with DLAB perhaps set.
InterruptsUnderDlab(setting) == W("INTR_CONF", setting)
serial_set_interrupts(setting) == serial_set_dlab(FALSE) \o W("INTR_CONF", setting)
serial_set_lcr(lcr) == W("LINE_CONF", lcr)
serial_set_fifo(fifo) == W("FIFO_CONF", fifo)
serial_set_mcr(mcr) == W("MODEM_CONF", mcr)

\* Up to the loop of serial_test.
TestScript ==
    serial_set_interrupts(Byte(0))
        \o serial_set_divisor(1) \o serial_set_lcr({"8BIT"})
        \o serial_set_fifo({"TX_FLUSH", "RX_FLUSH"}) \o serial_set_mcr({"TX", "RX", "LOOP"})
        \o serial_set_dlab(FALSE)

\* Mutant: the bytes of the test are not flushed.
FinalScriptNoFlush ==
    serial_set_divisor(1) \o serial_set_lcr({"8BIT"}) \o serial_set_fifo({"ENABLE"})
        \o serial_set_mcr({"TX", "RX", "IRQ"}) \o serial_set_dlab(FALSE)
\* After a test that found the port.
FinalScript ==
    serial_set_divisor(1) \o serial_set_lcr({"8BIT"})
        \o serial_set_fifo({"ENABLE", "TX_FLUSH", "RX_FLUSH"})
        \o serial_set_mcr({"TX", "RX", "IRQ"}) \o serial_set_dlab(FALSE)

----------------------------------------------------------------------------
(* What there is to print.                                                 *)

\* The prefix is part of the text.
log_print == <<"text">>
log_print_raw == <<"text">>
panic == log_print \o log_print_raw \o log_print_raw \o <<"halt">>

\* The types that each handler of ubsan.c prints after the location.
UbsanTypes == [
    add_overflow |-> 1, sub_overflow |-> 1, mul_overflow |-> 1, divrem_overflow |-> 1,
    negate_overflow |-> 1, pointer_overflow |-> 1, shift_out_of_bounds |-> 2,
    load_invalid_value |-> 1, out_of_bounds |-> 2, type_mismatch_v1 |-> 1,
    vla_bound_not_positive |-> 1, function_type_mismatch |-> 1,
    nonnull_return |-> 0, nonnull_arg |-> 0, builtin_unreachable |-> 0, invalid_builtin |-> 0]

\* A type without a name is not printed.
print_type(named) == IF named THEN log_print ELSE <<>>
Report(left, right) == log_print \o print_type(left) \o print_type(right) \o panic
UbsanReports ==
    UNION {{Report(named[1], named[2]) :
               named \in {UbsanTypes[h] > 0, FALSE} \X {UbsanTypes[h] > 1, FALSE}} :
              h \in DOMAIN UbsanTypes}
\* The *_abort handlers panic after the handler, should it return; here for the
\* shortest report.
UbsanAbort == Report(FALSE, FALSE) \o panic

uacpi_kernel_log == log_print \o log_print_raw

Messages == {log_print, uacpi_kernel_log}
Faults == {panic} \cup UbsanReports \cup {UbsanAbort}

----------------------------------------------------------------------------
(* The boot processor sets up the port.                                    *)

Init ==
    /\ device \in Device
    /\ uart \in [lcr : {{}, {"DLAB", "8BIT"}}, mcr : {{}, {"LOOP"}}, fifo : {FALSE},
                 ier : {Unset}, divisor : {<<Unset, Unset>>}, scratch : {Unset},
                 rx : {Unset}, txq : {<<>>}]
    /\ overrun = FALSE /\ works = FALSE /\ attempt = 0 /\ status = 0 /\ released = FALSE
    /\ pc = [c \in Core |-> IF c = Bsp THEN "test_script" ELSE "idle"]
    /\ step = [c \in Core |-> 1]
    /\ text = [c \in Core |-> <<>>]
    /\ fault = [c \in Core |-> FALSE]
    /\ calls = 0
    /\ gaveUp = FALSE

Goto(c, from, to) == pc[c] = from /\ pc' = [pc EXCEPT ![c] = to]

\* One write of script s, then on to the step named to.
Configure(s, from, to) ==
    /\ Goto(Bsp, from, IF step[Bsp] = Len(s) THEN to ELSE from)
    /\ step' = [step EXCEPT ![Bsp] = IF @ = Len(s) THEN 1 ELSE @ + 1]
    /\ Out(s[step[Bsp]].register, s[step[Bsp]].value)
    /\ UNCHANGED <<device, overrun, attempt, status, released, text, fault, calls, gaveUp>>

TestSetup == Configure(TestScript, "test_script", "test_write") /\ UNCHANGED works

TestWrite ==
    /\ Goto(Bsp, "test_write", "test_read")
    /\ Out("DATA", MAGIC)
    /\ UNCHANGED <<device, overrun, setup, step, text, fault, calls, gaveUp>>

TestRead ==
    /\ Goto(Bsp, "test_read",
            IF device.present /\ uart.rx = MAGIC THEN "final_script"
            ELSE IF attempt + 1 < TEST_RETRIES THEN "test_write" ELSE "test_scratch")
    /\ attempt' = attempt + 1
    /\ status' = IF device.present /\ uart.rx = MAGIC THEN 2 ELSE status
    /\ UNCHANGED <<port, works, released, step, text, fault, calls, gaveUp>>

\* The scratch register is written and read back: nothing else is at the port.
TestScratch ==
    /\ Goto(Bsp, "test_scratch", IF device.scratch THEN "final_script" ELSE "putc")
    /\ Out("SCRATCH_REG", MAGIC)
    /\ text' = [text EXCEPT ![Bsp] = IF device.scratch THEN @ ELSE log_print]
    /\ status' = IF device.scratch THEN 1 ELSE 0
    /\ UNCHANGED <<device, overrun, works, attempt, released, step, fault, calls, gaveUp>>

FinalSetup ==
    /\ Configure(FinalScript, "final_script", "configured")
    /\ UNCHANGED works

\* "Serial init" is followed by a byte that goes to the serial port only.
SetupDone ==
    /\ Goto(Bsp, "configured", "putc")
    /\ works' = TRUE
    /\ text' = [text EXCEPT ![Bsp] = IF status = 1 THEN log_print
                                     ELSE log_print \o <<"sink">>]
    /\ attempt' = 0 /\ status' = 0                  \* out of scope
    /\ UNCHANGED <<port, released, step, fault, calls, gaveUp>>

arch_16550uart_early_setup ==
    TestSetup \/ TestWrite \/ TestRead \/ TestScratch \/ FinalSetup \/ SetupDone

----------------------------------------------------------------------------
(* Printing.                                                               *)

\* The boot processor prints before it releases the others, they after.
Call(c) ==
    /\ calls < MAX_CALLS
    /\ released <=> c # Bsp
    /\ Goto(c, "idle", "putc")
    /\ \E t \in Messages \cup Faults :
          /\ text' = [text EXCEPT ![c] = t]
          /\ fault' = [fault EXCEPT ![c] = t \in Faults]
    /\ calls' = calls + 1
    /\ UNCHANGED <<port, setup, step, gaveUp>>

Release ==
    /\ pc[Bsp] = "idle" /\ ~released
    /\ released' = TRUE
    /\ UNCHANGED <<port, works, attempt, status, pc, step, text, fault, calls, gaveUp>>

AfterChar(c) ==
    /\ pc' = [pc EXCEPT ![c] = IF Tail(text[c]) = <<>> THEN "idle" ELSE "putc"]
    /\ text' = [text EXCEPT ![c] = Tail(@)]

\* arch_debug_putc up to the serial port.
Putc(c) ==
    /\ pc[c] = "putc" /\ Head(text[c]) # "halt"
    /\ IF works \/ Head(text[c]) = "sink"
       THEN pc' = [pc EXCEPT ![c] = "poll"] /\ UNCHANGED text
       ELSE AfterChar(c)
    /\ UNCHANGED <<port, setup, step, fault, calls, gaveUp>>

\* Mutant: the transmitter is not looked at.
AlwaysEmpty == TRUE
transmit_empty == TxEmpty
\* Mutant: the wait has no end.
WaitForever(c) == FALSE
LastPoll(c) == step[c] = MAX_POLLS

Poll(c) ==
    /\ Goto(c, "poll", IF transmit_empty \/ LastPoll(c) THEN "send" ELSE "poll")
    /\ step' = [step EXCEPT ![c] = IF transmit_empty \/ LastPoll(c) THEN 1
                                   ELSE IF @ < MAX_POLLS THEN @ + 1 ELSE @]
    /\ gaveUp' = (gaveUp \/ (~transmit_empty /\ LastPoll(c)))
    /\ UNCHANGED <<port, setup, text, fault, calls>>

Send(c) ==
    /\ pc[c] = "send"
    /\ Out("DATA", Char(c))
    /\ overrun' = (overrun \/ Len(uart.txq) >= Capacity)
    /\ AfterChar(c)
    /\ UNCHANGED <<device, setup, step, fault, calls, gaveUp>>

\* while(1) at the end of panic.
Halt(c) ==
    /\ pc[c] = "putc" /\ Head(text[c]) = "halt"
    /\ pc' = [pc EXCEPT ![c] = "halted"]
    /\ UNCHANGED <<port, setup, step, text, fault, calls, gaveUp>>

Emit(c) == Putc(c) \/ Poll(c) \/ Send(c) \/ Halt(c)

Next ==
    \/ arch_16550uart_early_setup
    \/ Release
    \/ \E c \in Core : Call(c) \/ Emit(c)
    \/ Transmit

\* The cores keep running; the port owes nothing.
Fairness == WF_vars(arch_16550uart_early_setup) /\ \A c \in Core : WF_vars(Emit(c))
Spec == Init /\ [][Next]_vars
FairSpec == Spec /\ Fairness

----------------------------------------------------------------------------
(* Properties.                                                             *)

\* When characters may go to the port it is set up to send them: data and
\* interrupt registers selected, rate set, no loopback, no interrupts, FIFO on
\* where there is one (16550uart.c:189-203).
PortReady ==
    works =>
        /\ uart.lcr = {"8BIT"} /\ "LOOP" \notin uart.mcr
        /\ uart.ier = Byte(0) /\ uart.divisor = <<Byte(1), Byte(0)>>
        /\ uart.fifo = device.fifo

\* Nothing but what a core printed leaves a port that has a loopback and a FIFO:
\* the bytes of the self test stay inside, however late the port handles them,
\* and no configuration byte is taken for data (16550uart.c:132-149, 198-203).
OnlyLogged ==
    device.loopback /\ device.fifo /\ "LOOP" \notin uart.mcr =>
        \A k \in 1..Len(uart.txq) : uart.txq[k].core \in Core

\* No byte is lost in a port with a FIFO unless a wait for it timed out, though
\* the cores look and write without a lock (16550uart.c:165-173).
NoOverrun == overrun => gaveUp \/ ~device.fifo

\* The set-up ends and every call that prints ends, even if the port stops sending
\* for good: a message in a return, a panic or a report of undefined behaviour in
\* panic's loop, never in a return (16550uart.c:166-169, ubsan.c:95-99, panic.c:4-12).
CallsEnd ==
    \A c \in Core : pc[c] \notin {"idle", "halted"} ~>
                      pc[c] = (IF fault[c] THEN "halted" ELSE "idle")
============================================================================
