------------------------------- MODULE Serial -------------------------------
(***************************************************************************)
(* serial.c and the port it writes to.  While the divisor latch access bit *)
(* is set, a byte for the data port goes to the latch, else to the holding *)
(* register, over whatever waits there.  The FIFO is not switched on.      *)
(***************************************************************************)
EXTENDS Integers, Sequences

CONSTANTS Welcome,   \* what kmain passes to serial_write
          DIVISOR    \* 1

ASSUME SerialAssumption == Welcome \in Seq(STRING) /\ DIVISOR \in 0 .. 255

VARIABLE ser   \* the port, and serial_write's place in it

SerialInit ==
    ser = [pc |-> "baud", i |-> 1, dlab |-> FALSE, latch |-> DIVISOR + 1,
           thr |-> << >>, wire |-> << >>, received |-> FALSE]

DataPort(b) == IF ser.dlab THEN [ser EXCEPT !.latch = b] ELSE [ser EXCEPT !.thr = <<b>>]

(* serial_configure_baud_rate: the bytes of the divisor, the high one first.*)
EnableDLAB  == ser.pc = "baud" /\ ser' = [ser EXCEPT !.dlab = TRUE, !.pc = "high"]
DivisorHigh == ser.pc = "high" /\ ser' = [DataPort(DIVISOR \div 256) EXCEPT !.pc = "low"]
DivisorLow  == ser.pc = "low" /\ ser' = [DataPort(DIVISOR % 256) EXCEPT !.pc = "line"]

(* serial_configure_line: 0x03 clears the latch access bit.                 *)
ConfigureLine == ser.pc = "line" /\ ser' = [ser EXCEPT !.dlab = FALSE, !.pc = "loop"]

(* Slip: what the && comes to, if the status were never 0. *)
serial_is_transmit_fifo_empty_always == TRUE

(* inb(LSR) && 0x20: any bit of the status will do.  Data received and the  *)
(* holding register being empty are two of them.                            *)
serial_is_transmit_fifo_empty == ser.received \/ ser.thr = << >>

SerialPut ==
    /\ ser.pc = "loop" /\ ser.i <= Len(Welcome)
    /\ serial_is_transmit_fifo_empty
    /\ ser' = [ser EXCEPT !.pc = "out"]

SerialOut ==
    /\ ser.pc = "out"
    /\ ser' = [DataPort(Welcome[ser.i]) EXCEPT !.i = @ + 1, !.pc = "loop"]

SerialReturn == ser.pc = "loop" /\ ser.i > Len(Welcome) /\ ser' = [ser EXCEPT !.pc = "done"]

(* The port sends what it holds; somebody sends the kernel a byte, which    *)
(* nobody reads.                                                            *)
Transmit == ser.thr # << >> /\ ser' = [ser EXCEPT !.wire = @ \o ser.thr, !.thr = << >>]
Receive  == ~ ser.received /\ ser' = [ser EXCEPT !.received = TRUE]

serial_write == \/ EnableDLAB \/ DivisorHigh \/ DivisorLow \/ ConfigureLine
                \/ SerialPut \/ SerialOut \/ SerialReturn

SerialQuiet == [ser EXCEPT !.thr = << >>, !.wire = Welcome, !.received = FALSE]

(* w is made of the first n bytes of the text, in their order, the last of  *)
(* them included.                                                           *)
InOrder(w, n) ==
    \E from \in [1 .. Len(w) -> 1 .. n] :
        /\ \A k \in 1 .. Len(w) : w[k] = Welcome[from[k]]
        /\ \A k \in 2 .. Len(w) : from[k - 1] < from[k]
        /\ n > 0 => Len(w) > 0 /\ from[Len(w)] = n

(* As long as nothing is received, the bytes of the text reach the wire one *)
(* after the other and none is overwritten in the port.  Once a byte was    *)
(* received, and the poll no longer waits, bytes are lost, but none is sent *)
(* twice or out of its order, and the one put last is never the one lost.   *)
(* None ends up in the divisor, of which the last byte written counts       *)
(* (serial_write).                                                          *)
SerialInOrder ==
    /\ ~ ser.received => ser.wire \o ser.thr = SubSeq(Welcome, 1, ser.i - 1)
    /\ InOrder(ser.wire \o ser.thr, ser.i - 1)
    /\ ser.pc \in {"line", "loop", "out"} => ser.latch = DIVISOR
=============================================================================
