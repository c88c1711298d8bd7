---------------------------- MODULE ConsoleProofs ---------------------------
(***************************************************************************)
(* Proofs about the console, for every size of the screen and of its       *)
(* registers, every text and every order of keys, ticks and calls: the     *)
(* serial port sends the greeting in order, the flags of keyboard.c follow *)
(* the keyboard, the cursor follows the text, nothing outside the frame    *)
(* buffer is written to, and the clock disturbs no fb_write it interrupts. *)
(***************************************************************************)
EXTENDS Console, NumeralsProofs, SequenceTheorems

-----------------------------------------------------------------------------
(* The serial port *)

Configuring == {"baud", "high", "low", "line"}

(* The fields of ser. *)
SerType ==
    ser \in [pc : Configuring \cup {"loop", "out", "done"}, i : 1 .. Len(Welcome) + 1,
             dlab : BOOLEAN, latch : Int, thr : Seq(STRING), wire : Seq(STRING),
             received : BOOLEAN]

(* The latch is open exactly while the divisor is written, and serial_write *)
(* is about to put a byte only where none waits.                            *)
SerPhase ==
    /\ ser.pc \in Configuring => ser.i = 1 /\ ser.thr = << >> /\ ser.wire = << >>
    /\ ser.pc \in {"high", "low", "line"} => ser.dlab
    /\ ser.pc \in {"loop", "out", "done"} => ~ ser.dlab
    /\ ser.pc = "out" => ser.i <= Len(Welcome)
    /\ ser.pc = "done" => ser.i = Len(Welcome) + 1
    /\ ser.pc = "out" /\ ~ ser.received => ser.thr = << >>

SInv == SerType /\ SerPhase /\ SerialInOrder

LEMMA Divisor ==
    /\ DIVISOR \in Int /\ DIVISOR \div 256 \in Int /\ DIVISOR % 256 = DIVISOR
    /\ Welcome \in Seq(STRING) /\ Len(Welcome) \in Nat
BY SerialAssumption

(* Nothing was put and nothing is on the line.                              *)
LEMMA NothingInOrder == InOrder(<< >>, 0)
<1> DEFINE e == << >>
           f == [k \in 1 .. 0 |-> 1]
<1>1. Len(e) = 0 /\ 1 .. 0 = {} /\ 2 .. 0 = {} /\ ~ (0 > 0)
    OBVIOUS
<1>2. f \in [1 .. 0 -> 1 .. 0]
    BY <1>1
<1> HIDE DEF e, f
<1>3. InOrder(e, 0)
    BY <1>1, <1>2 DEF InOrder
<1> QED BY <1>3 DEF e

(* A byte put behind those that left the port, over the one that waits or   *)
(* not, keeps the order.                                                    *)
LEMMA PutInOrder ==
    ASSUME NEW wire \in Seq(STRING), NEW thr \in Seq(STRING), NEW n \in 1 .. Len(Welcome),
           InOrder(wire \o thr, n - 1)
    PROVE  InOrder(wire \o <<Welcome[n]>>, n)
<1> DEFINE b == <<Welcome[n]>>
           l == Len(wire)
<1>1. /\ l \in Nat /\ b \in Seq(STRING) /\ Len(b) = 1 /\ b[1] = Welcome[n]
      /\ Len(thr) \in Nat /\ n \in Nat /\ n > 0
    <2>1. Welcome[n] \in STRING
        BY Divisor, ElementOfSeq
    <2> QED BY <2>1, LenProperties, Divisor
<1> HIDE DEF b
<1>2. /\ Len(wire \o thr) = l + Len(thr)
      /\ \A k \in 1 .. l : (wire \o thr)[k] = wire[k]
    BY <1>1, ConcatProperties
<1>3. /\ Len(wire \o b) = l + 1
      /\ \A k \in 1 .. l + 1 : (wire \o b)[k] = IF k <= l THEN wire[k] ELSE Welcome[n]
    <2>1. /\ Len(wire \o b) = l + Len(b)
          /\ \A k \in 1 .. l + Len(b) : (wire \o b)[k] = IF k <= l THEN wire[k] ELSE b[k - l]
        BY <1>1, ConcatProperties
    <2> QED BY <1>1, <2>1
<1>4. PICK from \in [1 .. l + Len(thr) -> 1 .. n - 1] :
             /\ \A k \in 1 .. l + Len(thr) : (wire \o thr)[k] = Welcome[from[k]]
             /\ \A k \in 2 .. l + Len(thr) : from[k - 1] < from[k]
    BY <1>2 DEF InOrder
<1> HIDE DEF l
<1>5. /\ \A k \in 1 .. l : wire[k] = Welcome[from[k]] /\ from[k] \in 1 .. n - 1
      /\ \A k \in 2 .. l : from[k - 1] < from[k]
    <2>1. 1 .. l \subseteq 1 .. l + Len(thr) /\ 2 .. l \subseteq 2 .. l + Len(thr)
        BY <1>1
    <2>2. \A k \in 1 .. l : (wire \o thr)[k] = wire[k]
        BY <1>2
    <2> QED BY <1>4, <2>1, <2>2
<1> DEFINE next == [k \in 1 .. l + 1 |-> IF k <= l THEN from[k] ELSE n]
<1>6. next \in [1 .. l + 1 -> 1 .. n]
    BY <1>1, <1>5
<1>7. \A k \in 1 .. l + 1 : (wire \o b)[k] = Welcome[next[k]]
    BY <1>1, <1>3, <1>5
<1>8. \A k \in 2 .. l + 1 : next[k - 1] < next[k]
    <2> TAKE k \in 2 .. l + 1
    <2>1. CASE k <= l
        BY <1>1, <1>5, <2>1
    <2>2. CASE k = l + 1
        BY <1>1, <1>5, <2>2
    <2> QED BY <1>1, <2>1, <2>2
<1>9. next[l + 1] = n /\ l + 1 > 0
    BY <1>1
<1> HIDE DEF next
<1> QED BY <1>3, <1>6, <1>7, <1>8, <1>9 DEF InOrder, b

(* The whole text is in order.                                              *)
LEMMA AllInOrder == InOrder(Welcome, Len(Welcome))
<1> DEFINE id == [k \in 1 .. Len(Welcome) |-> k]
<1>1. id \in [1 .. Len(Welcome) -> 1 .. Len(Welcome)]
    OBVIOUS
<1>2. \A k \in 2 .. Len(Welcome) : id[k - 1] < id[k]
    BY Divisor
<1>3. /\ \A k \in 1 .. Len(Welcome) : Welcome[k] = Welcome[id[k]]
      /\ Len(Welcome) > 0 => id[Len(Welcome)] = Len(Welcome)
    BY Divisor
<1> QED BY <1>1, <1>2, <1>3 DEF InOrder

LEMMA InitSerial == SerialInit => SInv
<1> SUFFICES ASSUME SerialInit PROVE SInv
    OBVIOUS
<1>1. SerType
    BY Divisor DEF SerialInit, SerType, Configuring
<1>2. SerPhase
    BY DEF SerialInit, SerPhase, Configuring
<1>3. SerialInOrder
    <2>1. SubSeq(Welcome, 1, 0) = << >>
        BY SubSeqEmpty
    <2>2. ser.wire \o ser.thr = << >> /\ ser.i - 1 = 0 /\ ser.pc = "baud"
        BY DEF SerialInit
    <2> QED BY <2>1, <2>2, NothingInOrder DEF SerialInOrder
<1> QED BY <1>1, <1>2, <1>3 DEF SInv

(* The divisor is written with the latch open, so the text is untouched.    *)
LEMMA BaudStep ==
    ASSUME SInv, EnableDLAB \/ DivisorHigh \/ DivisorLow \/ ConfigureLine
    PROVE  SInv'
<1> DEFINE Done == /\ SerType' /\ ser'.pc \in {"high", "low", "line", "loop"} /\ ser'.i = ser.i
                   /\ ser'.thr = ser.thr /\ ser'.wire = ser.wire
                   /\ ser'.dlab <=> ser'.pc # "loop"
                   /\ ser'.pc \in {"line", "loop"} => ser'.latch = DIVISOR
<1>1. Done
    <2>0. SerType
        BY DEF SInv
    <2>1. CASE EnableDLAB
        BY <2>0, <2>1 DEF EnableDLAB, SerType, Configuring
    <2>2. CASE DivisorHigh
        <3>1. ser.dlab
            BY <2>2 DEF SInv, SerPhase, DivisorHigh
        <3>2. ser' = [ser EXCEPT !.latch = DIVISOR \div 256, !.pc = "low"]
            BY <2>2, <3>1 DEF DivisorHigh, DataPort
        <3> QED BY <2>0, <3>1, <3>2, Divisor DEF SerType, Configuring
    <2>3. CASE DivisorLow
        <3>1. ser.dlab
            BY <2>3 DEF SInv, SerPhase, DivisorLow
        <3>2. ser' = [ser EXCEPT !.latch = DIVISOR, !.pc = "line"]
            BY <2>3, <3>1, Divisor DEF DivisorLow, DataPort
        <3> QED BY <2>0, <3>1, <3>2, Divisor DEF SerType, Configuring
    <2>4. CASE ConfigureLine
        <3>1. ser.latch = DIVISOR
            BY <2>4 DEF SInv, SerialInOrder, ConfigureLine
        <3> QED BY <2>0, <2>4, <3>1 DEF ConfigureLine, SerType, Configuring
    <2> QED BY <2>1, <2>2, <2>3, <2>4
<1>2. ser.i = 1 /\ ser.thr = << >> /\ ser.wire = << >>
    BY DEF EnableDLAB, DivisorHigh, DivisorLow, ConfigureLine, SInv, SerPhase, Configuring
<1>3. ser'.i = 1 /\ ser'.thr = << >> /\ ser'.wire = << >>
    BY <1>1, <1>2
<1>5. SerPhase'
    BY <1>1, <1>3 DEF SerPhase, Configuring
<1>6. SerialInOrder'
    <2>1. SubSeq(Welcome, 1, 0) = << >>
        BY SubSeqEmpty
    <2>2. ser'.wire \o ser'.thr = << >> /\ ser'.i - 1 = 0
        BY <1>3
    <2> QED BY <1>1, <2>1, <2>2, NothingInOrder DEF SerialInOrder
<1> QED BY <1>1, <1>5, <1>6 DEF SInv

(* A byte goes out behind the ones before it.                               *)
LEMMA OutStep ==
    ASSUME SInv, SerialOut
    PROVE  SInv'
<1> DEFINE b == Welcome[ser.i]
<1>1. SerType /\ ser.pc = "out" /\ ~ ser.dlab /\ ser.i \in 1 .. Len(Welcome)
    <2>1. ser.i \in 1 .. Len(Welcome) + 1
        BY DEF SInv, SerType
    <2>2. ser.pc = "out" /\ ~ ser.dlab /\ ser.i <= Len(Welcome)
        BY DEF SerialOut, SInv, SerPhase
    <2> QED BY <2>1, <2>2, Divisor DEF SInv
<1>2. b \in STRING
    BY <1>1, Divisor, ElementOfSeq
<1>3. ser' = [ser EXCEPT !.thr = <<b>>, !.i = ser.i + 1, !.pc = "loop"]
    BY <1>1 DEF SerialOut, DataPort
<1>4. <<b>> \in Seq(STRING) /\ ser.i + 1 \in 1 .. Len(Welcome) + 1
    BY <1>1, <1>2, Divisor
<1> HIDE DEF b
<1>5. SerType'
    BY <1>1, <1>3, <1>4 DEF SerType, Configuring
<1>6. /\ ser'.pc = "loop" /\ ser'.i = ser.i + 1 /\ ser'.thr = <<b>> /\ ser'.wire = ser.wire
      /\ ser'.dlab = ser.dlab /\ ser'.received = ser.received /\ ser'.latch = ser.latch
    BY <1>1, <1>3 DEF SerType
<1>7. SerPhase'
    BY <1>1, <1>6 DEF SerPhase, Configuring
<1>8. ser'.latch = DIVISOR
    BY <1>1, <1>6 DEF SInv, SerialInOrder
<1>9. ASSUME ~ ser'.received PROVE ser'.wire \o ser'.thr = SubSeq(Welcome, 1, ser'.i - 1)
    <2>1. ser.thr = << >> /\ ser.wire \o ser.thr = SubSeq(Welcome, 1, ser.i - 1)
        BY <1>1, <1>6, <1>9 DEF SInv, SerPhase, SerialInOrder
    <2>2. ser.wire = SubSeq(Welcome, 1, ser.i - 1)
        <3>1. ser.wire \in Seq(STRING)
            BY <1>1 DEF SerType
        <3> QED BY <2>1, <3>1, ConcatEmptySeq
    <2>3. SubSeq(Welcome, 1, ser.i) = SubSeq(Welcome, 1, ser.i - 1) \o <<Welcome[ser.i]>>
        <3> DEFINE k == ser.i
        <3>1. 1 \in 1 .. Len(Welcome) /\ k \in 1 .. Len(Welcome)
            BY <1>1, Divisor
        <3> HIDE DEF k
        <3>2. SubSeq(Welcome, 1, k) = SubSeq(Welcome, 1, k - 1) \o <<Welcome[k]>>
            BY <3>1, Divisor, SubSeqRecursiveSecond
        <3> QED BY <3>2 DEF k
    <2>4. (ser.i + 1) - 1 = ser.i
        BY <1>1
    <2> QED BY <1>6, <2>2, <2>3, <2>4 DEF b
<1>10. InOrder(ser'.wire \o ser'.thr, ser'.i - 1)
    <2> DEFINE w == ser.wire
               t == ser.thr
               n == ser.i
    <2>1. w \in Seq(STRING) /\ t \in Seq(STRING) /\ n \in 1 .. Len(Welcome)
        BY <1>1 DEF SerType
    <2>2. InOrder(w \o t, n - 1)
        BY DEF SInv, SerialInOrder
    <2>3. (ser.i + 1) - 1 = ser.i
        BY <1>1
    <2> HIDE DEF w, t, n
    <2>4. InOrder(w \o <<Welcome[n]>>, n)
        BY <2>1, <2>2, PutInOrder
    <2> QED BY <1>6, <2>3, <2>4 DEF w, n, b
<1> QED BY <1>5, <1>7, <1>8, <1>9, <1>10 DEF SInv, SerialInOrder

LEMMA TransmitStep ==
    ASSUME SInv, Transmit
    PROVE  SInv'
<1>1. SerType
    BY DEF SInv
<1>2. ser.thr \in Seq(STRING) /\ ser.wire \in Seq(STRING)
    BY <1>1 DEF SerType
<1>3. ser.wire \o ser.thr \in Seq(STRING)
    BY <1>2, ConcatProperties
<1>4. ser' = [ser EXCEPT !.wire = ser.wire \o ser.thr, !.thr = << >>]
    BY DEF Transmit
<1>5. SerType'
    <2> DEFINE x == ser.wire \o ser.thr
    <2>1. x \in Seq(STRING) /\ << >> \in Seq(STRING) /\ ser' = [ser EXCEPT !.wire = x, !.thr = << >>]
        BY <1>3, <1>4, EmptySeq
    <2> HIDE DEF x
    <2> QED BY <1>1, <2>1 DEF SerType
<1>6. /\ ser'.wire = ser.wire \o ser.thr /\ ser'.thr = << >> /\ ser'.pc = ser.pc /\ ser'.i = ser.i
      /\ ser'.dlab = ser.dlab /\ ser'.received = ser.received /\ ser'.latch = ser.latch
    BY <1>1, <1>4 DEF SerType
<1>7. ser.pc \notin Configuring
    BY DEF Transmit, SInv, SerPhase
<1>8. SerPhase'
    BY <1>6, <1>7 DEF SInv, SerPhase, Configuring
<1>9. ser'.wire \o ser'.thr = ser.wire \o ser.thr
    BY <1>3, <1>6, ConcatEmptySeq
<1>10. SerialInOrder'
    BY <1>6, <1>9 DEF SInv, SerialInOrder
<1> QED BY <1>5, <1>8, <1>10 DEF SInv

(* The steps that put nothing on the line.                                  *)
LEMMA QuietStep ==
    ASSUME SInv, SerialPut \/ SerialReturn \/ Receive
    PROVE  SInv'
<1>1. SerType /\ SerPhase
    BY DEF SInv
<1>2. CASE SerialPut
    <2>1. /\ SerType' /\ ser'.pc = "out" /\ ser'.i = ser.i /\ ser'.thr = ser.thr /\ ser'.wire = ser.wire
          /\ ser'.dlab = ser.dlab /\ ser'.received = ser.received /\ ser'.latch = ser.latch
        BY <1>1, <1>2 DEF SerialPut, SerType, Configuring
    <2>2. ser.pc = "loop" /\ ser.i <= Len(Welcome) /\ (ser.received \/ ser.thr = << >>)
        BY <1>2 DEF SerialPut, serial_is_transmit_fifo_empty
    <2>3. SerPhase'
        BY <1>1, <2>1, <2>2 DEF SerPhase, Configuring
    <2>4. SerialInOrder'
        BY <2>1, <2>2 DEF SInv, SerialInOrder
    <2> QED BY <2>1, <2>3, <2>4 DEF SInv
<1>3. CASE SerialReturn
    <2>1. /\ SerType' /\ ser'.pc = "done" /\ ser'.i = ser.i /\ ser'.thr = ser.thr /\ ser'.wire = ser.wire
          /\ ser'.dlab = ser.dlab /\ ser'.received = ser.received /\ ser'.latch = ser.latch
        BY <1>1, <1>3 DEF SerialReturn, SerType, Configuring
    <2>2. ser.pc = "loop" /\ ser.i = Len(Welcome) + 1
        <3>1. ser.pc = "loop" /\ ser.i > Len(Welcome) /\ ser.i \in 1 .. Len(Welcome) + 1
            BY <1>1, <1>3 DEF SerialReturn, SerType
        <3> QED BY <3>1, Divisor
    <2>3. SerPhase'
        BY <1>1, <2>1, <2>2 DEF SerPhase, Configuring
    <2>4. SerialInOrder'
        BY <2>1, <2>2 DEF SInv, SerialInOrder
    <2> QED BY <2>1, <2>3, <2>4 DEF SInv
<1>4. CASE Receive
    <2>1. /\ SerType' /\ ser'.pc = ser.pc /\ ser'.i = ser.i /\ ser'.thr = ser.thr /\ ser'.wire = ser.wire
          /\ ser'.dlab = ser.dlab /\ ser'.received /\ ser'.latch = ser.latch
        BY <1>1, <1>4 DEF Receive, SerType
    <2>2. SerPhase'
        BY <1>1, <2>1 DEF SerPhase
    <2>3. SerialInOrder'
        BY <2>1 DEF SInv, SerialInOrder
    <2> QED BY <2>1, <2>2, <2>3 DEF SInv
<1> QED BY <1>2, <1>3, <1>4

(* What stands for the port after pic_init is one of the states it may be in.*)
LEMMA PicInitStep ==
    ASSUME SInv, ser.pc = "done", ser' = SerialQuiet
    PROVE  SInv'
<1>1. SerType /\ SerPhase
    BY DEF SInv
<1>2. ser' = [ser EXCEPT !.thr = << >>, !.wire = Welcome, !.received = FALSE]
    BY DEF SerialQuiet
<1>3. /\ SerType' /\ ser'.pc = "done" /\ ser'.i = ser.i /\ ser'.thr = << >> /\ ser'.wire = Welcome
      /\ ser'.dlab = ser.dlab
    <2>1. Welcome \in Seq(STRING) /\ << >> \in Seq(STRING)
        BY Divisor, EmptySeq
    <2> QED BY <1>1, <1>2, <2>1 DEF SerType
<1>4. ser.i = Len(Welcome) + 1 /\ ser.i - 1 = Len(Welcome)
    BY <1>1, Divisor DEF SerPhase
<1>5. SerPhase'
    BY <1>1, <1>3, <1>4 DEF SerPhase, Configuring
<1>6. /\ ser'.wire \o ser'.thr = SubSeq(Welcome, 1, ser'.i - 1)
      /\ InOrder(ser'.wire \o ser'.thr, ser'.i - 1)
    <2>1. Welcome \o << >> = Welcome
        BY Divisor, ConcatEmptySeq
    <2>2. SubSeq(Welcome, 1, Len(Welcome)) = Welcome
        BY Divisor, SubSeqFull
    <2> QED BY <1>3, <1>4, <2>1, <2>2, AllInOrder
<1> QED BY <1>3, <1>5, <1>6 DEF SInv, SerialInOrder

(* Nothing but serial_write and the port itself touches the port.           *)
LEMMA NextSerial == SInv /\ [Next]_vars => SInv'
<1> SUFFICES ASSUME SInv, [Next]_vars PROVE SInv'
    OBVIOUS
<1>1. CASE UNCHANGED ser
    BY <1>1 DEF SInv, SerType, SerPhase, SerialInOrder
<1>2. CASE PicInit
    BY <1>2, PicInitStep DEF PicInit
<1>3. CASE SerialWrite
    <2>1. serial_write
        BY <1>3 DEF SerialWrite, Greeting
    <2> QED BY <2>1, BaudStep, OutStep, QuietStep DEF serial_write
<1>4. CASE SerialPort
    <2>1. Transmit \/ Receive
        BY <1>4 DEF SerialPort, Greeting
    <2> QED BY <2>1, TransmitStep, QuietStep
<1> QED
    BY <1>1, <1>2, <1>3, <1>4
       DEF Next, Main, LoopNewLine, LoopCell, WriteCell, LoopEnd, Load, Store, StoreLine, Test,
           Reset, Arg, SelectHigh, DataHigh, SelectLow, DataLow, Return, Sti, Cli, Interrupts, Call,
           KeyEvent, TimerPulse, TimerInterrupt, KeyboardInterrupt, interrupt_handler,
           timer_callback, echo_keyboard, Step, cpu, vars

(* Unless a byte is received, the greeting reaches the wire in order and in *)
(* full, whatever it is and however the port is timed: serial_write's poll, *)
(* which asks for any status bit, then waits for the right one.  If one is  *)
(* received, what arrives is still in order and the last byte put is there. *)
THEOREM GreetingInOrder == Spec => []SerialInOrder
<1>1. Init => SInv
    BY InitSerial DEF Init
<1>2. SInv => SerialInOrder
    BY DEF SInv
<1> QED BY <1>1, <1>2, NextSerial, PTL DEF Spec

-----------------------------------------------------------------------------
(* The keyboard *)

KeyTypes == /\ port \in Seq(Codes) /\ flags \in Flags
            /\ down \subseteq Keys /\ capsOn \in BOOLEAN

KInv == KeyTypes /\ KeyboardTracks

(* What the last code says, without naming the set of a key's codes.        *)
LEMMA ShiftMeans ==
    ASSUME NEW key, NEW flag
    PROVE  ShiftTracks(key, flag) <=>
             /\ (\A n \in DOMAIN port : port[n].key # key) => (flag <=> key \in down)
             /\ \A n \in DOMAIN port :
                   port[n].key = key /\ (\A m \in DOMAIN port : port[m].key = key => m <= n)
                       => (port[n].up <=> key \notin down)
BY DEF ShiftTracks

LEMMA InitKeyboard == Init => KInv
<1> SUFFICES ASSUME Init PROVE KInv
    OBVIOUS
<1>1. /\ port = << >> /\ down = {} /\ capsOn = FALSE
      /\ flags = [CapLocks |-> FALSE, ShiftL |-> FALSE, ShiftR |-> FALSE]
    BY DEF Init
<1>2. KeyTypes
    BY <1>1, EmptySeq DEF KeyTypes, Flags
<1>3. ShiftTracks("shiftL", flags.ShiftL) /\ ShiftTracks("shiftR", flags.ShiftR)
    BY <1>1 DEF ShiftTracks
<1>4. CapsTracks
    <2> DEFINE c == [n \in 0 .. 0 |-> FALSE]
    <2>1. Len(port) = 0 /\ 1 .. 0 = {} /\ c \in [0 .. 0 -> BOOLEAN] /\ c[0] = FALSE
        BY <1>1
    <2> HIDE DEF c
    <2> QED BY <1>1, <2>1 DEF CapsTracks
<1> QED BY <1>2, <1>3, <1>4 DEF KInv, KeyboardTracks

(* A key goes down or up: its code is the last that waits.                  *)
LEMMA KeyEventStep ==
    ASSUME KInv, NEW k \in Keys, KeyEvent(k)
    PROVE  KInv'
<1> DEFINE up == k \in down
           code == [key |-> k, up |-> up]
           L == Len(port)
<1>1. /\ down' = IF up THEN down \ {k} ELSE down \cup {k}
      /\ capsOn' = IF k = "caps" /\ up THEN ~ capsOn ELSE capsOn
      /\ port' = Append(port, code) /\ flags' = flags
    BY DEF KeyEvent
<1>2. port \in Seq(Codes) /\ flags \in Flags /\ down \subseteq Keys /\ capsOn \in BOOLEAN
    BY DEF KInv, KeyTypes
<1>3. up \in BOOLEAN /\ code \in Codes /\ code.key = k /\ code.up = up
    BY DEF Codes
<1>4. /\ port' \in Seq(Codes) /\ Len(port') = L + 1 /\ port'[L + 1] = code /\ L \in Nat
      /\ \A n \in 1 .. L : port'[n] = port[n]
    <2> HIDE DEF code
    <2> QED BY <1>1, <1>2, <1>3, AppendProperties
<1>5. DOMAIN port = 1 .. L /\ DOMAIN port' = 1 .. L + 1
    BY <1>2, <1>4
<1>6. KeyTypes'
    BY <1>1, <1>2, <1>4 DEF KeyTypes
<1> HIDE DEF code, L
<1>7. ASSUME NEW key, NEW flag, ShiftTracks(key, flag)
      PROVE  /\ (\A n \in DOMAIN port' : port'[n].key # key) => (flag <=> key \in down')
             /\ \A n \in DOMAIN port' :
                   port'[n].key = key /\ (\A m \in DOMAIN port' : port'[m].key = key => m <= n)
                       => (port'[n].up <=> key \notin down')
    <2>1. /\ (\A n \in 1 .. L : port[n].key # key) => (flag <=> key \in down)
          /\ \A n \in 1 .. L :
                port[n].key = key /\ (\A m \in 1 .. L : port[m].key = key => m <= n)
                    => (port[n].up <=> key \notin down)
        BY <1>5, <1>7, ShiftMeans
    <2>2. CASE key = k
        <3>1. port'[L + 1].key = key /\ (port'[L + 1].up <=> key \notin down')
            BY <1>1, <1>3, <1>4, <2>2
        <3>2. \A n \in 1 .. L + 1 :
                 (\A m \in 1 .. L + 1 : port'[m].key = key => m <= n) => n = L + 1
            BY <1>4, <3>1
        <3>3. L + 1 \in 1 .. L + 1
            BY <1>4
        <3> QED BY <1>5, <3>1, <3>2, <3>3
    <2>3. CASE key # k
        <3>1. port'[L + 1].key # key /\ (key \in down' <=> key \in down)
            BY <1>1, <1>3, <1>4, <2>3
        <3>2. \A n \in 1 .. L + 1 : port'[n].key = key => n \in 1 .. L
            BY <1>4, <3>1
        <3>3. \A n \in 1 .. L : n \in 1 .. L + 1 /\ port'[n] = port[n]
            BY <1>4
        <3>4. (\A n \in 1 .. L + 1 : port'[n].key # key) => (flag <=> key \in down')
            BY <2>1, <3>1, <3>3
        <3>5. ASSUME NEW n \in 1 .. L + 1, port'[n].key = key,
                     \A m \in 1 .. L + 1 : port'[m].key = key => m <= n
              PROVE  port'[n].up <=> key \notin down'
            <4>1. n \in 1 .. L /\ port[n].key = key
                BY <3>2, <3>3, <3>5
            <4>2. \A m \in 1 .. L : port[m].key = key => m <= n
                BY <3>3, <3>5
            <4> QED BY <2>1, <3>1, <3>3, <4>1, <4>2
        <3> QED BY <1>5, <3>4, <3>5
    <2> QED BY <2>2, <2>3
<1>8. ShiftTracks("shiftL", flags.ShiftL)' /\ ShiftTracks("shiftR", flags.ShiftR)'
    <2>1. ShiftTracks("shiftL", flags.ShiftL) /\ ShiftTracks("shiftR", flags.ShiftR)
        BY DEF KInv, KeyboardTracks
    <2>2. flags'.ShiftL = flags.ShiftL /\ flags'.ShiftR = flags.ShiftR
        BY <1>1
    <2>3. ShiftTracks("shiftL", flags.ShiftL)'
        BY <1>7, <2>1, <2>2 DEF ShiftTracks
    <2>4. ShiftTracks("shiftR", flags.ShiftR)'
        BY <1>7, <2>1, <2>2 DEF ShiftTracks
    <2> QED BY <2>3, <2>4
<1>9. CapsTracks'
    <2>1. PICK c \in [0 .. L -> BOOLEAN] :
             /\ c[0] = flags.CapLocks /\ c[L] = capsOn
             /\ \A n \in 1 .. L :
                   c[n] = IF port[n].key = "caps" /\ port[n].up THEN ~ c[n - 1] ELSE c[n - 1]
        BY DEF KInv, KeyboardTracks, CapsTracks, L
    <2> DEFINE d == [n \in 0 .. L + 1 |-> IF n = L + 1 THEN capsOn' ELSE c[n]]
    <2>2. d \in [0 .. L + 1 -> BOOLEAN] /\ d[L + 1] = capsOn' /\ \A n \in 0 .. L : d[n] = c[n]
        <3>1. capsOn' \in BOOLEAN
            BY <1>6 DEF KeyTypes
        <3>2. \A n \in 0 .. L + 1 : n = L + 1 \/ n \in 0 .. L
            BY <1>4
        <3>3. L + 1 \in 0 .. L + 1 /\ \A n \in 0 .. L : n \in 0 .. L + 1 /\ n # L + 1
            BY <1>4
        <3> QED BY <3>1, <3>2, <3>3
    <2> HIDE DEF d
    <2>3. d[0] = flags'.CapLocks
        BY <1>1, <1>4, <2>1, <2>2
    <2>4. ASSUME NEW n \in 1 .. L + 1
          PROVE  d[n] = IF port'[n].key = "caps" /\ port'[n].up THEN ~ d[n - 1] ELSE d[n - 1]
        <3>1. CASE n = L + 1
            <4>1. d[n - 1] = capsOn /\ d[n] = capsOn'
                BY <1>4, <2>1, <2>2, <3>1
            <4>2. port'[n].key = k /\ port'[n].up = up
                BY <1>3, <1>4, <3>1
            <4> QED BY <1>1, <4>1, <4>2
        <3>2. CASE n # L + 1
            <4>1. n \in 1 .. L /\ n \in 0 .. L /\ n - 1 \in 0 .. L
                BY <1>4, <3>2
            <4> QED BY <1>4, <2>1, <2>2, <4>1
        <3> QED BY <3>1, <3>2
    <2> QED BY <1>4, <2>2, <2>3, <2>4 DEF CapsTracks
<1> QED BY <1>6, <1>8, <1>9 DEF KInv, KeyboardTracks

(* convertToAscii's effect on one flag at a time.                           *)
LEMMA FlagsAfterMeans ==
    ASSUME NEW code \in Codes, NEW f \in Flags
    PROVE  /\ FlagsAfter(code, f) \in Flags
           /\ FlagsAfter(code, f).ShiftL = IF code.key = "shiftL" THEN ~ code.up ELSE f.ShiftL
           /\ FlagsAfter(code, f).ShiftR = IF code.key = "shiftR" THEN ~ code.up ELSE f.ShiftR
           /\ FlagsAfter(code, f).CapLocks =
                IF code.key = "caps" /\ code.up THEN ~ f.CapLocks ELSE f.CapLocks
<1>1. code.up \in BOOLEAN
    BY DEF Codes
<1>2. CASE code.key = "caps" /\ code.up
    BY <1>2 DEF FlagsAfter, Flags
<1>3. CASE code.key = "shiftL"
    BY <1>1, <1>3 DEF FlagsAfter, Flags
<1>4. CASE code.key = "shiftR"
    BY <1>1, <1>4 DEF FlagsAfter, Flags
<1>5. CASE code.key \notin {"shiftL", "shiftR"} /\ ~ (code.key = "caps" /\ code.up)
    BY <1>5 DEF FlagsAfter, Flags
<1> QED BY <1>2, <1>3, <1>4, <1>5

(* The handler reads the first code that waits.                             *)
LEMMA EchoStep ==
    ASSUME KInv, echo_keyboard
    PROVE  KInv'
<1> DEFINE code == port[1]
           L == Len(port)
<1>1. port # << >> /\ flags' = FlagsAfter(code, flags) /\ port' = Tail(port) /\ UNCHANGED <<down, capsOn>>
    BY DEF echo_keyboard
<1>2. port \in Seq(Codes) /\ flags \in Flags /\ down \subseteq Keys /\ capsOn \in BOOLEAN
    BY DEF KInv, KeyTypes
<1>3. /\ port' \in Seq(Codes) /\ Len(port') = L - 1 /\ L \in Nat
      /\ \A n \in 1 .. L - 1 : port'[n] = port[n + 1]
    BY <1>1, <1>2, HeadTailProperties
<1>4. L >= 1 /\ 1 \in 1 .. L
    BY <1>1, <1>2, EmptySeq
<1>5. DOMAIN port = 1 .. L /\ DOMAIN port' = 1 .. L - 1
    BY <1>2, <1>3
<1>6. code \in Codes
    BY <1>2, <1>4, ElementOfSeq
<1>7. /\ flags' \in Flags
      /\ flags'.ShiftL = IF code.key = "shiftL" THEN ~ code.up ELSE flags.ShiftL
      /\ flags'.ShiftR = IF code.key = "shiftR" THEN ~ code.up ELSE flags.ShiftR
      /\ flags'.CapLocks = IF code.key = "caps" /\ code.up THEN ~ flags.CapLocks ELSE flags.CapLocks
    BY <1>1, <1>2, <1>6, FlagsAfterMeans
<1>8. KeyTypes'
    BY <1>1, <1>2, <1>3, <1>7 DEF KeyTypes
<1> HIDE DEF L
<1>9. ASSUME NEW key, NEW flag, NEW flag1, ShiftTracks(key, flag),
             flag1 = IF code.key = key THEN ~ code.up ELSE flag
      PROVE  /\ (\A n \in DOMAIN port' : port'[n].key # key) => (flag1 <=> key \in down')
             /\ \A n \in DOMAIN port' :
                   port'[n].key = key /\ (\A m \in DOMAIN port' : port'[m].key = key => m <= n)
                       => (port'[n].up <=> key \notin down')
    <2>1. /\ (\A n \in 1 .. L : port[n].key # key) => (flag <=> key \in down)
          /\ \A n \in 1 .. L :
                port[n].key = key /\ (\A m \in 1 .. L : port[m].key = key => m <= n)
                    => (port[n].up <=> key \notin down)
        BY <1>5, <1>9, ShiftMeans
    <2>2. \A m \in 1 .. L : m = 1 \/ (m - 1 \in 1 .. L - 1 /\ port'[m - 1] = port[m])
        <3> TAKE m \in 1 .. L
        <3>1. m = 1 \/ (m - 1 \in 1 .. L - 1 /\ (m - 1) + 1 = m)
            BY <1>3
        <3> QED BY <1>3, <3>1
    <2>3. ASSUME \A n \in 1 .. L - 1 : port'[n].key # key
          PROVE  flag1 <=> key \in down
        <3>1. \A m \in 1 .. L : port[m].key = key => m = 1
            BY <2>2, <2>3
        <3>2. CASE code.key = key
            <4>1. \A m \in 1 .. L : port[m].key = key => m <= 1
                BY <3>1, <1>3
            <4>2. port[1].up <=> key \notin down
                BY <1>4, <2>1, <3>2, <4>1
            <4> QED BY <1>9, <3>2, <4>2
        <3>3. CASE code.key # key
            BY <1>9, <2>1, <3>1, <3>3
        <3> QED BY <3>2, <3>3
    <2>4. ASSUME NEW n \in 1 .. L - 1, port'[n].key = key,
                 \A m \in 1 .. L - 1 : port'[m].key = key => m <= n
          PROVE  port'[n].up <=> key \notin down
        <3>1. n + 1 \in 1 .. L /\ port'[n] = port[n + 1]
            BY <1>3
        <3>2. ASSUME NEW m \in 1 .. L, port[m].key = key PROVE m <= n + 1
            <4>1. CASE m = 1
                BY <4>1, <1>3
            <4>2. CASE m - 1 \in 1 .. L - 1 /\ port'[m - 1] = port[m]
                <5>1. m - 1 <= n
                    BY <2>4, <3>2, <4>2
                <5> QED BY <1>3, <5>1
            <4> QED BY <2>2, <4>1, <4>2
        <3> QED BY <2>1, <2>4, <3>1, <3>2
    <2> QED BY <1>1, <1>5, <2>3, <2>4
<1>10. ShiftTracks("shiftL", flags.ShiftL)' /\ ShiftTracks("shiftR", flags.ShiftR)'
    <2>1. ShiftTracks("shiftL", flags.ShiftL) /\ ShiftTracks("shiftR", flags.ShiftR)
        BY DEF KInv, KeyboardTracks
    <2> HIDE DEF code
    <2> QED BY <1>7, <1>9, <2>1 DEF ShiftTracks
<1>11. CapsTracks'
    <2>1. PICK c \in [0 .. L -> BOOLEAN] :
             /\ c[0] = flags.CapLocks /\ c[L] = capsOn
             /\ \A n \in 1 .. L :
                   c[n] = IF port[n].key = "caps" /\ port[n].up THEN ~ c[n - 1] ELSE c[n - 1]
        BY DEF KInv, KeyboardTracks, CapsTracks, L
    <2> DEFINE d == [n \in 0 .. L - 1 |-> c[n + 1]]
    <2>2. d \in [0 .. L - 1 -> BOOLEAN] /\ \A n \in 0 .. L - 1 : d[n] = c[n + 1]
        BY <1>3, <2>1
    <2> HIDE DEF d
    <2>3. d[0] = flags'.CapLocks
        <3>1. 0 \in 0 .. L - 1 /\ 1 - 1 = 0
            BY <1>3, <1>4
        <3>2. c[1] = IF port[1].key = "caps" /\ port[1].up THEN ~ c[0] ELSE c[0]
            BY <1>4, <2>1, <3>1
        <3>3. d[0] = c[0 + 1]
            BY <2>2, <3>1
        <3> QED BY <1>7, <2>1, <3>2, <3>3
    <2>4. d[L - 1] = capsOn'
        <3>1. L - 1 \in 0 .. L - 1 /\ (L - 1) + 1 = L
            BY <1>3, <1>4
        <3> QED BY <1>1, <2>1, <2>2, <3>1
    <2>5. ASSUME NEW n \in 1 .. L - 1
          PROVE  d[n] = IF port'[n].key = "caps" /\ port'[n].up THEN ~ d[n - 1] ELSE d[n - 1]
        <3>1. n \in 0 .. L - 1 /\ n - 1 \in 0 .. L - 1 /\ n + 1 \in 1 .. L
              /\ (n + 1) - 1 = n /\ (n - 1) + 1 = n
            BY <1>3
        <3>2. d[n] = c[n + 1] /\ d[n - 1] = c[n]
            BY <2>2, <3>1
        <3> QED BY <1>3, <2>1, <3>1, <3>2
    <2> QED BY <1>3, <2>2, <2>3, <2>4, <2>5 DEF CapsTracks
<1> QED BY <1>8, <1>10, <1>11 DEF KInv, KeyboardTracks

LEMMA NextKeyboard == KInv /\ [Next]_vars => KInv'
<1> SUFFICES ASSUME KInv, [Next]_vars PROVE KInv'
    OBVIOUS
<1>1. CASE UNCHANGED <<flags, port, down, capsOn>>
    BY <1>1 DEF KInv, KeyTypes, KeyboardTracks, ShiftTracks, CapsTracks
<1>2. CASE \E k \in Pressable : KeyEvent(k)
    BY <1>2, KeysAssumption, KeyEventStep
<1>3. CASE KeyboardInterrupt
    BY <1>3, EchoStep DEF KeyboardInterrupt, interrupt_handler
<1> QED
    BY <1>1, <1>2, <1>3
       DEF Next, Main, LoopNewLine, LoopCell, WriteCell, LoopEnd, Load, Store, StoreLine, Test,
           Reset, Arg, SelectHigh, DataHigh, SelectLow, DataLow, Return, Sti, Cli, Interrupts, Call,
           TimerPulse, TimerInterrupt, interrupt_handler, timer_callback, PicInit, SerialWrite,
           SerialPort, Greeting, Step, kbd, vars

(* However many scan codes wait while interrupts are shut out, and in       *)
(* whatever order keys are pressed and released, reading them brings both   *)
(* shift flags and the caps lock flag to the state of the keyboard.         *)
THEOREM FlagsFollowKeyboard == Spec => []KeyboardTracks
<1>1. KInv => KeyboardTracks
    BY DEF KInv
<1> QED BY <1>1, InitKeyboard, NextKeyboard, PTL DEF Spec

-----------------------------------------------------------------------------
(* The cursor *)

LEMMA TimesMonotonic ==
    ASSUME NEW a \in Nat, NEW b \in Nat, NEW c \in Nat, a <= b
    PROVE  c * a <= c * b
OBVIOUS

LEMMA ModUnique ==
    ASSUME NEW w \in Nat, w > 0, NEW a \in Nat, NEW y \in 0 .. w - 1, NEW p \in Nat, p = w * a + y
    PROVE  p % w = y
<1> DEFINE z == p \div w
           x == p % w
<1>1. p = w * z + x /\ x \in 0 .. w - 1 /\ z \in Int
    OBVIOUS
<1> HIDE DEF z, x
<1>2. z >= 0
    BY <1>1
<1>3. ~ (z + 1 <= a)
    <2> SUFFICES ASSUME z + 1 <= a PROVE FALSE
        OBVIOUS
    <2>1. w * (z + 1) <= w * a
        BY <1>1, <1>2, TimesMonotonic
    <2>2. w * (z + 1) = w * z + w
        BY <1>1
    <2> QED BY <1>1, <2>1, <2>2
<1>4. ~ (a + 1 <= z)
    <2> SUFFICES ASSUME a + 1 <= z PROVE FALSE
        OBVIOUS
    <2>1. w * (a + 1) <= w * z
        BY <1>1, <1>2, TimesMonotonic
    <2>2. w * (a + 1) = w * a + w
        OBVIOUS
    <2> QED BY <1>1, <2>1, <2>2
<1>5. z = a
    BY <1>1, <1>3, <1>4
<1>6. x = y
    BY <1>1, <1>5
<1> QED BY <1>6 DEF x

(* The two bytes fb_move_cursor sends are the position.                     *)
LEMMA TwoBytes ==
    ASSUME NEW p \in Nat
    PROVE  High(p) * BYTE + Low(p) = p % (BYTE * BYTE)
<1> DEFINE q == p \div BYTE
           r == p % BYTE
           a == q \div BYTE
           b == q % BYTE
           w == BYTE * BYTE
           y == BYTE * b + r
<1>1. BYTE \in Nat /\ BYTE > 0
    BY SizeAssumption
<1>2. p = BYTE * q + r /\ r \in 0 .. BYTE - 1 /\ q \in Int
    BY <1>1
<1>3. q \in Nat
    <2> HIDE DEF q, r
    <2> QED BY <1>1, <1>2
<1>4. q = BYTE * a + b /\ b \in 0 .. BYTE - 1 /\ a \in Int
    <2> HIDE DEF q
    <2> QED BY <1>1, <1>3
<1>5. a \in Nat
    <2> HIDE DEF q, a, b
    <2> QED BY <1>1, <1>3, <1>4
<1>6. High(p) = b /\ Low(p) = r
    BY DEF High, Low
<1> HIDE DEF q, r, a, b
<1>7. w \in Nat /\ w > 0
    BY <1>1
<1>8. y \in 0 .. w - 1
    <2>1. BYTE * b <= BYTE * (BYTE - 1)
        BY <1>1, <1>4, TimesMonotonic
    <2>2. BYTE * (BYTE - 1) = w - BYTE
        BY <1>1
    <2>3. BYTE * b \in Nat
        BY <1>1, <1>4
    <2> HIDE DEF w
    <2> QED BY <1>1, <1>2, <1>7, <2>1, <2>2, <2>3
<1>9. p = w * a + y
    <2>1. BYTE * (BYTE * a + b) = (BYTE * BYTE) * a + BYTE * b
        BY <1>1, <1>4, <1>5
    <2>2. (BYTE * BYTE) * a \in Nat /\ BYTE * b \in Nat
        BY <1>1, <1>4, <1>5
    <2> QED BY <1>2, <1>4, <2>1, <2>2
<1>10. b * BYTE + r = y
    BY <1>1, <1>2, <1>4
<1> HIDE DEF y
<1>11. p % w = y
    <2> HIDE DEF w
    <2> QED BY <1>5, <1>7, <1>8, <1>9, ModUnique
<1> QED BY <1>6, <1>10, <1>11

IsConsole(c) ==
    /\ c = [cells |-> c.cells, cursorPosition |-> c.cursorPosition,
            index |-> c.index, high |-> c.high, low |-> c.low]
    /\ c.index \in {"high", "low"} /\ c.cursorPosition \in Nat

Shows(c, p) == c.high = High(p) /\ c.low = Low(p)

(* In fb_move_cursor the registers come to the position one by one, unless  *)
(* a key is echoed; between calls they are there.                           *)
CursorPhase ==
    /\ pc \in {"high", "hbyte", "low", "lbyte"} => pos = con.cursorPosition
    /\ pc = "hbyte" => con.index = "high"
    /\ pc \in {"low", "lbyte"} => con.high = High(pos)
    /\ pc = "lbyte" => con.index = "low"
    /\ pc = "idle" => Shows(con, con.cursorPosition)

CInv ==
    /\ IsConsole(con) /\ reg \in Nat /\ pos \in Nat
    /\ ~ echoed => CursorPhase

LEMMA CellMeans ==
    ASSUME NEW c, IsConsole(c), NEW i, NEW ch
    PROVE  /\ IsConsole(fb_write_cell(c, i, ch))
           /\ fb_write_cell(c, i, ch).cursorPosition = c.cursorPosition
           /\ fb_write_cell(c, i, ch).index = c.index
           /\ fb_write_cell(c, i, ch).high = c.high /\ fb_write_cell(c, i, ch).low = c.low
BY DEF fb_write_cell, IsConsole

LEMMA PositionMeans ==
    ASSUME NEW c, IsConsole(c), NEW p \in Nat
    PROVE  /\ IsConsole([c EXCEPT !.cursorPosition = p])
           /\ [c EXCEPT !.cursorPosition = p].cursorPosition = p
BY DEF IsConsole

LEMMA SelectMeans ==
    ASSUME NEW c, IsConsole(c), NEW r \in {"high", "low"}
    PROVE  /\ IsConsole(Select(c, r)) /\ Select(c, r).index = r
           /\ Select(c, r).cursorPosition = c.cursorPosition
           /\ Select(c, r).high = c.high /\ Select(c, r).low = c.low
BY DEF Select, IsConsole

LEMMA DataMeans ==
    ASSUME NEW c, IsConsole(c), NEW b
    PROVE  /\ IsConsole(Data(c, b)) /\ Data(c, b).index = c.index
           /\ Data(c, b).cursorPosition = c.cursorPosition
           /\ Data(c, b).high = IF c.index = "high" THEN b ELSE c.high
           /\ Data(c, b).low = IF c.index = "high" THEN c.low ELSE b
BY DEF Data, IsConsole

(* Undisturbed, fb_move_cursor shows the position.                          *)
LEMMA MoveCursorMeans ==
    ASSUME NEW c, IsConsole(c), NEW p
    PROVE  /\ IsConsole(fb_move_cursor(c, p)) /\ Shows(fb_move_cursor(c, p), p)
           /\ fb_move_cursor(c, p).cursorPosition = c.cursorPosition
<1> DEFINE c1 == Select(c, "high")
           c2 == Data(c1, High(p))
           c3 == Select(c2, "low")
           c4 == Data(c3, Low(p))
<1>1. IsConsole(c1) /\ c1.index = "high" /\ c1.cursorPosition = c.cursorPosition
    BY SelectMeans
<1> HIDE DEF c1
<1>2. IsConsole(c2) /\ c2.high = High(p) /\ c2.cursorPosition = c.cursorPosition
    BY <1>1, DataMeans
<1> HIDE DEF c2
<1>3. IsConsole(c3) /\ c3.high = High(p) /\ c3.index = "low" /\ c3.cursorPosition = c.cursorPosition
    BY <1>2, SelectMeans
<1> HIDE DEF c3
<1>4. /\ IsConsole(c4) /\ c4.high = High(p) /\ c4.low = Low(p)
      /\ c4.cursorPosition = c.cursorPosition
    BY <1>3, DataMeans
<1>5. fb_move_cursor(c, p) = c4
    BY DEF fb_move_cursor, c1, c2, c3
<1> HIDE DEF c4
<1> QED BY <1>4, <1>5 DEF Shows

LEMMA NextLineType ==
    ASSUME NEW p \in Nat PROVE NextLine(p) \in Nat
<1>1. COLUMNS \in Nat /\ COLUMNS > 0
    BY SizeAssumption
<1> DEFINE q == p \div COLUMNS
<1>2. q \in Nat
    BY <1>1
<1> HIDE DEF q
<1>3. (q + 1) * COLUMNS \in Nat
    BY <1>1, <1>2
<1> QED BY <1>3 DEF NextLine, q

LEMMA PutMeans ==
    ASSUME NEW c, IsConsole(c), NEW ch
    PROVE  IsConsole(Put(c, ch))
<1> DEFINE p == c.cursorPosition
           q == IF ch = NL THEN IF OffScreen(NextLine(p)) THEN 0 ELSE NextLine(p) ELSE BackSpace(p)
           d == [c EXCEPT !.cursorPosition = q]
<1>1. p \in Nat
    BY DEF IsConsole
<1>2. q \in Nat
    BY <1>1, NextLineType DEF BackSpace
<1>3. IsConsole(d)
    <2> HIDE DEF q
    <2> QED BY <1>2, PositionMeans
<1>4. CASE ch = NL
    <2>1. Put(c, ch) = fb_move_cursor(d, q)
        BY <1>4 DEF Put, NL, BS
    <2> HIDE DEF d, q
    <2> QED BY <1>3, <2>1, MoveCursorMeans
<1>5. CASE ch = BS
    <2>1. Put(c, ch) = fb_write_cell(fb_move_cursor(d, q), q, " ")
        BY <1>5 DEF Put, NL, BS
    <2> HIDE DEF d, q
    <2>2. IsConsole(fb_move_cursor(d, q))
        BY <1>3, MoveCursorMeans
    <2> QED BY <2>1, <2>2, CellMeans
<1>6. CASE ch # NL /\ ch # BS
    <2>1. Put(c, ch) = [fb_write_cell(c, p, ch) EXCEPT !.cursorPosition = p + 1]
        BY <1>6 DEF Put
    <2>2. IsConsole(fb_write_cell(c, p, ch)) /\ p + 1 \in Nat
        BY <1>1, CellMeans
    <2> QED BY <2>1, <2>2, PositionMeans
<1> QED BY <1>4, <1>5, <1>6

LEMMA WriteOneMeans ==
    ASSUME NEW c, IsConsole(c), NEW ch
    PROVE  /\ IsConsole(fb_write_one(c, ch))
           /\ Shows(fb_write_one(c, ch), fb_write_one(c, ch).cursorPosition)
<1> DEFINE d == Put(c, ch)
<1>1. IsConsole(d)
    BY PutMeans
<1>2. fb_write_one(c, ch) = fb_move_cursor(d, d.cursorPosition)
    BY DEF fb_write_one, Follow
<1> HIDE DEF d
<1> QED BY <1>1, <1>2, MoveCursorMeans

LEMMA ClockMeans ==
    ASSUME NEW c, IsConsole(c), NEW buf
    PROVE  /\ IsConsole(fb_clock_write(c, buf))
           /\ fb_clock_write(c, buf).cursorPosition = c.cursorPosition
           /\ fb_clock_write(c, buf).index = c.index
           /\ fb_clock_write(c, buf).high = c.high /\ fb_clock_write(c, buf).low = c.low
<1> DEFINE x == [i \in DOMAIN c.cells |->
                    IF i \in COLUMNS - Len(buf) .. COLUMNS - 1
                    THEN buf[i - COLUMNS + Len(buf) + 1] ELSE c.cells[i]]
<1>1. fb_clock_write(c, buf) = [c EXCEPT !.cells = x]
    BY DEF fb_clock_write
<1> HIDE DEF x
<1> QED BY <1>1 DEF IsConsole

(* The port accesses of fb_move_cursor on the main thread.                  *)
LEMMA MoveCursorSteps ==
    ASSUME CInv, SelectHigh \/ DataHigh \/ SelectLow \/ DataLow \/ Return
    PROVE  CInv'
<1>1. IsConsole(con) /\ reg \in Nat /\ pos \in Nat
    BY DEF CInv
<1>2. CASE SelectHigh
    <2>1. /\ pc = "high" /\ pc' = "hbyte" /\ con' = Select(con, "high") /\ reg' = reg /\ pos' = pos
          /\ echoed' = echoed
        BY <1>2 DEF SelectHigh, Step, hist
    <2>2. IsConsole(con') /\ con'.index = "high" /\ con'.cursorPosition = con.cursorPosition
        BY <1>1, <2>1, SelectMeans
    <2> QED BY <1>1, <2>1, <2>2 DEF CInv, CursorPhase
<1>3. CASE DataHigh
    <2>1. /\ pc = "hbyte" /\ pc' = "low" /\ con' = Data(con, High(pos)) /\ reg' = reg /\ pos' = pos
          /\ echoed' = echoed
        BY <1>3 DEF DataHigh, Step, hist
    <2>2. /\ IsConsole(con') /\ con'.cursorPosition = con.cursorPosition
          /\ con.index = "high" => con'.high = High(pos)
        BY <1>1, <2>1, DataMeans
    <2> QED BY <1>1, <2>1, <2>2 DEF CInv, CursorPhase
<1>4. CASE SelectLow
    <2>1. /\ pc = "low" /\ pc' = "lbyte" /\ con' = Select(con, "low") /\ reg' = reg /\ pos' = pos
          /\ echoed' = echoed
        BY <1>4 DEF SelectLow, Step, hist
    <2>2. /\ IsConsole(con') /\ con'.index = "low" /\ con'.cursorPosition = con.cursorPosition
          /\ con'.high = con.high
        BY <1>1, <2>1, SelectMeans
    <2> QED BY <1>1, <2>1, <2>2 DEF CInv, CursorPhase
<1>5. CASE DataLow
    <2>1. /\ pc = "lbyte" /\ pc' = "loop" /\ con' = Data(con, Low(pos)) /\ reg' = reg /\ pos' = pos
        BY <1>5 DEF DataLow, Step
    <2>2. IsConsole(con')
        BY <1>1, <2>1, DataMeans
    <2> QED BY <1>1, <2>1, <2>2 DEF CInv, CursorPhase
<1>6. CASE Return
    <2>1. /\ pc = "lbyte" /\ pc' = "idle" /\ con' = Data(con, Low(pos)) /\ reg' = 0 /\ pos' = 0
          /\ echoed' = echoed
        BY <1>6 DEF Return
    <2>2. /\ IsConsole(con') /\ con'.cursorPosition = con.cursorPosition
          /\ con.index = "low" => con'.high = con.high /\ con'.low = Low(pos)
        BY <1>1, <2>1, DataMeans
    <2>3. ASSUME ~ echoed' PROVE Shows(con', con'.cursorPosition)
        <3>1. con.index = "low" /\ con.high = High(pos) /\ pos = con.cursorPosition
            BY <2>1, <2>3 DEF CInv, CursorPhase
        <3> QED BY <2>2, <3>1 DEF Shows
    <2> QED BY <2>1, <2>2, <2>3 DEF CInv, CursorPhase
<1> QED BY <1>2, <1>3, <1>4, <1>5, <1>6

(* The rest of fb_write: the cursor is to follow, and has not yet.          *)
LEMMA WriteSteps ==
    ASSUME CInv, \/ LoopNewLine \/ LoopCell \/ WriteCell \/ LoopEnd \/ Load \/ Store
                 \/ StoreLine \/ Test \/ Reset \/ Arg
    PROVE  CInv'
<1>1. IsConsole(con) /\ reg \in Nat /\ pos \in Nat /\ Here \in Nat /\ NextLine(reg) \in Nat /\ reg + 1 \in Nat
    BY NextLineType DEF CInv, IsConsole, Here
<1>2. /\ IsConsole(con') /\ reg' \in Nat /\ pos' \in Nat
      /\ pc' \in {"loop", "cell", "load", "store", "line", "test", "reset", "arg", "high"}
      /\ pc' = "high" => con' = con /\ pos' = con.cursorPosition
    <2>1. CASE LoopNewLine \/ LoopCell \/ LoopEnd \/ Load \/ Test \/ Arg
        BY <1>1, <2>1 DEF LoopNewLine, LoopCell, LoopEnd, Load, Test, Arg, Step, Here
    <2>2. CASE WriteCell
        BY <1>1, <2>2, CellMeans DEF WriteCell, Step
    <2>3. CASE Store \/ StoreLine \/ Reset
        <3>1. /\ reg' = reg /\ pos' = pos /\ pc' \in {"loop", "test", "arg"}
              /\ con' \in {Moved(reg + 1), Moved(NextLine(reg)), Moved(0)}
            BY <2>3 DEF Store, StoreLine, Reset, Step
        <3>2. ASSUME NEW p \in Nat PROVE IsConsole(Moved(p))
            BY <1>1, PositionMeans DEF Moved
        <3> QED BY <1>1, <3>1, <3>2
    <2> QED BY <2>1, <2>2, <2>3
<1>3. CursorPhase'
    BY <1>2 DEF CursorPhase
<1> QED BY <1>2, <1>3 DEF CInv

LEMMA NextCursor == CInv /\ [Next]_vars => CInv'
<1> SUFFICES ASSUME CInv, [Next]_vars PROVE CInv'
    OBVIOUS
<1>0. IsConsole(con) /\ reg \in Nat /\ pos \in Nat
    BY DEF CInv
<1>1. CASE UNCHANGED <<con, main, echoed>>
    BY <1>1 DEF CInv, IsConsole, CursorPhase, Shows, main
<1>2. CASE SelectHigh \/ DataHigh \/ SelectLow \/ DataLow \/ Return
    BY <1>2, MoveCursorSteps
<1>3. CASE \/ LoopNewLine \/ LoopCell \/ WriteCell \/ LoopEnd \/ Load \/ Store
           \/ StoreLine \/ Test \/ Reset \/ Arg
    BY <1>3, WriteSteps
<1>4. CASE \E buf \in Texts : Call(buf)
    <2>1. pc' = "loop" /\ con' = con /\ reg' = reg /\ pos' = pos
        BY <1>4 DEF Call
    <2> QED BY <1>0, <2>1 DEF CInv, CursorPhase
<1>5. CASE TimerInterrupt
    <2>1. /\ con' = fb_clock_write(con, i2a(ticks)) /\ pc' = pc /\ reg' = reg /\ pos' = pos
          /\ echoed' = echoed
        BY <1>5 DEF TimerInterrupt, interrupt_handler, timer_callback, main, hist
    <2>2. /\ IsConsole(con') /\ con'.cursorPosition = con.cursorPosition /\ con'.index = con.index
          /\ con'.high = con.high /\ con'.low = con.low
        BY <1>0, <2>1, ClockMeans
    <2> QED BY <1>0, <2>1, <2>2 DEF CInv, CursorPhase, Shows
<1>6. CASE KeyboardInterrupt
    <2> DEFINE ch == convertToAscii(Head(port), flags)
    <2>1. /\ con' = IF ch = NUL THEN con ELSE fb_write_one(con, ch)
          /\ echoed' = IF ch = NUL THEN echoed ELSE pc # "idle"
          /\ pc' = pc /\ reg' = reg /\ pos' = pos
        BY <1>6 DEF KeyboardInterrupt, interrupt_handler, echo_keyboard, main
    <2> HIDE DEF ch
    <2>2. CASE ch = NUL
        BY <1>0, <2>1, <2>2 DEF CInv, CursorPhase, Shows
    <2>3. CASE ch # NUL
        <3>1. IsConsole(con') /\ Shows(con', con'.cursorPosition)
            BY <1>0, <2>1, <2>3, WriteOneMeans
        <3>2. ~ echoed' => pc' = "idle"
            BY <2>1, <2>3
        <3> QED BY <1>0, <2>1, <3>1, <3>2 DEF CInv, CursorPhase
    <2> QED BY <2>2, <2>3
<1> QED
    BY <1>1, <1>2, <1>3, <1>4, <1>5, <1>6
       DEF Next, Main, Sti, Cli, Interrupts, KeyEvent, TimerPulse, PicInit, SerialWrite, SerialPort,
           Greeting, hist, vars

LEMMA InitCursor == Init => CInv
<1> SUFFICES ASSUME Init PROVE CInv
    OBVIOUS
<1> DEFINE x == [i \in -1 .. LIMIT |-> IF i = -1 THEN "memory" ELSE " "]
<1>1. con = [cells |-> x, cursorPosition |-> 0, index |-> "high", high |-> 0, low |-> BYTE - 1]
    BY DEF Init, Cleared
<1> HIDE DEF x
<1>2. IsConsole(con)
    BY <1>1 DEF IsConsole
<1> QED BY <1>2 DEF Init, CInv

(* Between calls the cursor's two registers hold the place of the next      *)
(* character, for every text, every screen and every order of ticks and     *)
(* keys, as long as no key was echoed in the middle of the last call.       *)
THEOREM CursorFollowsText == Spec => []CursorShown
<1>1. CInv => CursorShown
    <2> SUFFICES ASSUME CInv, pc = "idle", ~ echoed
                 PROVE  con.high * BYTE + con.low = con.cursorPosition % (BYTE * BYTE)
        BY DEF CursorShown
    <2>1. con.cursorPosition \in Nat /\ Shows(con, con.cursorPosition)
        BY DEF CInv, IsConsole, CursorPhase
    <2> QED BY <2>1, TwoBytes DEF Shows
<1> QED BY <1>1, InitCursor, NextCursor, PTL DEF Spec

-----------------------------------------------------------------------------
(* What the functions of screen.c leave intact                              *)

(* The cells are those of the frame buffer, and what is before it is not    *)
(* written to; the registers hold a byte.                                   *)
Intact(c) ==
    /\ IsConsole(c)
    /\ DOMAIN c.cells = -1 .. LIMIT /\ c.cells = [i \in -1 .. LIMIT |-> c.cells[i]]
    /\ c.cells[-1] = "memory"
    /\ c.high \in 0 .. BYTE - 1 /\ c.low \in 0 .. BYTE - 1

LEMMA BytesRange ==
    ASSUME NEW p \in Nat
    PROVE  High(p) \in 0 .. BYTE - 1 /\ Low(p) \in 0 .. BYTE - 1
<1>1. BYTE \in Nat /\ BYTE > 0
    BY SizeAssumption
<1>2. \A x \in Int : x % BYTE \in 0 .. BYTE - 1
    BY <1>1
<1>3. p \div BYTE \in Int
    BY <1>1
<1> QED BY <1>2, <1>3 DEF High, Low

(* d is c with one cell written to.                                         *)
Overwritten(d, c, i, ch) == \A j \in -1 .. LIMIT : d.cells[j] = IF j = i THEN ch ELSE c.cells[j]

(* A write to a cell of the frame buffer.                                   *)
LEMMA CellChanges ==
    ASSUME NEW c, Intact(c), NEW i \in Nat, NEW ch
    PROVE  Intact(fb_write_cell(c, i, ch)) /\ Overwritten(fb_write_cell(c, i, ch), c, i, ch)
<1> DEFINE x == [c.cells EXCEPT ![i] = ch]
           d == fb_write_cell(c, i, ch)
<1>1. d = [c EXCEPT !.cells = x]
    BY DEF fb_write_cell
<1>2. DOMAIN x = -1 .. LIMIT /\ \A j \in -1 .. LIMIT : x[j] = IF j = i THEN ch ELSE c.cells[j]
    BY DEF Intact
<1>2a. x = [j \in -1 .. LIMIT |-> x[j]]
    BY DEF Intact
<1>3. -1 \in -1 .. LIMIT /\ -1 # i
    BY LimitAssumption
<1> HIDE DEF x
<1>4. d.cells = x
    BY <1>1 DEF Intact, IsConsole
<1>5. IsConsole(d) /\ d.high = c.high /\ d.low = c.low
    BY CellMeans DEF Intact
<1> HIDE DEF d
<1> QED BY <1>2, <1>2a, <1>3, <1>4, <1>5 DEF Intact, Overwritten, d

LEMMA PositionChanges ==
    ASSUME NEW c, Intact(c), NEW p \in Nat
    PROVE  /\ Intact([c EXCEPT !.cursorPosition = p]) /\ [c EXCEPT !.cursorPosition = p].cursorPosition = p
           /\ [c EXCEPT !.cursorPosition = p].cells = c.cells
<1> DEFINE d == [c EXCEPT !.cursorPosition = p]
<1>1. IsConsole(d) /\ d.cursorPosition = p
    BY PositionMeans DEF Intact
<1>2. d.cells = c.cells /\ d.high = c.high /\ d.low = c.low
    BY DEF Intact, IsConsole
<1> HIDE DEF d
<1>3. Intact(d)
    BY <1>1, <1>2 DEF Intact
<1> QED BY <1>1, <1>2, <1>3 DEF d

LEMMA SelectChanges ==
    ASSUME NEW c, Intact(c), NEW r \in {"high", "low"}
    PROVE  Intact(Select(c, r)) /\ Select(c, r).cells = c.cells
<1>1. IsConsole(Select(c, r)) /\ Select(c, r).high = c.high /\ Select(c, r).low = c.low
    BY SelectMeans DEF Intact
<1>2. Select(c, r).cells = c.cells
    BY DEF Select, Intact, IsConsole
<1> QED BY <1>1, <1>2 DEF Intact

LEMMA DataChanges ==
    ASSUME NEW c, Intact(c), NEW b \in 0 .. BYTE - 1
    PROVE  Intact(Data(c, b)) /\ Data(c, b).cells = c.cells
<1>1. /\ IsConsole(Data(c, b))
      /\ Data(c, b).high = IF c.index = "high" THEN b ELSE c.high
      /\ Data(c, b).low = IF c.index = "high" THEN c.low ELSE b
    BY DataMeans DEF Intact
<1>2. Data(c, b).cells = c.cells
    BY DEF Data, Intact, IsConsole
<1> QED BY <1>1, <1>2 DEF Intact

LEMMA MoveCursorChanges ==
    ASSUME NEW c, Intact(c), NEW p \in Nat
    PROVE  Intact(fb_move_cursor(c, p)) /\ fb_move_cursor(c, p).cells = c.cells
<1> DEFINE c1 == Select(c, "high")
           c2 == Data(c1, High(p))
           c3 == Select(c2, "low")
<1>1. Intact(c1) /\ c1.cells = c.cells
    BY SelectChanges
<1> HIDE DEF c1
<1>2. Intact(c2) /\ c2.cells = c.cells
    BY <1>1, BytesRange, DataChanges
<1> HIDE DEF c2
<1>3. Intact(c3) /\ c3.cells = c.cells
    BY <1>2, SelectChanges
<1> HIDE DEF c3
<1>4. Intact(Data(c3, Low(p))) /\ Data(c3, Low(p)).cells = c.cells
    BY <1>3, BytesRange, DataChanges
<1> QED BY <1>4 DEF fb_move_cursor, c1, c2, c3

(* Where one character takes the cursor.                                    *)
After(p, ch) ==
    IF ch = NL THEN IF OffScreen(NextLine(p)) THEN 0 ELSE NextLine(p)
    ELSE IF ch = BS THEN BackSpace(p) ELSE p + 1

(* The cell one character goes to, if any, and what is there then.          *)
Cell(p, ch) == IF ch = BS THEN BackSpace(p) ELSE p
Shown(ch) == IF ch = BS THEN " " ELSE ch

LEMMA AfterType ==
    ASSUME NEW p \in Nat, NEW ch
    PROVE  After(p, ch) \in Nat /\ Cell(p, ch) \in Nat
<1>1. NextLine(p) \in Nat
    BY NextLineType
<1>2. BackSpace(p) \in Nat
    BY DEF BackSpace
<1> QED BY <1>1, <1>2 DEF After, Cell

LEMMA PutChanges ==
    ASSUME NEW c, Intact(c), NEW ch
    PROVE  /\ Intact(Put(c, ch))
           /\ Put(c, ch).cursorPosition = After(c.cursorPosition, ch)
           /\ ch = NL => Put(c, ch).cells = c.cells
           /\ ch # NL => Overwritten(Put(c, ch), c, Cell(c.cursorPosition, ch), Shown(ch))
<1> DEFINE p == c.cursorPosition
           q == After(p, ch)
           d == [c EXCEPT !.cursorPosition = q]
<1>1. p \in Nat /\ IsConsole(c)
    BY DEF Intact, IsConsole
<1>2. q \in Nat /\ Cell(p, ch) \in Nat
    BY <1>1, AfterType
<1>3. Intact(d) /\ d.cursorPosition = q /\ d.cells = c.cells
    <2> HIDE DEF q
    <2> QED BY <1>2, PositionChanges
<1>4. CASE ch = NL
    <2>1. Put(c, ch) = fb_move_cursor(d, q)
        BY <1>4 DEF Put, NL, BS, After
    <2>0. q = After(c.cursorPosition, ch) /\ IsConsole(d)
        BY <1>3 DEF Intact
    <2> HIDE DEF d, q
    <2>2. Intact(fb_move_cursor(d, q)) /\ fb_move_cursor(d, q).cells = c.cells
        BY <1>2, <1>3, MoveCursorChanges
    <2>3. fb_move_cursor(d, q).cursorPosition = q
        BY <1>3, <2>0, MoveCursorMeans
    <2> QED BY <1>4, <2>0, <2>1, <2>2, <2>3
<1>5. CASE ch = BS
    <2> DEFINE m == fb_move_cursor(d, q)
    <2>1. Put(c, ch) = fb_write_cell(m, q, " ") /\ q = Cell(p, ch) /\ ch # NL /\ Shown(ch) = " "
        BY <1>5 DEF Put, NL, BS, After, Cell, Shown
    <2>0. q = After(c.cursorPosition, ch) /\ IsConsole(d)
        BY <1>3 DEF Intact
    <2> HIDE DEF d, q
    <2>2. Intact(m) /\ m.cells = c.cells
        BY <1>2, <1>3, MoveCursorChanges
    <2>3. m.cursorPosition = q /\ IsConsole(m)
        BY <1>3, <2>0, MoveCursorMeans
    <2> HIDE DEF m
    <2>4. fb_write_cell(m, q, " ").cursorPosition = q
        BY <2>3, CellMeans
    <2>5. Intact(fb_write_cell(m, q, " ")) /\ Overwritten(fb_write_cell(m, q, " "), m, q, " ")
        BY <1>2, <2>2, CellChanges
    <2>6. Overwritten(fb_write_cell(m, q, " "), c, q, " ")
        BY <2>2, <2>5 DEF Overwritten
    <2> QED BY <2>0, <2>1, <2>4, <2>5, <2>6
<1>6. CASE ch # NL /\ ch # BS
    <2> DEFINE m == fb_write_cell(c, p, ch)
    <2>1. Put(c, ch) = [m EXCEPT !.cursorPosition = p + 1]
        BY <1>6 DEF Put
    <2>2. q = p + 1 /\ Cell(p, ch) = p /\ Shown(ch) = ch
        BY <1>6 DEF After, Cell, Shown
    <2>3. Intact(m) /\ Overwritten(m, c, p, ch)
        BY <1>1, CellChanges
    <2> HIDE DEF m
    <2>4. p + 1 \in Nat
        BY <1>1
    <2>5. Intact(Put(c, ch)) /\ Put(c, ch).cursorPosition = p + 1 /\ Put(c, ch).cells = m.cells
        BY <2>1, <2>3, <2>4, PositionChanges
    <2>6. Overwritten(Put(c, ch), c, p, ch)
        BY <2>3, <2>5 DEF Overwritten
    <2> QED BY <1>6, <2>2, <2>5, <2>6
<1> QED BY <1>4, <1>5, <1>6

LEMMA WriteOneChanges ==
    ASSUME NEW c, Intact(c), NEW ch
    PROVE  /\ Intact(fb_write_one(c, ch))
           /\ fb_write_one(c, ch).cursorPosition = After(c.cursorPosition, ch)
<1> DEFINE d == Put(c, ch)
<1>1. Intact(d) /\ d.cursorPosition = After(c.cursorPosition, ch) /\ d.cursorPosition \in Nat /\ IsConsole(d)
    BY PutChanges DEF Intact, IsConsole
<1>2. fb_write_one(c, ch) = fb_move_cursor(d, d.cursorPosition)
    BY DEF fb_write_one, Follow
<1> HIDE DEF d
<1> QED BY <1>1, <1>2, MoveCursorMeans, MoveCursorChanges

(* The clock stays in the first line.                                       *)
LEMMA ClockFits ==
    ASSUME NEW t \in 0 .. MAX_TICKS
    PROVE  /\ Len(i2a(t)) \in 1 .. COLUMNS
           /\ \A j \in COLUMNS - Len(i2a(t)) .. COLUMNS - 1 : j \in Nat /\ j \in ClockCells
<1>1. t \in 0 .. WORD - 1
    BY ClockAssumption, WordPositive
<1>2. Fits(COLUMNS - 1) /\ COLUMNS \in Nat
    BY ClockAssumption, SizeAssumption DEF Fits
<1>3. Len(i2a(t)) \in 1 .. (COLUMNS - 1) + 1
    <2> DEFINE N == COLUMNS - 1
    <2>1. Fits(N)
        BY <1>2
    <2> HIDE DEF N
    <2>2. Len(i2a(t)) \in 1 .. N + 1
        BY <1>1, <2>1, i2aLength
    <2> QED BY <2>2 DEF N
<1>4. Len(i2a(t)) \in 1 .. COLUMNS
    BY <1>2, <1>3
<1>5. \A j \in COLUMNS - Len(i2a(t)) .. COLUMNS - 1 : j \in Nat
    <2> DEFINE l == Len(i2a(t))
    <2>1. l \in 1 .. COLUMNS
        BY <1>4
    <2> HIDE DEF l
    <2>2. \A j \in COLUMNS - l .. COLUMNS - 1 : j \in Nat
        BY <1>2, <2>1
    <2> QED BY <2>2 DEF l
<1>6. \A j \in COLUMNS - Len(i2a(t)) .. COLUMNS - 1 : j \in ClockCells
    BY DEF ClockCells
<1> QED BY <1>4, <1>5, <1>6

LEMMA ClockChanges ==
    ASSUME NEW c, Intact(c), NEW t \in 0 .. MAX_TICKS
    PROVE  /\ Intact(fb_clock_write(c, i2a(t)))
           /\ \A j \in -1 .. LIMIT : j \notin ClockCells => fb_clock_write(c, i2a(t)).cells[j] = c.cells[j]
<1> DEFINE buf == i2a(t)
           x == [i \in -1 .. LIMIT |->
                    IF i \in COLUMNS - Len(buf) .. COLUMNS - 1
                    THEN buf[i - COLUMNS + Len(buf) + 1] ELSE c.cells[i]]
           d == fb_clock_write(c, buf)
<1>1. d = [c EXCEPT !.cells = x]
    BY DEF fb_clock_write, Intact
<1>2. \A j \in COLUMNS - Len(buf) .. COLUMNS - 1 : j \in Nat /\ j \in ClockCells
    BY ClockFits
<1>3. IsConsole(d) /\ d.high = c.high /\ d.low = c.low
    BY ClockMeans DEF Intact
<1> HIDE DEF buf
<1>4. \A j \in -1 .. LIMIT : j \notin ClockCells => x[j] = c.cells[j]
    BY <1>2
<1>5. -1 \in -1 .. LIMIT /\ -1 \notin Nat
    BY LimitAssumption
<1>6. x[-1] = c.cells[-1]
    BY <1>2, <1>5
<1>7. DOMAIN x = -1 .. LIMIT /\ x = [j \in -1 .. LIMIT |-> x[j]]
    OBVIOUS
<1> HIDE DEF x
<1>8. d.cells = x
    BY <1>1 DEF Intact, IsConsole
<1> HIDE DEF d
<1> QED BY <1>3, <1>4, <1>6, <1>7, <1>8 DEF Intact, d, buf

-----------------------------------------------------------------------------
(* How far the cursor gets: TInv is inductive                               *)

(* The longest text, and the place below the last line.                     *)
Longest == CHOOSE T \in 0 .. LIMIT :
              /\ \A s \in Texts : Len(s) <= T
              /\ LIMIT >= (ROWS + 2) * COLUMNS + T * MAX_CALLS + MAX_KEYS
Bottom == (ROWS + 1) * COLUMNS

LEMMA LongestIs ==
    /\ Longest \in Nat /\ \A s \in Texts : Len(s) <= Longest
    /\ LIMIT >= (ROWS + 2) * COLUMNS + Longest * MAX_CALLS + MAX_KEYS
<1>1. LIMIT \in Nat
    BY LimitAssumption
<1>2. /\ Longest \in 0 .. LIMIT /\ \A s \in Texts : Len(s) <= Longest
      /\ LIMIT >= (ROWS + 2) * COLUMNS + Longest * MAX_CALLS + MAX_KEYS
    BY LimitAssumption, Zenon DEF Longest
<1> QED BY <1>1, <1>2

LEMMA Sizes ==
    /\ COLUMNS \in Nat /\ COLUMNS > 0 /\ ROWS \in Nat /\ Bottom \in Nat
    /\ MAX_CALLS \in Nat /\ MAX_KEYS \in Nat /\ LIMIT \in Nat /\ Longest \in Nat
<1>1. COLUMNS \in Nat /\ COLUMNS > 0 /\ ROWS \in Nat
    BY SizeAssumption
<1>2. (ROWS + 1) * COLUMNS \in Nat
    BY <1>1
<1> QED BY <1>1, <1>2, LimitAssumption, LongestIs DEF Bottom

LEMMA LimitIs == LIMIT >= Bottom + COLUMNS + Longest * MAX_CALLS + MAX_KEYS
<1>1. (ROWS + 2) * COLUMNS = Bottom + COLUMNS
    BY Sizes DEF Bottom
<1> QED BY <1>1, LongestIs

LEMMA LineBounds ==
    ASSUME NEW p \in Nat
    PROVE  NextLine(p) <= p + COLUMNS /\ (~ OffScreen(p) => p <= Bottom)
<1> DEFINE q == p \div COLUMNS
           r == p % COLUMNS
<1>1. q \in Nat /\ r \in Nat /\ r < COLUMNS /\ p = COLUMNS * q + r
    BY Sizes
<1>2. NextLine(p) = (q + 1) * COLUMNS
    BY DEF NextLine
<1>3. OffScreen(p) <=> q > ROWS
    BY DEF OffScreen
<1> HIDE DEF q, r
<1>4. (q + 1) * COLUMNS = COLUMNS * q + COLUMNS /\ COLUMNS * q \in Nat
    BY <1>1, Sizes
<1>5. ASSUME q <= ROWS PROVE p <= Bottom
    <2>1. COLUMNS * q <= COLUMNS * ROWS
        BY <1>1, <1>5, Sizes, TimesMonotonic
    <2>2. Bottom = COLUMNS * ROWS + COLUMNS /\ COLUMNS * ROWS \in Nat
        BY Sizes DEF Bottom
    <2> QED BY <1>1, <1>4, <2>1, <2>2, Sizes
<1> QED BY <1>1, <1>2, <1>3, <1>4, <1>5, Sizes

(* How far one character takes the cursor.                                  *)
LEMMA AfterBound ==
    ASSUME NEW p \in Nat, NEW ch, NEW x \in Nat, p <= Bottom + x
    PROVE  After(p, ch) \in Nat /\ After(p, ch) <= Bottom + x + 1
<1>1. NextLine(p) \in Nat /\ (~ OffScreen(NextLine(p)) => NextLine(p) <= Bottom)
    BY NextLineType, LineBounds
<1>2. BackSpace(p) \in Nat /\ BackSpace(p) <= p
    BY DEF BackSpace
<1>3. CASE ch = NL
    BY <1>1, <1>3, Sizes DEF After
<1>4. CASE ch # NL
    BY <1>2, <1>4, Sizes DEF After
<1> QED BY <1>3, <1>4

(* The characters written so far: those of earlier calls, which a full one  *)
(* each stands for, those of this one, and the keys that were read.         *)
Used == Longest * (IF pc = "idle" THEN calls ELSE calls - 1) + (at - 1) + (keys - Len(port))

(* fb_write's loop, and the counts of calls and keys.                       *)
Counts ==
    /\ pc \in PCs /\ calls \in 0 .. MAX_CALLS
    /\ keys \in 0 .. MAX_KEYS /\ Len(port) \in 0 .. keys
    /\ Len(text) \in 0 .. Longest /\ at \in 1 .. Len(text) + 1
    /\ pc = "idle" => at = 1
    /\ pc # "idle" => calls >= 1
    /\ pc \in {"cell", "load", "store", "line", "test", "reset", "arg"} => at <= Len(text)

LEMMA UsedBound ==
    ASSUME Counts
    PROVE  Used \in Nat /\ Used <= Longest * MAX_CALLS + MAX_KEYS
<1> DEFINE k == IF pc = "idle" THEN calls ELSE calls - 1
           u == Longest * k
           n == Len(text)
           l == Len(port)
<1>1. k \in Nat /\ k <= MAX_CALLS /\ (pc # "idle" => k + 1 <= MAX_CALLS)
    BY Sizes DEF Counts
<1>2. n \in Nat /\ n <= Longest /\ at \in Nat /\ at >= 1 /\ at - 1 <= n /\ (pc = "idle" => at = 1)
    BY Sizes DEF Counts
<1>3. keys - l \in Nat /\ keys - l <= MAX_KEYS
    BY Sizes DEF Counts
<1>4. Used = u + (at - 1) + (keys - l)
    BY DEF Used
<1> HIDE DEF k, n, l
<1>5. u \in Nat /\ u <= Longest * MAX_CALLS /\ (pc # "idle" => u + Longest <= Longest * MAX_CALLS)
    <2>1. u \in Nat /\ Longest * (k + 1) = u + Longest
        BY <1>1, Sizes
    <2>2. Longest * k <= Longest * MAX_CALLS
        BY <1>1, Sizes, TimesMonotonic
    <2>3. ASSUME k + 1 <= MAX_CALLS PROVE Longest * (k + 1) <= Longest * MAX_CALLS
        <3> DEFINE k1 == k + 1
        <3>1. k1 \in Nat /\ k1 <= MAX_CALLS
            BY <1>1, <2>3
        <3> HIDE DEF k1
        <3>2. Longest * k1 <= Longest * MAX_CALLS
            BY <3>1, Sizes, TimesMonotonic
        <3> QED BY <3>2 DEF k1
    <2> QED BY <1>1, <2>1, <2>2, <2>3
<1> DEFINE v == Longest * MAX_CALLS
<1>6. v \in Nat
    BY Sizes
<1>7. u \in Nat /\ u <= v /\ (pc # "idle" => u + Longest <= v)
    BY <1>5
<1> HIDE DEF u, v
<1>8. Used \in Nat /\ Used <= v + MAX_KEYS
    <2>1. CASE pc = "idle"
        BY <1>2, <1>3, <1>4, <1>6, <1>7, <2>1, Sizes
    <2>2. CASE pc # "idle"
        BY <1>2, <1>3, <1>4, <1>6, <1>7, <2>2, Sizes
    <2> QED BY <2>1, <2>2
<1> QED BY <1>8 DEF v

(* The cursor is past the last line by no more than what was written, and   *)
(* one line more between a new line and the test for the last.              *)
Reach ==
    /\ con.cursorPosition <= Bottom + Used + (IF pc \in {"test", "reset"} THEN COLUMNS ELSE 0)
    /\ reg <= Bottom + Used /\ pos <= Bottom + Used

Clocked ==
    /\ irr \subseteq {0, 1} /\ isr \subseteq {0, 1} /\ IF_ \in {"boot", "on", "off"}
    /\ ticks \in Nat /\ pulses \in 0 .. MAX_TICKS
    /\ ticks + (IF 0 \in irr THEN 1 ELSE 0) <= pulses

TInv == Intact(con) /\ reg \in Nat /\ pos \in Nat /\ KeyTypes /\ Counts /\ Reach /\ Clocked

LEMMA TInvType == TInv => TypeOK
<1> SUFFICES ASSUME TInv PROVE TypeOK
    OBVIOUS
<1>1. con.cursorPosition \in Nat /\ reg \in Nat /\ pos \in Nat
    BY DEF TInv, Intact, IsConsole
<1> DEFINE v == Longest * MAX_CALLS
<1>2. Used \in Nat /\ Used <= v + MAX_KEYS /\ v \in Nat /\ LIMIT >= Bottom + COLUMNS + v + MAX_KEYS
    BY UsedBound, LimitIs, Sizes DEF TInv
<1> HIDE DEF v
<1>3. /\ con.cursorPosition <= Bottom + Used + COLUMNS
      /\ reg <= Bottom + Used /\ pos <= Bottom + Used
    BY <1>1, <1>2, Sizes DEF TInv, Reach
<1>4. con.cursorPosition \in 0 .. LIMIT /\ reg \in 0 .. LIMIT /\ pos \in 0 .. LIMIT
    BY <1>1, <1>2, <1>3, Sizes
<1>5. at \in Nat /\ pc \in PCs
    BY Sizes DEF TInv, Counts
<1>6. ticks \in 0 .. MAX_TICKS
    BY ClockAssumption DEF TInv, Clocked
<1> QED BY <1>4, <1>5, <1>6 DEF TInv, TypeOK, Intact, IsConsole, KeyTypes, Clocked

Steps == /\ text' = text /\ calls' = calls /\ keys' = keys /\ port' = port
         /\ UNCHANGED <<flags, down, capsOn, irr, isr, IF_, ticks, pulses>>

LEMMA UsedStep ==
    ASSUME Counts, Steps, pc # "idle", pc' # "idle", NEW d \in {0, 1}, at' = at + d
    PROVE  Used' = Used + d /\ Used \in Nat
<1>1. at \in Nat /\ keys - Len(port) \in Nat /\ calls \in Nat /\ calls >= 1
    BY Sizes DEF Counts
<1>2. Used \in Nat
    BY UsedBound
<1> DEFINE u == Longest * (calls - 1)
           l == keys - Len(port)
<1>3. u \in Nat
    BY <1>1, Sizes
<1>4. Used = u + (at - 1) + l /\ Used' = u + (at' - 1) + l
    BY DEF Used, Steps
<1>5. l \in Nat
    BY <1>1
<1> HIDE DEF u, l
<1> QED BY <1>1, <1>2, <1>3, <1>4, <1>5

(* The steps of fb_write.                                                   *)
LEMMA MainSteps ==
    ASSUME TInv, \/ LoopNewLine \/ LoopCell \/ WriteCell \/ LoopEnd \/ Load \/ Store
                 \/ StoreLine \/ Test \/ Reset \/ Arg \/ SelectHigh \/ DataHigh \/ SelectLow \/ DataLow
    PROVE  TInv'
<1> DEFINE p == con.cursorPosition
<1>1. /\ Intact(con) /\ reg \in Nat /\ pos \in Nat /\ p \in Nat /\ Counts /\ Clocked
      /\ at \in Nat /\ Len(text) \in Nat
    <2>1. Intact(con) /\ reg \in Nat /\ pos \in Nat /\ Counts /\ Clocked
        BY DEF TInv
    <2>2. p \in Nat
        BY <2>1 DEF Intact, IsConsole
    <2>3. Len(text) \in 0 .. Longest /\ at \in 1 .. Len(text) + 1 /\ Longest \in Nat
        BY <2>1, Sizes DEF Counts
    <2> QED BY <2>1, <2>2, <2>3
<1>2. Used \in Nat
    BY <1>1, UsedBound
<1>3. Steps /\ pc # "idle" /\ pc' # "idle"
    BY DEF LoopNewLine, LoopCell, WriteCell, LoopEnd, Load, Store, StoreLine, Test, Reset, Arg,
           SelectHigh, DataHigh, SelectLow, DataLow, Step, Steps, kbd, cpu, hist
<1>4. Clocked' /\ KeyTypes'
    BY <1>3 DEF TInv, Clocked, KeyTypes, Steps
<1>5. Counts'
    <2>1. /\ pc' \in PCs \ {"idle"}
          /\ pc' \in {"cell", "load", "store", "line", "test", "reset", "arg"} => at' <= Len(text')
        BY <1>1, <1>3 DEF LoopNewLine, LoopCell, WriteCell, LoopEnd, Load, Store, StoreLine, Test, Reset, Arg,
           SelectHigh, DataHigh, SelectLow, DataLow, Step, Steps, Counts, PCs
    <2>2. at' \in 1 .. Len(text) + 1
        <3>1. at' = at \/ (at' = at + 1 /\ at <= Len(text))
            BY <1>1 DEF LoopNewLine, LoopCell, WriteCell, LoopEnd, Load, Store, StoreLine, Test, Reset, Arg,
                        SelectHigh, DataHigh, SelectLow, DataLow, Step, Counts
        <3>2. at \in 1 .. Len(text) + 1
            BY <1>1 DEF Counts
        <3> QED BY <1>1, <3>1, <3>2
    <2> QED BY <1>1, <1>3, <2>1, <2>2 DEF Counts, Steps
<1>6. ASSUME NEW d \in {0, 1}, at' = at + d PROVE Used' = Used + d
    BY <1>1, <1>3, <1>6, UsedStep
<1>7. at' = at => Used' = Used
    <2>1. at' = at => at' = at + 0
        BY <1>1
    <2> QED BY <1>2, <1>6, <2>1
<1>8. at' = at + 1 => Used' = Used + 1
    BY <1>6
<1>9. /\ p <= Bottom + Used + (IF pc \in {"test", "reset"} THEN COLUMNS ELSE 0)
      /\ reg <= Bottom + Used /\ pos <= Bottom + Used
    BY DEF TInv, Reach
<1> DEFINE OK == /\ Intact(con') /\ reg' \in Nat /\ pos' \in Nat
                 /\ con'.cursorPosition <= Bottom + Used' + (IF pc' \in {"test", "reset"} THEN COLUMNS ELSE 0)
                 /\ reg' <= Bottom + Used' /\ pos' <= Bottom + Used'
<1>10. CASE LoopNewLine \/ LoopCell \/ LoopEnd \/ Load \/ Arg
    <2>1. /\ pc \in {"loop", "load", "arg"} /\ pc' \in {"line", "cell", "high", "store"} /\ con' = con
          /\ reg' \in {reg, p} /\ pos' \in {pos, p} /\ at' = at
        BY <1>10 DEF LoopNewLine, LoopCell, LoopEnd, Load, Arg, Step, Here
    <2>2. p <= Bottom + Used /\ Used' = Used
        BY <1>2, <1>7, <1>9, <2>1, Sizes
    <2>3. OK
        BY <1>1, <1>2, <1>9, <2>1, <2>2, Sizes
    <2> QED BY <1>4, <1>5, <2>3 DEF TInv, Reach
<1>11. CASE WriteCell
    <2>1. pc = "cell" /\ pc' = "load" /\ con' = fb_write_cell(con, reg, text[at]) /\ reg' = reg /\ pos' = pos /\ at' = at
        BY <1>11 DEF WriteCell, Step
    <2>2. Intact(con') /\ con'.cursorPosition = p
        <3>1. Intact(con')
            BY <1>1, <2>1, CellChanges
        <3> QED BY <1>1, <2>1, <3>1, CellMeans DEF Intact
    <2>3. OK
        BY <1>1, <1>2, <1>7, <1>9, <2>1, <2>2, Sizes
    <2> QED BY <1>4, <1>5, <2>3 DEF TInv, Reach
<1>12. CASE Store
    <2>1. pc' = "loop" /\ con' = Moved(reg + 1) /\ reg' = reg /\ pos' = pos /\ at' = at + 1
        BY <1>12 DEF Store, Step
    <2>2. Intact(con') /\ con'.cursorPosition = reg + 1
        <3> DEFINE r == reg + 1
        <3>1. r \in Nat
            BY <1>1
        <3> HIDE DEF r
        <3>2. con' = [con EXCEPT !.cursorPosition = r]
            BY <2>1 DEF Moved, r
        <3>3. Intact(con') /\ con'.cursorPosition = r
            BY <1>1, <3>1, <3>2, PositionChanges
        <3> QED BY <3>3 DEF r
    <2>3. OK
        BY <1>1, <1>2, <1>8, <1>9, <2>1, <2>2, Sizes
    <2> QED BY <1>4, <1>5, <2>3 DEF TInv, Reach
<1>13. CASE StoreLine
    <2>1. pc' = "test" /\ con' = Moved(NextLine(reg)) /\ reg' = reg /\ pos' = pos /\ at' = at
        BY <1>13 DEF StoreLine, Step
    <2>2. NextLine(reg) \in Nat /\ NextLine(reg) <= reg + COLUMNS
        BY <1>1, NextLineType, LineBounds
    <2>3. Intact(con') /\ con'.cursorPosition = NextLine(reg)
        BY <1>1, <2>1, <2>2, PositionChanges DEF Moved
    <2>4. OK
        BY <1>1, <1>2, <1>7, <1>9, <2>1, <2>2, <2>3, Sizes
    <2> QED BY <1>4, <1>5, <2>4 DEF TInv, Reach
<1>14. CASE Test
    <2>1. /\ pc = "test" /\ pc' = IF OffScreen(p) THEN "reset" ELSE "arg"
          /\ con' = con /\ reg' = reg /\ pos' = pos /\ at' = at
        BY <1>14 DEF Test, Step, Here
    <2>2. ~ OffScreen(p) => p <= Bottom
        BY <1>1, LineBounds
    <2>3. OK
        <3>1. CASE OffScreen(p)
            BY <1>1, <1>2, <1>7, <1>9, <2>1, <3>1, Sizes
        <3>2. CASE ~ OffScreen(p)
            BY <1>1, <1>2, <1>7, <1>9, <2>1, <2>2, <3>2, Sizes
        <3> QED BY <3>1, <3>2
    <2> QED BY <1>4, <1>5, <2>3 DEF TInv, Reach
<1>15. CASE Reset
    <2>1. pc' = "arg" /\ con' = Moved(0) /\ reg' = reg /\ pos' = pos /\ at' = at
        BY <1>15 DEF Reset, Step
    <2>2. Intact(con') /\ con'.cursorPosition = 0
        BY <1>1, <2>1, PositionChanges DEF Moved
    <2>3. OK
        BY <1>1, <1>2, <1>7, <1>9, <2>1, <2>2, Sizes
    <2> QED BY <1>4, <1>5, <2>3 DEF TInv, Reach
<1>16. CASE SelectHigh \/ DataHigh \/ SelectLow \/ DataLow
    <2>1. /\ pc \in {"high", "hbyte", "low", "lbyte"} /\ pc' \in {"hbyte", "low", "lbyte", "loop"}
          /\ reg' = reg /\ pos' = pos /\ at' \in {at, at + 1}
          /\ con' \in {Select(con, "high"), Data(con, High(pos)), Select(con, "low"), Data(con, Low(pos))}
        BY <1>16 DEF SelectHigh, DataHigh, SelectLow, DataLow, Step
    <2>2. High(pos) \in 0 .. BYTE - 1 /\ Low(pos) \in 0 .. BYTE - 1
        BY <1>1, BytesRange
    <2>3. Intact(con') /\ con'.cursorPosition = p
        <3>0. IsConsole(con)
            BY <1>1 DEF Intact
        <3>1. Intact(con')
            BY <1>1, <2>1, <2>2, SelectChanges, DataChanges
        <3>2. con'.cursorPosition = p
            BY <2>1, <3>0, SelectMeans, DataMeans
        <3> QED BY <3>1, <3>2
    <2>4. OK
        BY <1>1, <1>2, <1>7, <1>8, <1>9, <2>1, <2>3, Sizes
    <2> QED BY <1>4, <1>5, <2>4 DEF TInv, Reach
<1> QED BY <1>10, <1>11, <1>12, <1>13, <1>14, <1>15, <1>16

(* A call begins, and returns.                                              *)
LEMMA CallStep ==
    ASSUME TInv, NEW buf \in Texts, Call(buf)
    PROVE  TInv'
<1>1. /\ pc = "idle" /\ pc' = "loop" /\ text' = buf /\ at' = 1 /\ calls < MAX_CALLS /\ calls' = calls + 1
      /\ UNCHANGED <<con, flags, port, down, capsOn, keys, irr, isr, IF_, ticks, pulses, reg, pos>>
    BY DEF Call, kbd, cpu
<1>2. /\ Intact(con) /\ reg \in Nat /\ pos \in Nat /\ KeyTypes /\ Counts /\ Reach /\ Clocked
    BY DEF TInv
<1>3. Len(buf) \in 0 .. Longest
    <2>1. Len(buf) \in Nat
        BY TextAssumption
    <2> QED BY <2>1, LongestIs
<1>4. Counts'
    BY <1>1, <1>2, <1>3, Sizes DEF Counts, PCs
<1>5. Used' = Used
    <2>1. calls' - 1 = calls /\ at = 1
        BY <1>1, <1>2, Sizes DEF Counts
    <2> QED BY <1>1, <2>1 DEF Used
<1>6. Reach'
    BY <1>1, <1>2, <1>5 DEF Reach
<1>7. KeyTypes' /\ Clocked'
    BY <1>1, <1>2 DEF KeyTypes, Clocked
<1> QED BY <1>1, <1>2, <1>4, <1>6, <1>7 DEF TInv

LEMMA ReturnStep ==
    ASSUME TInv, Return
    PROVE  TInv'
<1>1. /\ pc = "lbyte" /\ pc' = "idle" /\ text' = << >> /\ at' = 1 /\ calls' = calls
      /\ con' = Data(con, Low(pos)) /\ reg' = 0 /\ pos' = 0
      /\ UNCHANGED <<flags, port, down, capsOn, keys, irr, isr, IF_, ticks, pulses>>
    BY DEF Return, kbd, cpu
<1>2. /\ Intact(con) /\ reg \in Nat /\ pos \in Nat /\ KeyTypes /\ Counts /\ Reach /\ Clocked
    BY DEF TInv
<1>3. Intact(con') /\ con'.cursorPosition = con.cursorPosition
    <2>1. Low(pos) \in 0 .. BYTE - 1 /\ IsConsole(con)
        BY <1>2, BytesRange DEF Intact
    <2> QED BY <1>1, <1>2, <2>1, DataChanges, DataMeans
<1>4. Counts'
    <2>1. Len(text') = 0
        BY <1>1
    <2> QED BY <1>1, <1>2, <2>1, Sizes DEF Counts, PCs
<1>5. Used \in Nat /\ Used' >= Used /\ Used' \in Nat
    <2> DEFINE u == Longest * (calls - 1)
               l == keys - Len(port)
    <2>1. calls \in Nat /\ calls >= 1 /\ l \in Nat /\ at \in Nat /\ at - 1 <= Longest /\ at >= 1
        BY <1>1, <1>2, Sizes DEF Counts
    <2>2. u \in Nat /\ Longest * calls = u + Longest
        BY <2>1, Sizes
    <2>3. Used = u + (at - 1) + l
        BY <1>1 DEF Used
    <2>4. Used' = Longest * calls + (1 - 1) + l
        BY <1>1 DEF Used
    <2> HIDE DEF u, l
    <2>5. Used' = u + Longest + l
        BY <2>1, <2>2, <2>4, Sizes
    <2> QED BY <2>1, <2>2, <2>3, <2>5, Sizes
<1>6. Reach'
    <2>1. con.cursorPosition \in Nat /\ con.cursorPosition <= Bottom + Used
        BY <1>1, <1>2, <1>5, Sizes DEF Reach, Intact, IsConsole
    <2> DEFINE p == con.cursorPosition
               u == Used
               v == Used'
    <2>2. p \in Nat /\ u \in Nat /\ v \in Nat /\ u <= v /\ p <= Bottom + u /\ Bottom \in Nat
        BY <1>5, <2>1, Sizes
    <2>3. con'.cursorPosition = p /\ v = Used'
        BY <1>3
    <2> HIDE DEF p, u, v
    <2>4. p <= Bottom + v + 0 /\ 0 <= Bottom + v
        BY <2>2
    <2>5. con'.cursorPosition <= Bottom + Used' + 0 /\ 0 <= Bottom + Used'
        BY <2>3, <2>4
    <2> QED BY <1>1, <2>5 DEF Reach
<1>7. KeyTypes' /\ Clocked'
    BY <1>1, <1>2 DEF KeyTypes, Clocked
<1> QED BY <1>1, <1>3, <1>4, <1>6, <1>7 DEF TInv

(* A key goes down or up, and has not been read yet.                        *)
LEMMA KeyStep ==
    ASSUME TInv, KInv, NEW k \in Keys, KeyEvent(k)
    PROVE  TInv'
<1>1. /\ keys < MAX_KEYS /\ keys' = keys + 1
      /\ port' = Append(port, [key |-> k, up |-> k \in down])
      /\ irr' = IF port = << >> THEN irr \cup {1} ELSE irr
      /\ UNCHANGED <<con, calls, isr, IF_, ticks, pulses, pc, text, at, reg, pos>>
    BY DEF KeyEvent, cpu, main, hist
<1>2. /\ Intact(con) /\ reg \in Nat /\ pos \in Nat /\ Counts /\ Reach /\ Clocked
    BY DEF TInv
<1>3. Len(port') = Len(port) + 1 /\ Len(port) \in Nat
    <2> DEFINE code == [key |-> k, up |-> k \in down]
    <2>1. code \in Codes /\ port \in Seq(Codes)
        BY DEF Codes, TInv, KeyTypes
    <2> HIDE DEF code
    <2> QED BY <1>1, <2>1 DEF code
<1>4. keys \in Nat /\ keys' - Len(port') = keys - Len(port)
    BY <1>1, <1>2, <1>3, Sizes DEF Counts
<1>5. Counts'
    <2>1. keys' \in 0 .. MAX_KEYS /\ Len(port') \in 0 .. keys'
        BY <1>1, <1>2, <1>3, Sizes DEF Counts
    <2> QED BY <1>1, <1>2, <2>1 DEF Counts
<1>6. Used' = Used
    BY <1>1, <1>4 DEF Used
<1>7. Reach'
    BY <1>1, <1>2, <1>6 DEF Reach
<1>8. Clocked'
    <2>1. irr' \subseteq {0, 1} /\ (0 \in irr' <=> 0 \in irr)
        BY <1>1, <1>2 DEF Clocked
    <2> QED BY <1>1, <1>2, <2>1 DEF Clocked
<1>9. KeyTypes'
    BY KeyEventStep DEF KInv
<1> QED BY <1>1, <1>2, <1>5, <1>7, <1>8, <1>9 DEF TInv

LEMMA AcknowledgeLines ==
    ASSUME NEW i, NEW S \in SUBSET {0, 1}
    PROVE  pic_acknowledge(i, S) \subseteq {0, 1}
BY DEF pic_acknowledge

LEMMA PulseStep ==
    ASSUME TInv, TimerPulse
    PROVE  TInv'
<1>1. /\ pulses < MAX_TICKS /\ pulses' = pulses + 1 /\ irr' = irr \cup {0}
      /\ UNCHANGED <<con, calls, isr, IF_, ticks, pc, text, at, reg, pos, flags, port, down, capsOn, keys>>
    BY DEF TimerPulse, cpu, main, hist, kbd
<1>2. /\ Intact(con) /\ reg \in Nat /\ pos \in Nat /\ KeyTypes /\ Counts /\ Reach /\ Clocked
    BY DEF TInv
<1>3. Clocked'
    <2>1. ticks \in Nat /\ pulses \in Nat /\ ticks <= pulses /\ MAX_TICKS \in Nat
        BY <1>2, ClockAssumption, WordPositive DEF Clocked
    <2>2. ticks' + 1 <= pulses' /\ pulses' \in 0 .. MAX_TICKS /\ 0 \in irr'
        BY <1>1, <2>1
    <2> QED BY <1>1, <1>2, <2>2 DEF Clocked
<1>4. KeyTypes' /\ Counts' /\ Reach'
    BY <1>1, <1>2 DEF KeyTypes, Counts, Reach, Used
<1> QED BY <1>1, <1>2, <1>3, <1>4 DEF TInv

(* The clock is drawn.                                                      *)
LEMMA TickStep ==
    ASSUME TInv, TimerInterrupt
    PROVE  TInv'
<1>1. /\ 0 \in irr /\ con' = fb_clock_write(con, i2a(ticks)) /\ ticks' = ticks + 1 /\ irr' = irr \ {0}
      /\ isr' = pic_acknowledge(32 + 0, isr \cup {0})
      /\ UNCHANGED <<calls, IF_, pulses, pc, text, at, reg, pos, flags, port, down, capsOn, keys>>
    BY DEF TimerInterrupt, interrupt_handler, Takes, timer_callback, cpu, main, hist, kbd
<1>2. /\ Intact(con) /\ reg \in Nat /\ pos \in Nat /\ KeyTypes /\ Counts /\ Reach /\ Clocked
    BY DEF TInv
<1>3. ticks \in Nat /\ pulses \in 0 .. MAX_TICKS /\ ticks + 1 <= pulses /\ MAX_TICKS \in Nat
    BY <1>1, <1>2, ClockAssumption, WordPositive DEF Clocked
<1>4. ticks \in 0 .. MAX_TICKS
    BY <1>3
<1>5. Intact(con') /\ con'.cursorPosition = con.cursorPosition
    <2>1. IsConsole(con)
        BY <1>2 DEF Intact
    <2> QED BY <1>1, <1>2, <1>4, <2>1, ClockChanges, ClockMeans
<1>6. Clocked'
    <2>1. isr' \subseteq {0, 1}
        BY <1>1, <1>2, AcknowledgeLines DEF Clocked
    <2>2. 0 \notin irr' /\ ticks' \in Nat /\ ticks' <= pulses
        BY <1>1, <1>3
    <2> QED BY <1>1, <1>2, <2>1, <2>2 DEF Clocked
<1>7. KeyTypes' /\ Counts' /\ Reach'
    BY <1>1, <1>2, <1>5 DEF KeyTypes, Counts, Reach, Used
<1> QED BY <1>1, <1>2, <1>5, <1>6, <1>7 DEF TInv

(* A key is read, and perhaps echoed.                                       *)
LEMMA EchoTypes ==
    ASSUME TInv, KInv, KeyboardInterrupt
    PROVE  TInv'
<1> DEFINE ch == convertToAscii(Head(port), flags)
<1>1. /\ port # << >> /\ port' = Tail(port)
      /\ con' = IF ch = NUL THEN con ELSE fb_write_one(con, ch)
      /\ irr' \in {irr, irr \ {1}}
      /\ isr' = pic_acknowledge(32 + 1, isr \cup {1})
      /\ UNCHANGED <<calls, IF_, ticks, pulses, pc, text, at, reg, pos, keys>>
    BY DEF KeyboardInterrupt, interrupt_handler, echo_keyboard, cpu, main
<1>2. /\ Intact(con) /\ reg \in Nat /\ pos \in Nat /\ Counts /\ Reach /\ Clocked
    BY DEF TInv
<1> HIDE DEF ch
<1>3. Len(port') = Len(port) - 1 /\ Len(port) \in Nat /\ Len(port) >= 1
    <2>1. port \in Seq(Codes)
        BY DEF TInv, KeyTypes
    <2> QED BY <1>1, <2>1, EmptySeq, HeadTailProperties
<1>4. Counts'
    <2>1. Len(port') \in 0 .. keys'
        BY <1>1, <1>2, <1>3, Sizes DEF Counts
    <2> QED BY <1>1, <1>2, <2>1 DEF Counts
<1>5. Used' = Used + 1 /\ Used \in Nat
    <2>1. Used \in Nat
        BY <1>2, UsedBound
    <2> DEFINE u == Longest * (IF pc = "idle" THEN calls ELSE calls - 1)
    <2>2. u \in Nat
        <3>1. (IF pc = "idle" THEN calls ELSE calls - 1) \in Nat
            BY <1>2, Sizes DEF Counts
        <3> QED BY <3>1, Sizes
    <2>3. keys \in Nat /\ at \in Nat
        BY <1>2, Sizes DEF Counts
    <2>4. Used = u + (at - 1) + (keys - Len(port)) /\ Used' = u + (at - 1) + (keys - (Len(port) - 1))
        BY <1>1, <1>3 DEF Used
    <2> HIDE DEF u
    <2> QED BY <1>3, <2>1, <2>2, <2>3, <2>4
<1> DEFINE x == Used + (IF pc \in {"test", "reset"} THEN COLUMNS ELSE 0)
<1>6. x \in Nat
    BY <1>5, Sizes
<1>7. con.cursorPosition \in Nat /\ con.cursorPosition <= Bottom + x
    BY <1>2, <1>5, Sizes DEF Reach, Intact, IsConsole
<1>8. Intact(con') /\ con'.cursorPosition \in Nat /\ con'.cursorPosition <= Bottom + x + 1
    <2> HIDE DEF x
    <2>1. CASE ch = NUL
        BY <1>1, <1>2, <1>6, <1>7, <2>1, Sizes
    <2>2. CASE ch # NUL
        <3>1. Intact(con') /\ con'.cursorPosition = After(con.cursorPosition, ch)
            BY <1>1, <1>2, <2>2, WriteOneChanges
        <3> QED BY <1>6, <1>7, <3>1, AfterBound
    <2> QED BY <2>1, <2>2
<1>9. Reach'
    BY <1>1, <1>2, <1>5, <1>8, Sizes DEF Reach
<1>10. Clocked'
    <2>1. isr' \subseteq {0, 1}
        BY <1>1, <1>2, AcknowledgeLines DEF Clocked
    <2>2. irr' \subseteq {0, 1} /\ (0 \in irr' <=> 0 \in irr)
        BY <1>1, <1>2 DEF Clocked
    <2> QED BY <1>1, <1>2, <2>1, <2>2 DEF Clocked
<1>11. KeyTypes'
    BY EchoStep DEF KInv, KeyboardInterrupt, interrupt_handler
<1> QED BY <1>1, <1>2, <1>4, <1>8, <1>9, <1>10, <1>11 DEF TInv

LEMMA NextTypes == KInv /\ TInv /\ [Next]_vars => TInv'
<1> SUFFICES ASSUME KInv, TInv, [Next]_vars PROVE TInv'
    OBVIOUS
<1>1. CASE UNCHANGED <<con, flags, port, down, capsOn, keys, irr, isr, IF_, ticks, pulses, main, calls>>
    BY <1>1 DEF TInv, Intact, IsConsole, KeyTypes, Counts, Reach, Used, Clocked, main
<1>2. CASE \/ LoopNewLine \/ LoopCell \/ WriteCell \/ LoopEnd \/ Load \/ Store
           \/ StoreLine \/ Test \/ Reset \/ Arg \/ SelectHigh \/ DataHigh \/ SelectLow \/ DataLow
    BY <1>2, MainSteps
<1>3. CASE \E from, to \in {"boot", "on", "off"} : Interrupts(from, to)
    <2>1. /\ UNCHANGED <<con, flags, port, down, capsOn, keys, irr, isr, ticks, pulses, main, calls>>
          /\ IF_' \in {"boot", "on", "off"}
        BY <1>3 DEF Interrupts, kbd, hist
    <2> QED BY <2>1 DEF TInv, Intact, IsConsole, KeyTypes, Counts, Reach, Used, Clocked, main
<1>4. CASE SerialWrite \/ SerialPort
    BY <1>1, <1>4 DEF SerialWrite, SerialPort, Greeting, kbd, hist
<1>5. CASE \E k \in Pressable : KeyEvent(k)
    BY <1>5, KeysAssumption, KeyStep
<1>6. CASE Sti \/ Cli \/ PicInit
    BY <1>3, <1>6 DEF Sti, Cli, PicInit
<1>7. CASE UNCHANGED vars
    BY <1>1, <1>7 DEF vars, kbd, hist, cpu
<1> QED
    BY <1>2, <1>4, <1>5, <1>6, <1>7, CallStep, ReturnStep, PulseStep, TickStep, EchoTypes DEF Next, Main

LEMMA InitTypes == Init => TInv
<1> SUFFICES ASSUME Init PROVE TInv
    OBVIOUS
<1> DEFINE x == [i \in -1 .. LIMIT |-> IF i = -1 THEN "memory" ELSE " "]
<1>1. con = [cells |-> x, cursorPosition |-> 0, index |-> "high", high |-> 0, low |-> BYTE - 1]
    BY DEF Init, Cleared
<1>2. DOMAIN x = -1 .. LIMIT /\ x = [i \in -1 .. LIMIT |-> x[i]] /\ x[-1] = "memory"
    <2>1. -1 \in -1 .. LIMIT
        BY LimitAssumption
    <2>2. x[-1] = "memory"
        BY <2>1
    <2> QED BY <2>2
<1> HIDE DEF x
<1>3. 0 \in 0 .. BYTE - 1 /\ BYTE - 1 \in 0 .. BYTE - 1
    BY SizeAssumption
<1>4. Intact(con)
    BY <1>1, <1>2, <1>3 DEF Intact, IsConsole
<1>5. KeyTypes
    BY InitKeyboard DEF KInv
<1>6. Len(port) = 0 /\ Len(text) = 0
    BY DEF Init
<1>7. Counts
    BY <1>6, Sizes DEF Init, Counts, PCs
<1>8. Used \in Nat
    BY <1>7, UsedBound
<1>9. Reach
    BY <1>1, <1>8, Sizes DEF Reach, Init
<1>10. Clocked
    BY ClockAssumption, WordPositive DEF Clocked, Init
<1> QED BY <1>4, <1>5, <1>7, <1>9, <1>10 DEF TInv, Init

(* The cursor, the position fb_write holds in a register and the one it     *)
(* hands to fb_move_cursor stay within LIMIT, nothing before the frame      *)
(* buffer is written to and the clock stays in its line, for every screen,  *)
(* every text and every order of calls, keys and ticks.                     *)
THEOREM ScreenContained == Spec => []TypeOK
BY TInvType, NextTypes, InitTypes, InitKeyboard, NextKeyboard, PTL DEF Spec

-----------------------------------------------------------------------------
(* An interrupted fb_write ends as an undisturbed one: HInv is inductive    *)

(* The consoles fb_write goes through undisturbed.                          *)
Puts(W, c, buf) ==
    /\ W[0] = c /\ \A n \in 1 .. Len(buf) : W[n] = Put(W[n - 1], buf[n])
    /\ fb_write(c, buf) = Follow(W[Len(buf)])

(* fb_write's function is what its equation says.                           *)
LEMMA fb_writeDef ==
    ASSUME NEW c, NEW buf, Len(buf) \in Nat
    PROVE  \E W : Puts(W, c, buf)
<1> DEFINE n == Len(buf)
<1>0. n \in Nat
    OBVIOUS
<1> HIDE DEF n
<1> DEFINE e(f, i) == IF i = 0 THEN c ELSE Put(f[i - 1], buf[i])
           good(f, k) == \A i \in 0 .. n : i <= k => f[i] = e(f, i)
           T == {k \in Nat : \E f : good(f, k)}
<1>1. 0 \in T
    <2>1. good([i \in 0 .. n |-> c], 0)
        BY <1>0
    <2> QED BY <2>1
<1>2. \A k \in T : k + 1 \in T
    <2> SUFFICES ASSUME NEW k \in T PROVE k + 1 \in T
        OBVIOUS
    <2>1. PICK f : good(f, k)
        OBVIOUS
    <2> DEFINE g == [i \in 0 .. n |-> e(f, i)]
    <2>2. ASSUME NEW i \in 0 .. n, i <= k + 1 PROVE g[i] = e(g, i)
        <3>1. CASE i = 0
            BY <3>1
        <3>2. CASE i # 0
            <4>1. i - 1 \in 0 .. n /\ i - 1 <= k
                BY <1>0, <2>2, <3>2
            <4>2. g[i - 1] = f[i - 1]
                BY <2>1, <4>1
            <4> QED BY <3>2, <4>2
        <3> QED BY <3>1, <3>2
    <2>3. good(g, k + 1)
        BY <2>2
    <2> HIDE DEF g
    <2>4. \E f_ : good(f_, k + 1)
        BY <2>3
    <2> QED BY <2>4
<1>3. T = Nat
    <2> HIDE DEF T
    <2>1. T \in SUBSET Nat
        BY DEF T
    <2> QED BY <1>1, <1>2, <2>1, NatInd
<1>4. PICK f : good(f, n)
    BY <1>0, <1>3
<1> DEFINE h == [i \in 0 .. n |-> e(f, i)]
<1>5. \A i \in 0 .. n : h[i] = f[i]
    BY <1>0, <1>4
<1>6. \A i \in 0 .. n : e(f, i) = e(h, i)
    BY <1>0, <1>5
<1>7. h = [i \in 0 .. n |-> e(h, i)]
    BY <1>6
<1> HIDE DEF h
<1> DEFINE W == CHOOSE W : W = [i \in 0 .. n |-> IF i = 0 THEN c ELSE Put(W[i - 1], buf[i])]
<1>8. W = [i \in 0 .. n |-> IF i = 0 THEN c ELSE Put(W[i - 1], buf[i])]
    BY <1>7, Zenon
<1>9. fb_write(c, buf) = Follow(W[n])
    BY Zenon DEF fb_write, n
<1> HIDE DEF W
<1>10. \A i \in 0 .. n : W[i] = IF i = 0 THEN c ELSE Put(W[i - 1], buf[i])
    BY <1>8, Zenon
<1>11. 0 \in 0 .. n /\ \A i \in 1 .. n : i \in 0 .. n /\ i # 0
    BY <1>0
<1>12. W[0] = c /\ \A i \in 1 .. n : W[i] = Put(W[i - 1], buf[i])
    BY <1>10, <1>11, Zenon
<1>13. Puts(W, c, buf)
    BY <1>9, <1>12, Zenon DEF Puts, n
<1> QED BY <1>13, Zenon

LEMMA PutsIntact ==
    ASSUME NEW W, NEW c, NEW buf, Intact(c), Len(buf) \in Nat, Puts(W, c, buf)
    PROVE  \A n \in 0 .. Len(buf) : Intact(W[n])
<1> DEFINE l == Len(buf)
           T == {n \in Nat : n <= l => Intact(W[n])}
<1>1. W[0] = c /\ \A n \in 1 .. l : W[n] = Put(W[n - 1], buf[n])
    BY DEF Puts
<1>2. l \in Nat
    OBVIOUS
<1> HIDE DEF l
<1>3. 0 \in T
    BY <1>1
<1>4. \A n \in T : n + 1 \in T
    <2> SUFFICES ASSUME NEW n \in T, n + 1 <= l PROVE Intact(W[n + 1])
        OBVIOUS
    <2>1. n + 1 \in 1 .. l /\ (n + 1) - 1 = n /\ n <= l
        BY <1>2
    <2>2. W[n + 1] = Put(W[n], buf[n + 1]) /\ Intact(W[n])
        BY <1>1, <2>1
    <2> QED BY <2>2, PutChanges
<1>5. T = Nat
    <2> HIDE DEF T
    <2>1. T \in SUBSET Nat
        BY DEF T
    <2> QED BY <1>3, <1>4, <2>1, NatInd
<1>6. \A n \in 0 .. l : Intact(W[n])
    BY <1>2, <1>5
<1> QED BY <1>6 DEF l

(* The same but for the clock.                                              *)
Agree(c, d) == \A i \in -1 .. LIMIT : i \notin ClockCells => c.cells[i] = d.cells[i]

Cursor(W, n) == W[n].cursorPosition

(* How far fb_write has come with W, what it does undisturbed: which of its *)
(* characters show, and where the cursor is.                                *)
Follows(W) ==
    /\ \A n \in 0 .. Len(text) : Intact(W[n])
    /\ \A n \in 1 .. Len(text) : W[n] = Put(W[n - 1], text[n])
    /\ \A n \in 1 .. Len(text) : text[n] # BS
    /\ expect = Follow(W[Len(text)])
    /\ pc \in {"load", "store"} => Agree(con, W[at])
    /\ pc \notin {"load", "store"} => Agree(con, W[at - 1])
    /\ pc \in {"loop", "cell", "line", "load", "store"} => Here = Cursor(W, at - 1)
    /\ pc \in {"test", "reset"} => Here = NextLine(Cursor(W, at - 1))
    /\ pc = "reset" => OffScreen(Here)
    /\ pc \in {"arg", "high", "hbyte", "low", "lbyte"} =>
          Here = IF at <= Len(text) THEN Cursor(W, at) ELSE Cursor(W, at - 1)
    /\ pc \in {"cell", "line", "store"} => reg = Cursor(W, at - 1)
    /\ pc \in {"line", "test", "reset", "arg", "high", "hbyte", "low", "lbyte"} /\ at <= Len(text) => text[at] = NL
    /\ pc \in {"cell", "load", "store"} => text[at] # NL

HInv == pc # "idle" /\ ~ echoed => \E W : Follows(W)

LEMMA FollowsStep ==
    ASSUME TInv, NEW W, Follows(W), at <= Len(text)
    PROVE  /\ at \in 1 .. Len(text) /\ at \in 0 .. Len(text) /\ at - 1 \in 0 .. Len(text)
           /\ Cursor(W, at - 1) \in Nat
           /\ text[at] = NL => W[at].cells = W[at - 1].cells
           /\ text[at] = NL => Cursor(W, at) = IF OffScreen(NextLine(Cursor(W, at - 1))) THEN 0
                                               ELSE NextLine(Cursor(W, at - 1))
           /\ text[at] # NL => Overwritten(W[at], W[at - 1], Cursor(W, at - 1), text[at])
           /\ text[at] # NL => Cursor(W, at) = Cursor(W, at - 1) + 1
<1> DEFINE l == Len(text)
           c == W[at - 1]
           ch == text[at]
<1>1. at \in 1 .. l + 1 /\ l \in Nat /\ at <= l
    BY Sizes DEF TInv, Counts
<1>2. at \in 1 .. l /\ at \in 0 .. l /\ at - 1 \in 0 .. l
    <2> HIDE DEF l
    <2> QED BY <1>1
<1>3. Intact(c) /\ W[at] = Put(c, ch) /\ ch # BS
    BY <1>2 DEF Follows
<1>4. Cursor(W, at - 1) = c.cursorPosition /\ Cursor(W, at) = W[at].cursorPosition
    BY DEF Cursor
<1> HIDE DEF c, ch
<1>5. /\ W[at].cursorPosition = After(c.cursorPosition, ch)
      /\ ch = NL => W[at].cells = c.cells
      /\ ch # NL => Overwritten(W[at], c, Cell(c.cursorPosition, ch), Shown(ch))
    BY <1>3, PutChanges
<1>6. /\ ch = NL => After(c.cursorPosition, ch) =
             IF OffScreen(NextLine(c.cursorPosition)) THEN 0 ELSE NextLine(c.cursorPosition)
      /\ ch # NL => After(c.cursorPosition, ch) = c.cursorPosition + 1
      /\ Cell(c.cursorPosition, ch) = c.cursorPosition /\ Shown(ch) = ch
    BY <1>3 DEF After, Cell, Shown
<1>7. c.cursorPosition \in Nat
    BY <1>3 DEF Intact, IsConsole
<1> QED BY <1>2, <1>4, <1>5, <1>6, <1>7 DEF c, ch

(* What the text and the writes are to be does not change in a call.        *)
Fixed(W) ==
    /\ \A n \in 0 .. Len(text) : Intact(W[n])
    /\ \A n \in 1 .. Len(text) : W[n] = Put(W[n - 1], text[n])
    /\ \A n \in 1 .. Len(text) : text[n] # BS
    /\ expect = Follow(W[Len(text)])

LEMMA FixedStays ==
    ASSUME NEW W, Follows(W), text' = text, expect' = expect
    PROVE  Fixed(W)'
BY DEF Follows, Fixed

LEMMA StepFollows ==
    ASSUME TInv, NEW W, Follows(W),
           \/ LoopNewLine \/ LoopCell \/ WriteCell \/ LoopEnd \/ Load \/ Store
           \/ StoreLine \/ Test \/ Reset \/ Arg \/ SelectHigh \/ DataHigh \/ SelectLow \/ DataLow
    PROVE  Follows(W)'
<1>1. text' = text /\ expect' = expect
    BY DEF LoopNewLine, LoopCell, WriteCell, LoopEnd, Load, Store, StoreLine, Test, Reset, Arg,
           SelectHigh, DataHigh, SelectLow, DataLow, Step, hist
<1>2. Fixed(W)'
    BY <1>1, FixedStays
<1>3. Intact(con) /\ IsConsole(con) /\ reg \in Nat /\ pos \in Nat /\ at \in Nat /\ Len(text) \in Nat
    BY Sizes DEF TInv, Intact, Counts
<1>4. /\ (at + 1) - 1 = at
      /\ pc \in {"cell", "load", "store", "line", "test", "reset", "arg"} => at <= Len(text)
    BY <1>3 DEF TInv, Counts
<1>5. CASE LoopNewLine \/ LoopCell
    <2>1. /\ pc = "loop" /\ con' = con /\ reg' = Here /\ at' = at
          /\ \/ pc' = "line" /\ text[at] = NL
             \/ pc' = "cell" /\ text[at] # NL
        BY <1>5 DEF LoopNewLine, LoopCell, Step
    <2>2. Here' = Here
        BY <2>1 DEF Here
    <2> QED BY <1>1, <1>2, <2>1, <2>2 DEF Follows, Fixed, Agree
<1>6. CASE WriteCell
    <2> DEFINE p == Cursor(W, at - 1)
    <2>1. /\ pc = "cell" /\ pc' = "load" /\ con' = fb_write_cell(con, reg, text[at]) /\ reg' = reg /\ at' = at
        BY <1>6 DEF WriteCell, Step
    <2>2. reg = p /\ text[at] # NL /\ Here = p /\ Agree(con, W[at - 1])
        BY <2>1 DEF Follows
    <2>3. Overwritten(W[at], W[at - 1], p, text[at])
        BY <1>4, <2>1, <2>2, FollowsStep
    <2>4. Overwritten(con', con, p, text[at])
        BY <1>3, <2>1, <2>2, CellChanges
    <2>5. Agree(con', W[at])
        BY <2>2, <2>3, <2>4 DEF Agree, Overwritten
    <2>6. Here' = p
        BY <1>3, <2>1, <2>2, CellMeans DEF Here
    <2> HIDE DEF p
    <2>7. Here' = Cursor(W, at - 1)
        BY <2>6 DEF p
    <2> QED BY <1>1, <1>2, <2>1, <2>2, <2>5, <2>7 DEF Follows, Fixed
<1>7. CASE LoopEnd \/ Arg
    <2>1. /\ pc' = "high" /\ con' = con /\ reg' = reg /\ at' = at
          /\ \/ pc = "loop" /\ ~ at <= Len(text)
             \/ pc = "arg"
        BY <1>3, <1>7 DEF LoopEnd, Arg, Step
    <2>2. Here' = Here
        BY <2>1 DEF Here
    <2> QED BY <1>1, <1>2, <2>1, <2>2 DEF Follows, Fixed, Agree
<1>8. CASE Load
    <2>1. pc = "load" /\ pc' = "store" /\ con' = con /\ reg' = Here /\ at' = at
        BY <1>8 DEF Load, Step
    <2>2. Here' = Here
        BY <2>1 DEF Here
    <2> QED BY <1>1, <1>2, <2>1, <2>2 DEF Follows, Fixed, Agree
<1>9. CASE Store
    <2>1. pc = "store" /\ pc' = "loop" /\ con' = Moved(reg + 1) /\ reg' = reg /\ at' = at + 1
        BY <1>9 DEF Store, Step
    <2>2. reg = Cursor(W, at - 1) /\ text[at] # NL /\ Agree(con, W[at])
        BY <2>1 DEF Follows
    <2>3. Cursor(W, at) = reg + 1
        BY <1>4, <2>1, <2>2, FollowsStep
    <2>4. reg + 1 \in Nat
        BY <1>3
    <2>5. con'.cells = con.cells /\ Here' = reg + 1
        BY <1>3, <2>1, <2>4, PositionChanges DEF Moved, Here
    <2>6. Agree(con', W[at])
        BY <2>2, <2>5 DEF Agree
    <2>7. at' - 1 = at
        BY <1>4, <2>1
    <2> QED BY <1>1, <1>2, <2>1, <2>3, <2>5, <2>6, <2>7 DEF Follows, Fixed
<1>10. CASE StoreLine
    <2>1. pc = "line" /\ pc' = "test" /\ con' = Moved(NextLine(reg)) /\ reg' = reg /\ at' = at
        BY <1>10 DEF StoreLine, Step
    <2>2. reg = Cursor(W, at - 1) /\ Agree(con, W[at - 1]) /\ text[at] = NL
        BY <1>4, <2>1 DEF Follows
    <2>3. NextLine(reg) \in Nat
        BY <1>3, NextLineType
    <2>4. con'.cells = con.cells /\ Here' = NextLine(reg)
        BY <1>3, <2>1, <2>3, PositionChanges DEF Moved, Here
    <2>5. Agree(con', W[at - 1])
        BY <2>2, <2>4 DEF Agree
    <2> QED BY <1>1, <1>2, <2>1, <2>2, <2>4, <2>5 DEF Follows, Fixed
<1>11. CASE Test \/ Reset
    <2> DEFINE p == Cursor(W, at - 1)
    <2>1. pc \in {"test", "reset"} /\ reg' = reg /\ at' = at
        BY <1>11 DEF Test, Reset, Step
    <2>2. Here = NextLine(p) /\ text[at] = NL /\ Agree(con, W[at - 1]) /\ at <= Len(text)
        BY <1>4, <2>1 DEF Follows
    <2>3. Cursor(W, at) = IF OffScreen(Here) THEN 0 ELSE Here
        BY <2>2, FollowsStep
    <2>4. /\ con'.cells = con.cells
          /\ \/ pc' = "reset" /\ Here' = NextLine(p) /\ OffScreen(Here')
             \/ pc' = "arg" /\ Here' = Cursor(W, at)
        <3>1. CASE Test
            <4>1. pc' = (IF OffScreen(Here) THEN "reset" ELSE "arg") /\ con' = con /\ Here' = Here
                BY <3>1 DEF Test, Step, Here
            <4> HIDE DEF p
            <4> QED BY <2>2, <2>3, <4>1
        <3>2. CASE Reset
            <4>1. pc = "reset" /\ pc' = "arg" /\ con' = Moved(0)
                BY <3>2 DEF Reset, Step
            <4>2. con'.cells = con.cells /\ Here' = 0
                BY <1>3, <4>1, PositionChanges DEF Moved, Here
            <4>3. OffScreen(Here)
                BY <4>1 DEF Follows
            <4> QED BY <2>3, <4>1, <4>2, <4>3
        <3> QED BY <1>11, <3>1, <3>2
    <2>5. Agree(con', W[at - 1])
        BY <2>2, <2>4 DEF Agree
    <2> QED BY <1>1, <1>2, <2>1, <2>2, <2>4, <2>5 DEF Follows, Fixed
<1>12. CASE SelectHigh \/ DataHigh \/ SelectLow \/ DataLow
    <2>1. /\ pc \in {"high", "hbyte", "low", "lbyte"} /\ reg' = reg
          /\ con' \in {Select(con, "high"), Data(con, High(pos)), Select(con, "low"), Data(con, Low(pos))}
          /\ \/ pc' \in {"hbyte", "low", "lbyte"} /\ at' = at
             \/ pc' = "loop" /\ at' = at + 1 /\ at <= Len(text)
        BY <1>12 DEF SelectHigh, DataHigh, SelectLow, DataLow, Step
    <2>2. High(pos) \in 0 .. BYTE - 1 /\ Low(pos) \in 0 .. BYTE - 1
        BY <1>3, BytesRange
    <2>3. con'.cells = con.cells
        BY <1>3, <2>1, <2>2, SelectChanges, DataChanges
    <2>4. Here' = Here
        BY <1>3, <2>1, SelectMeans, DataMeans DEF Here
    <2>5. Agree(con, W[at - 1])
        BY <2>1 DEF Follows
    <2>6. Agree(con', W[at - 1])
        BY <2>3, <2>5 DEF Agree
    <2>7. CASE at' = at /\ pc' \in {"hbyte", "low", "lbyte"}
        BY <1>1, <1>2, <2>1, <2>4, <2>6, <2>7 DEF Follows, Fixed
    <2>8. CASE pc' = "loop" /\ at' = at + 1 /\ at <= Len(text)
        <3>1. text[at] = NL /\ Here = Cursor(W, at)
            BY <2>1, <2>8 DEF Follows
        <3>2. W[at].cells = W[at - 1].cells
            BY <2>8, <3>1, FollowsStep
        <3>3. Agree(con', W[at])
            BY <2>6, <3>2 DEF Agree
        <3>4. at' - 1 = at
            BY <1>4, <2>8
        <3> QED BY <1>1, <1>2, <2>4, <2>8, <3>1, <3>3, <3>4 DEF Follows, Fixed
    <2> QED BY <2>1, <2>7, <2>8
<1> QED BY <1>5, <1>6, <1>7, <1>8, <1>9, <1>10, <1>11, <1>12

LEMMA NextFollows == KInv /\ TInv /\ HInv /\ [Next]_vars => HInv'
<1> SUFFICES ASSUME KInv, TInv, HInv, [Next]_vars, pc' # "idle", ~ echoed' PROVE \E W : Follows(W)'
    BY DEF HInv
<1>1. CASE \/ LoopNewLine \/ LoopCell \/ WriteCell \/ LoopEnd \/ Load \/ Store
           \/ StoreLine \/ Test \/ Reset \/ Arg \/ SelectHigh \/ DataHigh \/ SelectLow \/ DataLow
    <2>1. pc # "idle" /\ echoed' = echoed
        BY <1>1 DEF LoopNewLine, LoopCell, WriteCell, LoopEnd, Load, Store, StoreLine, Test, Reset, Arg,
           SelectHigh, DataHigh, SelectLow, DataLow, Step, hist
    <2>2. PICK W : Follows(W)
        BY <2>1 DEF HInv
    <2>3. Follows(W)'
        BY <1>1, <2>2, StepFollows
    <2> QED BY <2>3
<1>2. CASE UNCHANGED <<con, main, expect, echoed>>
    <2>1. PICK W : Follows(W)
        BY <1>2 DEF HInv, main
    <2>2. Follows(W)'
        BY <1>2, <2>1 DEF Follows, Agree, Here, main
    <2> QED BY <2>2
<1>3. CASE \E buf \in Texts : Call(buf)
    <2>1. PICK buf \in Texts : Call(buf)
        BY <1>3
    <2>2. pc' = "loop" /\ text' = buf /\ at' = 1 /\ expect' = fb_write(con, buf) /\ con' = con
        BY <2>1 DEF Call
    <2>3. Len(buf) \in Nat /\ \A i \in 1 .. Len(buf) : buf[i] # BS
        BY TextAssumption
    <2>4. Intact(con)
        BY DEF TInv
    <2>5. PICK W : Puts(W, con, buf)
        BY <2>3, fb_writeDef
    <2>6. \A n \in 0 .. Len(buf) : Intact(W[n])
        BY <2>3, <2>4, <2>5, PutsIntact
    <2>7. W[0] = con /\ fb_write(con, buf) = Follow(W[Len(buf)])
          /\ \A n \in 1 .. Len(buf) : W[n] = Put(W[n - 1], buf[n])
        BY <2>5 DEF Puts
    <2>8. Fixed(W)'
        BY <2>2, <2>3, <2>6, <2>7 DEF Fixed
    <2>9. at' - 1 = 0
        BY <2>2
    <2>10. Agree(con', W[0]) /\ Here' = Cursor(W, 0)
        BY <2>2, <2>7 DEF Agree, Here, Cursor
    <2>11. Follows(W)'
        BY <2>2, <2>8, <2>9, <2>10 DEF Follows, Fixed
    <2> QED BY <2>11
<1>4. CASE TimerInterrupt
    <2>1. con' = fb_clock_write(con, i2a(ticks)) /\ UNCHANGED <<main, expect, echoed>> /\ 0 \in irr
        BY <1>4 DEF TimerInterrupt, interrupt_handler, Takes, timer_callback, hist
    <2>2. ticks \in 0 .. MAX_TICKS /\ Intact(con) /\ IsConsole(con)
        BY TInvType DEF TypeOK, TInv, Intact
    <2>3. Here' = Here
        BY <2>1, <2>2, ClockMeans DEF Here
    <2>4. Agree(con', con)
        BY <2>1, <2>2, ClockChanges DEF Agree
    <2>5. PICK W : Follows(W)
        BY <2>1 DEF HInv, main
    <2>6. ASSUME NEW d, Agree(con, d) PROVE Agree(con', d)
        BY <2>4, <2>6 DEF Agree
    <2>7. Follows(W)'
        BY <2>1, <2>3, <2>5, <2>6 DEF Follows, main
    <2> QED BY <2>7
<1>5. CASE KeyboardInterrupt
    <2>1. /\ UNCHANGED <<main, expect>>
          /\ \/ con' = con /\ echoed' = echoed
             \/ echoed' = (pc # "idle")
        BY <1>5 DEF KeyboardInterrupt, interrupt_handler, echo_keyboard
    <2> QED BY <1>2, <2>1 DEF main
<1>6. CASE Return
    BY <1>6 DEF Return
<1> QED
    BY <1>1, <1>2, <1>3, <1>4, <1>5, <1>6
       DEF Next, Main, Sti, Cli, Interrupts, KeyEvent, TimerPulse, PicInit, SerialWrite, SerialPort,
           Greeting, hist, vars

LEMMA ReturnHarmless ==
    ASSUME KInv, TInv, CInv, HInv, [Next]_vars, pc # "idle", pc' = "idle", ~ echoed
    PROVE  /\ con'.cursorPosition = expect.cursorPosition
           /\ con'.high = expect.high /\ con'.low = expect.low
           /\ \A i \in DOMAIN con'.cells \ ClockCells : con'.cells[i] = expect.cells[i]
<1>1. Return
    BY DEF Next, Main, LoopNewLine, LoopCell, WriteCell, LoopEnd, Load, Store, StoreLine, Test, Reset, Arg,
           SelectHigh, DataHigh, SelectLow, DataLow, Step, Sti, Cli, Interrupts, Call, KeyEvent, TimerPulse,
           TimerInterrupt, KeyboardInterrupt, interrupt_handler, timer_callback, echo_keyboard,
           PicInit, SerialWrite, SerialPort, Greeting, main, vars
<1>2. /\ pc = "lbyte" /\ at > Len(text) /\ con' = Data(con, Low(pos)) /\ echoed' = echoed
    BY <1>1 DEF Return
<1>3. Intact(con) /\ IsConsole(con) /\ pos \in Nat /\ Len(text) \in Nat /\ at \in 1 .. Len(text) + 1
    BY Sizes DEF TInv, Intact, Counts
<1>4. Low(pos) \in 0 .. BYTE - 1
    BY <1>3, BytesRange
<1>5. /\ con'.cells = con.cells /\ con'.cursorPosition = con.cursorPosition /\ Intact(con')
    BY <1>2, <1>3, <1>4, DataChanges, DataMeans
<1>6. Shows(con', con'.cursorPosition)
    <2>1. CInv'
        BY NextCursor
    <2> QED BY <1>2, <2>1 DEF CInv, CursorPhase
<1>7. PICK W : Follows(W)
    BY DEF HInv
<1> DEFINE d == W[Len(text)]
<1>8. at - 1 = Len(text) /\ ~ at <= Len(text)
    BY <1>2, <1>3
<1>9. Agree(con, d) /\ con.cursorPosition = d.cursorPosition /\ expect = Follow(d)
    BY <1>2, <1>7, <1>8 DEF Follows, Cursor, Here
<1>10. Intact(d)
    <2>1. Len(text) \in 0 .. Len(text)
        BY <1>3
    <2> QED BY <1>7, <2>1 DEF Follows
<1> HIDE DEF d
<1>11. d.cursorPosition \in Nat /\ IsConsole(d) /\ expect = fb_move_cursor(d, d.cursorPosition)
    BY <1>9, <1>10 DEF Intact, IsConsole, Follow
<1>12. /\ expect.cells = d.cells /\ expect.cursorPosition = d.cursorPosition
       /\ Shows(expect, d.cursorPosition)
    BY <1>10, <1>11, MoveCursorMeans, MoveCursorChanges
<1>13. \A i \in DOMAIN con'.cells \ ClockCells : con'.cells[i] = expect.cells[i]
    BY <1>5, <1>9, <1>12 DEF Agree, Intact
<1>14. con'.cursorPosition = expect.cursorPosition /\ con'.high = expect.high /\ con'.low = expect.low
    BY <1>5, <1>6, <1>9, <1>12 DEF Shows
<1> QED BY <1>13, <1>14

(* However often the timer interrupts it, a call of fb_write leaves the     *)
(* cells, cursorPosition and the cursor's registers as it does undisturbed, *)
(* the clock's cells apart, for every text and wherever the cursor was, as  *)
(* long as no key was echoed meanwhile.                                     *)
THEOREM ClockDoesNotDisturb == Spec => TimerHarmless
<1>1. KInv /\ TInv /\ CInv /\ HInv /\ [Next]_vars =>
        [pc # "idle" /\ pc' = "idle" /\ ~ echoed =>
             /\ con'.cursorPosition = expect.cursorPosition
             /\ con'.high = expect.high /\ con'.low = expect.low
             /\ \A i \in DOMAIN con'.cells \ ClockCells : con'.cells[i] = expect.cells[i]]_vars
    BY ReturnHarmless
<1>2. Init => KInv /\ TInv /\ CInv /\ HInv
    BY InitKeyboard, InitTypes, InitCursor DEF HInv, Init
<1>3. KInv /\ TInv /\ CInv /\ HInv /\ [Next]_vars => (KInv /\ TInv /\ CInv /\ HInv)'
    BY NextKeyboard, NextTypes, NextCursor, NextFollows
<1> QED BY <1>1, <1>2, <1>3, PTL DEF Spec, TimerHarmless
=============================================================================
