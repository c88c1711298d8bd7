------------------------------ MODULE Console -------------------------------
(***************************************************************************)
(* The screen and the interrupts that write to it: screen.c, the handlers  *)
(* of gdt_idt.c, pic.c, timer.c and keyboard.c; and before there are any,  *)
(* kmain's greeting over the serial port.                                  *)
(*                                                                         *)
(* The main thread prints through fb_write, one memory or port access per  *)
(* step, as compiled without optimisation: cursorPosition++ is a load and  *)
(* a store.  An interrupt may come between any two of them if IF is set.   *)
(* The gates are interrupt gates (flags 0x8E), so a handler runs to its    *)
(* iret undisturbed and is one step.                                       *)
(***************************************************************************)
EXTENDS Keyboard, Serial, Numerals

CONSTANTS COLUMNS, ROWS,   \* 80 and 25
          BYTE,            \* 256: the cursor's registers hold a byte each
          LIMIT,           \* no position beyond is written to
          Texts,           \* what the main thread passes to fb_write
          Pressable,       \* the keys in use
          MAX_CALLS, MAX_KEYS, MAX_TICKS   \* bounds on calls and events

ASSUME SizeAssumption == COLUMNS \in Nat \ {0} /\ ROWS \in Nat \ {0} /\ BYTE \in Nat \ {0}
(* Only the keyboard sends a backspace: no string the kernel prints has one.*)
ASSUME TextAssumption == \A s \in Texts : s \in Seq(STRING) /\ \A i \in 1 .. Len(s) : s[i] # BS
ASSUME KeysAssumption == Pressable \subseteq Keys
(* The cells there are: the lines, one more that a new line reaches before  *)
(* it is reset, and a place for every character written.                    *)
ASSUME LimitAssumption ==
    /\ MAX_CALLS \in Nat /\ MAX_KEYS \in Nat /\ LIMIT \in Nat
    /\ \E T \in 0 .. LIMIT : /\ \A s \in Texts : Len(s) <= T
                             /\ LIMIT >= (ROWS + 2) * COLUMNS + T * MAX_CALLS + MAX_KEYS
(* The clock, a number and its sign, fits in the first line.                *)
ASSUME ClockAssumption ==
    MAX_TICKS \in 0 .. WORD - 1 /\ COLUMNS - 1 \in 1 .. WORD /\ WORD <= Powers(10)[COLUMNS - 1]

VARIABLES
    con,       \* the console: cells, cursorPosition and the cursor's registers
    flags,     \* CapLocks, ShiftL, ShiftR
    port,      \* scan codes not read yet, the first of them in port 0x60
    irr, isr,  \* the PIC: lines requested, lines in service
    IF_,       \* "boot" until pic_init, then the interrupt flag: "on" or "off"
    ticks,
    pc, text, at, reg, pos,   \* fb_write on the main thread and its locals
    down, capsOn,             \* the keyboard itself: keys down, caps lock light
    keys, pulses, calls,      \* events so far
    expect,    \* what the call in progress is to make of the console
    echoed     \* a key was echoed since it began

main == <<pc, text, at, reg, pos>>
cpu  == <<IF_, ser>>
kbd  == <<port, down, capsOn, keys>>
hist == <<calls, expect, echoed>>
vars == <<con, flags, kbd, irr, isr, cpu, ticks, pulses, main, hist>>

-----------------------------------------------------------------------------
(* screen.c, as it runs undisturbed *)

fb_write_cell(c, i, ch) == [c EXCEPT !.cells[i] = ch]

High(p) == (p \div BYTE) % BYTE
Low(p)  == p % BYTE

(* outb to FB_COMMAND_PORT, and to the register selected by the last such.  *)
Select(c, r) == [c EXCEPT !.index = r]
Data(c, b) == IF c.index = "high" THEN [c EXCEPT !.high = b] ELSE [c EXCEPT !.low = b]

fb_move_cursor(c, p) == Data(Select(Data(Select(c, "high"), High(p)), "low"), Low(p))

NextLine(p) == (p \div COLUMNS + 1) * COLUMNS

(* Slip: the screen has no last line. *)
OffScreenNever(p) == FALSE

OffScreen(p) == p \div COLUMNS > ROWS

BackSpace(p) == IF p - 1 < 0 THEN 0 ELSE p - 1

(* One character of fb_write. *)
Put(c, ch) ==
    LET p  == c.cursorPosition
        at_(q) == [c EXCEPT !.cursorPosition = q]
        q  == IF ch = NL THEN IF OffScreen(NextLine(p)) THEN 0 ELSE NextLine(p)
              ELSE BackSpace(p)
    IN  CASE ch = NL -> fb_move_cursor(at_(q), q)
          [] ch = BS -> fb_write_cell(fb_move_cursor(at_(q), q), q, " ")
          [] OTHER   -> [fb_write_cell(c, p, ch) EXCEPT !.cursorPosition = p + 1]

(* The cursor follows once, at the end.  putc and echo_keyboard write one   *)
(* character.                                                               *)
Follow(c) == fb_move_cursor(c, c.cursorPosition)
fb_write(c, buf) ==
    LET W[n \in 0 .. Len(buf)] == IF n = 0 THEN c ELSE Put(W[n - 1], buf[n])
    IN  Follow(W[Len(buf)])
fb_write_one(c, ch) == Follow(Put(c, ch))

(* Slip: the clock is printed like any other text. *)
fb_clock_write_text(c, buf) == fb_write(c, buf)

fb_clock_write(c, buf) ==
    [c EXCEPT !.cells = [i \in DOMAIN @ |->
        IF i \in COLUMNS - Len(buf) .. COLUMNS - 1
        THEN buf[i - COLUMNS + Len(buf) + 1] ELSE @[i]]]

-----------------------------------------------------------------------------
(* clear_screen; the cursor is where the boot loader left it. *)
Cleared == [cells |-> [i \in -1 .. LIMIT |-> IF i = -1 THEN "memory" ELSE " "],
            cursorPosition |-> 0, index |-> "high", high |-> 0, low |-> BYTE - 1]

Init ==
    /\ con = Cleared /\ SerialInit
    /\ flags = [CapLocks |-> FALSE, ShiftL |-> FALSE, ShiftR |-> FALSE]
    /\ port = << >> /\ down = {} /\ capsOn = FALSE
    /\ irr = {} /\ isr = {} /\ IF_ = "boot"
    /\ ticks = 0
    /\ pc = "idle" /\ text = << >> /\ at = 1 /\ reg = 0 /\ pos = 0
    /\ keys = 0 /\ pulses = 0 /\ calls = 0
    /\ expect = Cleared /\ echoed = TRUE

-----------------------------------------------------------------------------
(* fb_write on the main thread *)

(* Before serial_write (kmain's greeting on the screen) and after it.       *)
Call(buf) ==
    /\ pc = "idle" /\ ser.pc \in {"baud", "done"}
    /\ calls < MAX_CALLS
    /\ pc' = "loop" /\ text' = buf /\ at' = 1
    /\ calls' = calls + 1 /\ expect' = fb_write(con, buf) /\ echoed' = FALSE
    /\ UNCHANGED <<con, flags, kbd, irr, isr, cpu, ticks, pulses, reg, pos>>

(* One step of the main thread: the console and the registers change.       *)
Step(from, to, c, r, p) ==
    /\ pc = from
    /\ pc' = to /\ con' = c /\ reg' = r /\ pos' = p
    /\ UNCHANGED <<flags, kbd, irr, isr, cpu, ticks, pulses, text, hist>>

Here == con.cursorPosition
Moved(p) == [con EXCEPT !.cursorPosition = p]

LoopNewLine == at <= Len(text) /\ text[at] = NL /\ Step("loop", "line", con, Here, pos) /\ at' = at
LoopCell == at <= Len(text) /\ text[at] # NL /\ Step("loop", "cell", con, Here, pos) /\ at' = at
WriteCell == Step("cell", "load", fb_write_cell(con, reg, text[at]), reg, pos) /\ at' = at
LoopEnd == at > Len(text) /\ Step("loop", "high", con, reg, Here) /\ at' = at

(* cursorPosition++ *)
Load == Step("load", "store", con, Here, pos) /\ at' = at
Store == Step("store", "loop", Moved(reg + 1), reg, pos) /\ at' = at + 1

(* cursorPosition = (cursorPosition/80 + 1)*80, then the test and the reset *)
StoreLine == Step("line", "test", Moved(NextLine(reg)), reg, pos) /\ at' = at
Test      == Step("test", IF OffScreen(Here) THEN "reset" ELSE "arg", con, reg, pos) /\ at' = at
Reset     == Step("reset", "arg", Moved(0), reg, pos) /\ at' = at
Arg       == Step("arg", "high", con, reg, Here) /\ at' = at

(* fb_move_cursor, four outb; then on with the loop, or back to the caller. *)
SelectHigh == Step("high", "hbyte", Select(con, "high"), reg, pos) /\ at' = at
(* Slip: the low byte is written twice. *)
DataHighLow == Step("hbyte", "low", Data(con, Low(pos)), reg, pos) /\ at' = at

DataHigh == Step("hbyte", "low", Data(con, High(pos)), reg, pos) /\ at' = at
SelectLow  == Step("low", "lbyte", Select(con, "low"), reg, pos) /\ at' = at
(* Slip: a new line is not left behind. *)
DataLowStays == at <= Len(text) /\ Step("lbyte", "loop", Data(con, Low(pos)), reg, pos) /\ at' = at

DataLow == at <= Len(text) /\ Step("lbyte", "loop", Data(con, Low(pos)), reg, pos) /\ at' = at + 1

Return ==
    /\ pc = "lbyte" /\ at > Len(text)
    /\ con' = Data(con, Low(pos))
    /\ pc' = "idle" /\ text' = << >> /\ at' = 1 /\ reg' = 0 /\ pos' = 0
    /\ expect' = Cleared
    /\ UNCHANGED <<flags, kbd, irr, isr, cpu, ticks, pulses, calls, echoed>>

(* pic_init ends with sti; initialize_tasking and fork shut interrupts out. *)
Interrupts(from, to) ==
    /\ pc = "idle"
    /\ IF_ = from /\ IF_' = to
    /\ UNCHANGED <<con, flags, kbd, irr, isr, ticks, pulses, main, hist>>
(* From pic_init on nothing looks at the serial port: one state stands for  *)
(* all it may be in.                                                        *)
PicInit == ser.pc = "done" /\ ser' = SerialQuiet /\ Interrupts("boot", "on")
Cli == Interrupts("on", "off") /\ UNCHANGED ser
Sti == Interrupts("off", "on") /\ UNCHANGED ser

(* serial_write, and the port meanwhile, before there are interrupts.       *)
Greeting(step) ==
    /\ IF_ = "boot"
    /\ step
    /\ UNCHANGED <<con, flags, kbd, irr, isr, IF_, ticks, pulses, main, hist>>
SerialWrite == pc = "idle" /\ Greeting(serial_write)
SerialPort  == Greeting(Transmit \/ Receive)

Main == \/ LoopNewLine \/ LoopCell \/ WriteCell \/ LoopEnd \/ Load \/ Store \/ StoreLine \/ Test \/ Reset
        \/ Arg \/ SelectHigh \/ DataHigh \/ SelectLow \/ DataLow \/ Return \/ Sti \/ PicInit
        \/ SerialWrite

-----------------------------------------------------------------------------
(* The devices *)

(* A key goes down or up.  Its scan code waits behind those not read yet.   *)
KeyEvent(k) ==
    LET up == k \in down
    IN  /\ IF_ # "boot" /\ keys < MAX_KEYS
        /\ keys' = keys + 1
        /\ down' = IF up THEN down \ {k} ELSE down \cup {k}
        /\ capsOn' = IF k = "caps" /\ up THEN ~ capsOn ELSE capsOn
        /\ port' = Append(port, [key |-> k, up |-> up])
        /\ irr' = IF port = << >> THEN irr \cup {1} ELSE irr
        /\ UNCHANGED <<con, flags, isr, cpu, ticks, pulses, main, hist>>

(* The timer asks for an interrupt; a request not served yet is not counted.*)
TimerPulse ==
    /\ IF_ # "boot" /\ pulses < MAX_TICKS
    /\ pulses' = pulses + 1
    /\ irr' = irr \cup {0}
    /\ UNCHANGED <<con, flags, kbd, isr, cpu, ticks, main, hist>>

-----------------------------------------------------------------------------
(* The handlers *)

(* Slip: only the slave is acknowledged. *)
pic_acknowledge_slave(interrupt, service) == service

(* The acknowledged PIC clears the line of highest priority; the master has *)
(* the interrupts from 32 on, the slave those from 40 on.                   *)
pic_acknowledge(interrupt, service) ==
    IF interrupt \in 32 .. 39 /\ service # {}
    THEN service \ {CHOOSE l \in service : \A m \in service : l <= m} ELSE service

(* The CPU takes a request no line in service shuts out.                    *)
Takes(line) == IF_ = "on" /\ line \in irr /\ \A l \in isr : line < l

(* interrupt_handler: the PIC's lines have the interrupts from 32 on.       *)
interrupt_handler(line, handler) ==
    /\ Takes(line)
    /\ handler
    /\ isr' = pic_acknowledge(32 + line, isr \cup {line})

timer_callback ==
    /\ con' = fb_clock_write(con, i2a(ticks))
    /\ ticks' = ticks + 1
    /\ irr' = irr \ {0}
    /\ UNCHANGED <<flags, kbd, cpu, pulses, main, hist>>

(* Reading the port brings up the next scan code.                           *)
echo_keyboard ==
    LET code == Head(port)
        ch   == convertToAscii(code, flags)
    IN  /\ port # << >>
        /\ flags' = FlagsAfter(code, flags)
        /\ con' = IF ch = NUL THEN con ELSE fb_write_one(con, ch)
        /\ echoed' = IF ch = NUL THEN echoed ELSE pc # "idle"
        /\ port' = Tail(port)
        /\ irr' = IF Len(port) > 1 THEN irr ELSE irr \ {1}
        /\ UNCHANGED <<down, capsOn, keys, cpu, ticks, pulses, main, calls, expect>>

TimerInterrupt == interrupt_handler(0, timer_callback)
KeyboardInterrupt == interrupt_handler(1, echo_keyboard)

Next ==
    \/ Main \/ Cli \/ SerialPort
    \/ \E buf \in Texts : Call(buf)
    \/ \E k \in Pressable : KeyEvent(k)
    \/ TimerPulse \/ TimerInterrupt \/ KeyboardInterrupt

Spec == Init /\ [][Next]_vars

(* The main thread goes on; a request that finds interrupts enabled again   *)
(* and again is taken, since the CPU looks for one after every instruction. *)
FairSpec == Spec /\ WF_vars(Main) /\ WF_vars(Greeting(Transmit)) /\ SF_vars(TimerInterrupt) /\ SF_vars(KeyboardInterrupt)

-----------------------------------------------------------------------------
(* Properties *)

PCs == {"idle", "loop", "cell", "load", "store", "line", "test", "reset", "arg",
        "high", "hbyte", "low", "lbyte"}

(* The types.  The cursor goes past the last line by no more than the       *)
(* characters written: a new line there takes it back to the top (fb_write).*)
(* A backspace in the top left corner, also between the steps of a print,   *)
(* writes nothing before the frame buffer.                                  *)
TypeOK ==
    /\ con.cells[-1] = "memory"
    /\ con.cursorPosition \in 0 .. LIMIT
    /\ con.index \in {"high", "low"} /\ con.high \in 0 .. BYTE - 1 /\ con.low \in 0 .. BYTE - 1
    /\ flags \in Flags
    /\ port \in Seq(Codes) /\ down \subseteq Keys /\ capsOn \in BOOLEAN
    /\ irr \subseteq {0, 1} /\ isr \subseteq {0, 1} /\ IF_ \in {"boot", "on", "off"}
    /\ ticks \in 0 .. MAX_TICKS
    /\ pc \in PCs /\ at \in Nat /\ reg \in 0 .. LIMIT /\ pos \in 0 .. LIMIT

(* What the clock may have drawn over. *)
ClockCells == UNION {COLUMNS - Len(i2a(t)) .. COLUMNS - 1 : t \in 0 .. MAX_TICKS}

(* A call of fb_write during which no key is echoed does to the screen, to  *)
(* cursorPosition and to the cursor what it does undisturbed, however often *)
(* the timer interrupts it: timer_callback only touches the clock's cells.  *)
TimerHarmless ==
    [][pc # "idle" /\ pc' = "idle" /\ ~ echoed =>
         /\ con'.cursorPosition = expect.cursorPosition
         /\ con'.high = expect.high /\ con'.low = expect.low
         /\ \A i \in DOMAIN con'.cells \ ClockCells : con'.cells[i] = expect.cells[i]]_vars

(* Between calls the blinking cursor is where the next character will go,   *)
(* in the two bytes its registers have, unless a key was echoed in the      *)
(* middle of the last call; and then the next call or the next echo puts it *)
(* right (fb_move_cursor's four outb share the index register with the      *)
(* keyboard handler's).                                                     *)
CursorShown ==
    pc = "idle" /\ ~ echoed =>
        con.high * BYTE + con.low = con.cursorPosition % (BYTE * BYTE)

(* A shift flag, once the codes that wait are read, says whether its key is *)
(* down: the last of them for that key does, or else the flag itself.       *)
ShiftTracks(key, flag) ==
    LET own == {n \in DOMAIN port : port[n].key = key}
    IN  /\ own = {} => (flag <=> key \in down)
        /\ \A n \in own : (\A m \in own : m <= n) => (port[n].up <=> key \notin down)

(* The caps lock flag, from code to code that waits, comes to the light.    *)
CapsTracks ==
    \E c \in [0 .. Len(port) -> BOOLEAN] :
        /\ c[0] = flags.CapLocks /\ c[Len(port)] = capsOn
        /\ \A n \in 1 .. Len(port) :
              c[n] = IF port[n].key = "caps" /\ port[n].up THEN ~ c[n - 1] ELSE c[n - 1]

(* Once the scan codes that wait are read, the flags of keyboard.c are those*)
(* of the keyboard: a shift counts as down exactly while it is, whichever   *)
(* of the two, however late the handler runs.                               *)
KeyboardTracks ==
    /\ ShiftTracks("shiftL", flags.ShiftL)
    /\ ShiftTracks("shiftR", flags.ShiftR)
    /\ CapsTracks

(* Every scan code is read in the end: the PIC is acknowledged after each   *)
(* interrupt (interrupt_handler), and interrupts do not stay shut out.      *)
KeysServed == (port # << >>) ~> (port = << >>)

(* fb_write returns, though interrupts move cursorPosition under its loop,  *)
(* and so does serial_write, though it polls the port.                      *)
CallsReturn == (pc # "idle" \/ ser.pc # "done") ~> (pc = "idle" /\ ser.pc = "done")
=============================================================================
