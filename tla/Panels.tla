------------------------------- MODULE Panels -------------------------------
(***************************************************************************)
(* The two devices at the end of a bus: a display with its own memory,     *)
(* written byte by byte over I2C, and a strip of LEDs whose bits are drawn *)
(* as pulses by SPI. A transfer may break off; what the device has taken   *)
(* by then stays taken, and half a command waits for its other half.       *)
(* A byte of the display's memory is the set of its rows that are lit.     *)
(* What the devices do with the bytes is external, and how a display shows *)
(* what was never set up is not followed.                                  *)
(***************************************************************************)
EXTENDS Integers, Sequences

CONSTANTS
    Columns, Pages, \* 128 and 8 or 4
    Picture,        \* pictures to draw, row by row
    LedCount,
    Frame,          \* frames to show, a colour for each LED
    Brightness,     \* quarters of full brightness
    MaxWrites       \* bound on the pictures and frames written

PageBits == 8 \* rows of a page
Rows == 0 .. Pages * PageBits - 1
Colour == [r : 0 .. 255, g : 0 .. 255, b : 0 .. 255]

\* No argument of flush() but the last column is a command of its own.
ASSUME PanelAssumption ==
    /\ Columns \in Nat \ {0, 1, 34, 35} /\ Pages \in Nat \ {0}
    /\ Picture \subseteq [Rows -> [0 .. Columns - 1 -> 0 .. 255]]
    /\ LedCount \in Nat /\ Frame \subseteq [1 .. LedCount -> Colour]
    /\ Brightness \subseteq 0 .. 4 /\ MaxWrites \in Nat

VARIABLES
    device,   \* m_device of the display driver: "none", "absent", "loaded", "open", "ready"
    chip,     \* the display's controller
    buffer,   \* m_page_buffer
    flushing, \* the byte of flush() that is sent next, 0 for none, and the picture
    recent,   \* less than a frame period since m_last_write
    asks,     \* history: the last picture written without an exception
    sound,    \* history: such pictures in a row
    cut,      \* history: a transfer broke off inside a command
    spi,      \* m_spi_buffer of the strip
    leds,     \* what the LEDs show
    lit,      \* history: the last frame sent, and its brightness
    writes    \* history

displayVars == <<device, chip, buffer, flushing, recent, asks, sound, cut>>
panelVars == <<displayVars, spi, leds, lit, writes>>

Cells == 0 .. Columns * Pages - 1
NothingAsked == <<>>
NoFlush == [at |-> 0, picture |-> NothingAsked]

-----------------------------------------------------------------------------
(* The display.                                                            *)

\* pack_mono8_to_page_buffer(): a byte holds a column of a page.
Packed(picture) ==
    [cell \in Cells |->
        {bit \in 0 .. PageBits - 1 :
            picture[(cell \div Columns) * PageBits + bit][cell % Columns] > 0}]

Blank == [cell \in Cells |-> {}]

ColumnAddress == 33 \* 0x21
PageAddress == 34   \* 0x22

\* The commands of flush(), each byte a transfer of its own, and then the page buffer.
Window == <<ColumnAddress, 0, Columns - 1, PageAddress, 0, Pages - 1>>
AllBytes == Len(Window) + Columns * Pages

\* The controller: the command it waits for the arguments of, if any, and those it has; the
\* window and the place it writes to next; the line the picture starts at.
NoCommand == 0
ChipOff == [command |-> NoCommand, given |-> 0, argument |-> 0, firstColumn |-> 0,
            lastColumn |-> Columns - 1, firstPage |-> 0, lastPage |-> Pages - 1, column |-> 0,
            page |-> 0, line |-> 0, ram |-> Blank]

CommandDone(c) == [c EXCEPT !.command = NoCommand, !.given = 0, !.argument = 0]

\* A byte of a command. One that is no command it knows here moves the first line: for 128
\* columns the last column is 0x7F, which does.
Commanded(c, byte) ==
    IF c.command = NoCommand
    THEN IF byte \in {ColumnAddress, PageAddress} THEN [c EXCEPT !.command = byte]
         ELSE IF byte = Columns - 1 THEN [c EXCEPT !.line = byte]
         ELSE c
    ELSE IF c.given = 0 THEN [c EXCEPT !.given = 1, !.argument = byte]
    ELSE IF c.command = ColumnAddress
    THEN [CommandDone(c) EXCEPT !.firstColumn = c.argument % Columns, !.lastColumn = byte % Columns,
                                !.column = c.argument % Columns]
    ELSE [CommandDone(c) EXCEPT !.firstPage = c.argument % Pages, !.lastPage = byte % Pages,
                                !.page = c.argument % Pages]

\* A byte of data goes to the place; the place goes along the window.
Fed(c, bits) ==
    LET endOfRow == c.column = c.lastColumn
    IN  [c EXCEPT
            !.ram[c.page * Columns + c.column] = bits,
            !.column = IF endOfRow THEN c.firstColumn ELSE (c.column + 1) % Columns,
            !.page = IF ~endOfRow THEN c.page
                     ELSE IF c.page = c.lastPage THEN c.firstPage ELSE (c.page + 1) % Pages]

\* write_command() or a byte of write_data().
Taken(c, k) ==
    IF k <= Len(Window) THEN Commanded(c, Window[k]) ELSE Fed(c, buffer[k - Len(Window) - 1])

StartFlush(bytes, picture) ==
    buffer' = bytes /\ flushing' = [at |-> 1, picture |-> picture]

\* The constructor of the driver. There is no such plugin; or the bus does not open; or
\* initialize_display() breaks off; or clear_display() begins. A device that fails stays
\* attached, and takes pictures if its bus is open.
LoadDisplay ==
    /\ device = "none"
    /\ \/ device' \in {"absent", "loaded", "open"} /\ UNCHANGED <<buffer, flushing>>
       \/ device' = "ready" /\ StartFlush(Blank, NothingAsked)
    /\ UNCHANGED <<chip, recent, asks, sound, cut, spi, leds, lit, writes>>

\* on_image(): the checks of base_device::write(), then write_raw_frame().
OnImage(picture) ==
    /\ writes < MaxWrites /\ writes' = writes + 1
    /\ device \in {"open", "ready"} /\ flushing = NoFlush /\ ~recent
    /\ StartFlush(Packed(picture), picture)
    /\ UNCHANGED <<device, chip, recent, asks, sound, cut, spi, leds, lit>>

\* write_all(): a byte gets through. With the last one the picture is written, and the
\* period counts from it.
SendByte ==
    /\ flushing.at > 0
    /\ chip' = IF device = "ready" THEN Taken(chip, flushing.at) ELSE chip
    /\ IF flushing.at < AllBytes
       THEN flushing' = [flushing EXCEPT !.at = @ + 1] /\ UNCHANGED <<recent, asks, sound>>
       ELSE /\ flushing' = NoFlush
            /\ IF flushing.picture = NothingAsked THEN UNCHANGED <<recent, asks, sound>>
               ELSE /\ recent' = TRUE /\ asks' = flushing.picture
                    /\ sound' = IF sound < 2 THEN sound + 1 ELSE sound
    /\ UNCHANGED <<device, buffer, cut, spi, leds, lit, writes>>

\* It does not, and the exception ends the flush.
BreakOff ==
    /\ flushing.at > 0
    /\ flushing' = NoFlush /\ sound' = 0
    /\ cut' = (cut \/ flushing.at \in {2, 3, 5, 6})
    /\ UNCHANGED <<device, chip, buffer, recent, asks, spi, leds, lit, writes>>

PeriodPasses ==
    /\ recent /\ recent' = FALSE
    /\ UNCHANGED <<device, chip, buffer, flushing, asks, sound, cut, spi, leds, lit, writes>>

-----------------------------------------------------------------------------
(* The strip.                                                              *)

ResetBytes == 50

\* apply_brightness()
Dimmed(byte, quarters) == (byte * quarters) \div 4

Bit(byte, weight) == (byte \div weight) % 2

\* set_led(): each bit as a long or a short pulse of three, most significant first.
Pulse(byte, weight) == IF Bit(byte, weight) = 1 THEN 6 ELSE 4

Packet(byte) ==
    (((((((Pulse(byte, 128)) * 8 + Pulse(byte, 64)) * 8 + Pulse(byte, 32)) * 8
        + Pulse(byte, 16)) * 8 + Pulse(byte, 8)) * 8 + Pulse(byte, 4)) * 8
        + Pulse(byte, 2)) * 8 + Pulse(byte, 1)

Pulses(byte) ==
    <<(Packet(byte) \div 65536) % 256, (Packet(byte) \div 256) % 256, Packet(byte) % 256>>

LedBytes(c) == Pulses(c.g) \o Pulses(c.r) \o Pulses(c.b)

\* write_raw_frame(): nine bytes for each LED, and zeroes.
SpiBytes(colours) ==
    [i \in 1 .. 9 * LedCount + ResetBytes |->
        IF i <= 9 * LedCount THEN LedBytes(colours[((i - 1) \div 9) + 1])[((i - 1) % 9) + 1] ELSE 0]

\* What an LED makes of three bytes: the middle of each pulse.
Value(x, y, z) ==
    128 * Bit(x, 64) + 64 * Bit(x, 8) + 32 * Bit(x, 1) + 16 * Bit(y, 32) + 8 * Bit(y, 4)
        + 4 * Bit(z, 128) + 2 * Bit(z, 16) + Bit(z, 2)

\* What the LED at a place takes from the bytes that come along.
Taking(bytes, i) ==
    LET of(k) == Value(bytes[9 * (i - 1) + k], bytes[9 * (i - 1) + k + 1],
                       bytes[9 * (i - 1) + k + 2])
    IN  [r |-> of(4), g |-> of(1), b |-> of(7)]

Dark == [i \in 1 .. LedCount |-> [r |-> 0, g |-> 0, b |-> 0]]

\* transfer(): one that fails is logged. lit follows what got through.
Transferred(frame, quarters) ==
    \/ /\ leds' = [i \in 1 .. LedCount |-> Taking(spi', i)]
       /\ lit' = [frame |-> frame, quarters |-> quarters]
    \/ UNCHANGED <<leds, lit>>

\* write() and write_raw_frame(), for a frame that does not come too soon (LedDriver).
WriteFrame(frame, quarters) ==
    /\ writes < MaxWrites /\ writes' = writes + 1
    /\ spi' = SpiBytes([i \in 1 .. LedCount |->
                  [r |-> Dimmed(frame[i].r, quarters), g |-> Dimmed(frame[i].g, quarters),
                   b |-> Dimmed(frame[i].b, quarters)]])
    /\ Transferred(frame, quarters)
    /\ UNCHANGED displayVars

PanelInit ==
    /\ device = "none" /\ chip = ChipOff /\ buffer = Blank /\ flushing = NoFlush /\ recent = FALSE
    /\ asks = NothingAsked /\ sound = 0 /\ cut = FALSE
    /\ spi = <<>> /\ leds = Dark /\ lit = [frame |-> Dark, quarters |-> 4] /\ writes = 0

DisplayNext ==
    LoadDisplay \/ SendByte \/ BreakOff \/ PeriodPasses \/ \E p \in Picture : OnImage(p)
StripNext == \E f \in Frame, q \in Brightness : WriteFrame(f, q)
PanelNext == DisplayNext \/ StripNext

PanelSpec == PanelInit /\ [][PanelNext]_panelVars

-----------------------------------------------------------------------------
(* Properties.                                                             *)

\* What the glass shows at a row and a column.
Glass(c, y, x) ==
    LET row == (y + c.line) % (Pages * PageBits)
    IN  row % PageBits \in c.ram[(row \div PageBits) * Columns + x]

Shows(c, picture) ==
    \A y \in Rows, x \in 0 .. Columns - 1 : Glass(c, y, x) <=> picture[y][x] > 0

Written(n) == device = "ready" /\ flushing = NoFlush /\ sound >= n

\* A picture written without an error is on the glass, however much of the one before was
\* lost, as long as no transfer broke off inside a command (ssd1306_i2c::flush).
PictureShown == Written(1) /\ ~cut => Shows(chip, asks)

\* Even then the second picture in a row is where it belongs in the display's memory.
MemoryHeals == Written(2) => chip.ram = Packed(asks)

\* The LEDs show the last frame that got through, each its own colour, dimmed and not
\* brightened (base_device::write, ws2812_spi::set_led).
FrameShown ==
    \A i \in 1 .. LedCount : \A c \in {"r", "g", "b"} :
        LET wanted == lit.frame[i][c] * lit.quarters
        IN  leds[i][c] * 4 <= wanted /\ wanted < leds[i][c] * 4 + 4

PanelsSound == PictureShown /\ MemoryHeals /\ FrameShown
=============================================================================
