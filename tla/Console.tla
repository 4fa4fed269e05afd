------------------------------ MODULE Console -------------------------------
(***************************************************************************)
(* The text console: vga_write_char and vga_scroll of kern/misc/vga.c, and *)
(* kprintf and itoa of kern/misc/klib.c above them.  The kernel prints     *)
(* from kmain and from interrupt handlers, with one cursor for both.       *)
(*                                                                         *)
(* paper, top and num are history variables: paper is an endless strip of  *)
(* rows on which every character was written where the code meant it to    *)
(* go, top is the first row of it that is on the screen, and num is the    *)
(* number that kmain is printing.                                          *)
(***************************************************************************)
EXTENDS Integers, Sequences

CONSTANTS
    WIDTH, HEIGHT,  \* size of the screen
    Word,           \* 2^32: the number of values of an int
    Items,          \* what kmain prints, each a format and its argument
    IrqItems,       \* what a handler prints, one item after the other
    Inside,         \* handlers also interrupt vga_write_char itself
    MaxRows         \* bound on the number of rows printed

ASSUME ConsoleAssumption ==
    /\ WIDTH \in Nat \ {0} /\ HEIGHT \in Nat \ {0}
    /\ Word \in Nat \ {0}
    /\ Inside \in BOOLEAN
    /\ MaxRows \in Nat

BUFFER_LEN == WIDTH * HEIGHT

NL == "nl"          \* '\n'
BS == "bs"          \* '\b'
Blank == " "
Digit == <<"0", "1", "2", "3", "4", "5", "6", "7",
           "8", "9", "a", "b", "c", "d", "e", "f">>

VARIABLES
    vga_mem,    \* the characters in video memory
    cursor,     \* the static cursor
    buf,        \* the static buffer of itoa
    todo,       \* characters that kprintf has yet to write
    conv,       \* number that kprintf has yet to convert, and the base
    at,         \* what is left of a converted number starts at buf[at]
    pc,         \* kmain is between characters ("idle"), or the character it
                \* is writing inside vga_write_char
    paper, top, num \* history, see above

vars == <<vga_mem, cursor, buf, todo, conv, at, pc, paper, top, num>>

-----------------------------------------------------------------------------
(* Formatting.                                                             *)

NUL == "nul"        \* the character 0, which ends a string
LastDigit == 30     \* itoa fills the buffer down from here; buf[31] stays 0

DigitCount(val, base) == CHOOSE n \in 1 .. LastDigit : val < base ^ n /\ (val = 0 \/ base ^ (n - 1) <= val)

\* The buffer with the last n digits of val at its end.
Converted(b, val, base, n) ==
    [i \in DOMAIN b |->
        IF i \in (LastDigit + 1) - n .. LastDigit
        THEN Digit[((val \div (base ^ (LastDigit - i))) % base) + 1]
        ELSE b[i]]

\* Mutant of itoa: a power of the base gets a digit too few.
itoa_Short(b, val, base) ==
    LET n == DigitCount(IF val = 0 THEN 0 ELSE val - 1, base)
    IN  [buf |-> Converted(b, val, base, n), at |-> (LastDigit + 1) - n]

\* Mutant of itoa: the digits are at the start of the buffer, with a 0 behind.
itoa_Front(b, val, base) ==
    LET n == DigitCount(val, base)
        c == Converted(b, val, base, n)
    IN  [buf |-> [i \in DOMAIN b |-> IF i < n THEN c[((LastDigit + 1) - n) + i]
                                   ELSE IF i = n THEN NUL ELSE b[i]],
         at |-> 0]

\* The digits of val, most significant first, "0" for 0, and where they start.
itoa(b, val, base) ==
    LET n == DigitCount(val, base)
    IN  [buf |-> Converted(b, val, base, n), at |-> (LastDigit + 1) - n]

\* The string that starts at b[i].
StringAt(b, i) ==
    LET end == CHOOSE e \in i .. LastDigit + 1 :
                   b[e] = NUL /\ \A k \in i .. e - 1 : b[k] # NUL
    IN  [k \in 1 .. end - i |-> b[(i + k) - 1]]

\* What kprintf does for one item: the characters it writes at once and the
\* number it converts after them, <<>> if none.  %c prints a number as %d
\* does, but has no minus sign.  Only %d looks at the sign; the others take
\* the argument for an unsigned word.
kprintf(item) ==
    LET i == item.arg
        Number(val, base) == [text |-> <<>>, conv |-> <<val % Word, base>>]
    IN  CASE item.fmt = "char" -> [text |-> <<i>>, conv |-> <<>>]
          [] item.fmt = "s" -> [text |-> i, conv |-> <<>>]
          [] item.fmt = "c" -> Number(i, 10)
          [] item.fmt = "d" -> IF i < 0 THEN [Number(-i, 10) EXCEPT !.text = <<"-">>]
                               ELSE Number(i, 10)
          [] item.fmt = "o" -> Number(i, 8)
          [] item.fmt = "x" -> Number(i, 16)

-----------------------------------------------------------------------------
(* The screen s is a record of the variables that printing changes.        *)

Screen == [mem |-> vga_mem, cursor |-> cursor, buf |-> buf, paper |-> paper, top |-> top]

\* Mutant of vga_scroll: the last row keeps its characters.
vga_scroll_KeepRow(s) ==
    [s EXCEPT !.mem = [i \in DOMAIN s.mem |->
                         IF i < WIDTH * (HEIGHT - 1) THEN s.mem[i + WIDTH] ELSE s.mem[i]],
              !.cursor = WIDTH * (HEIGHT - 1),
              !.top = @ + 1]

\* Rows move up by one, the last one is cleared and gets the cursor.
vga_scroll(s) ==
    [s EXCEPT !.mem = [i \in DOMAIN s.mem |->
                         IF i < WIDTH * (HEIGHT - 1) THEN s.mem[i + WIDTH]
                         ELSE IF i < BUFFER_LEN THEN Blank ELSE s.mem[i]],
              !.cursor = WIDTH * (HEIGHT - 1),
              !.top = @ + 1]

\* Mutant of Checked: the screen scrolls one character late.
Checked_Late(s) == IF s.cursor = BUFFER_LEN + 1 THEN vga_scroll(s) ELSE s

\* The test at the start of vga_write_char.
Checked(s) == IF s.cursor = BUFFER_LEN THEN vga_scroll(s) ELSE s

Write(f, i, c) == [j \in DOMAIN f \cup {i} |-> IF j = i THEN c ELSE f[j]]

\* Store a character at the cursor.
Store(s, c) ==
    [s EXCEPT !.mem = Write(@, s.cursor, c),
              !.paper = Write(@, s.top * WIDTH + s.cursor, c)]

\* The rest of vga_write_char: '\n' goes to the start of the next row, '\b'
\* steps back and erases.
Put(s, c) ==
    CASE c = NL -> [s EXCEPT !.cursor = (@ + WIDTH) - (@ % WIDTH)]
      [] c = BS -> Store([s EXCEPT !.cursor = @ - 1], Blank)
      [] OTHER  -> [Store(s, c) EXCEPT !.cursor = @ + 1]

vga_write_char(s, c) == Put(Checked(s), c)

\* One character after the other.
vga_write(s, str) ==
    LET w[k \in 0 .. Len(str)] == IF k = 0 THEN s ELSE vga_write_char(w[k - 1], str[k])
    IN  w[Len(str)]

\* kprintf called by a handler, with interrupts off.
Printed(s, item) ==
    LET k == kprintf(item)
        t == vga_write(s, k.text)
        r == itoa(t.buf, k.conv[1], k.conv[2])
    IN  IF k.conv = <<>> THEN t
        ELSE vga_write([t EXCEPT !.buf = r.buf], StringAt(r.buf, r.at))

HandlerPrints(s) ==
    LET p[k \in 0 .. Len(IrqItems)] == IF k = 0 THEN s ELSE Printed(p[k - 1], IrqItems[k])
    IN  p[Len(IrqItems)]

Becomes(s) ==
    /\ vga_mem' = s.mem /\ cursor' = s.cursor /\ buf' = s.buf
    /\ paper' = s.paper /\ top' = s.top

-----------------------------------------------------------------------------
\* vga_init has written blanks everywhere and put the cursor at the start.
Init ==
    /\ vga_mem = [i \in 0 .. BUFFER_LEN - 1 |-> Blank]
    /\ cursor = 0
    /\ buf = [i \in 0 .. LastDigit + 1 |-> NUL]
    /\ todo = <<>> /\ conv = <<>>
    /\ at = LastDigit + 1
    /\ pc = "idle"
    /\ paper = <<>>
    /\ top = 0
    /\ num = [val |-> 0, base |-> 10, shown |-> <<>>, alone |-> TRUE]

InNumber == buf[at] # NUL

\* kmain calls kprintf.
Call(item) ==
    /\ pc = "idle" /\ todo = <<>> /\ conv = <<>> /\ ~ InNumber
    /\ top * WIDTH + cursor < MaxRows * WIDTH
    /\ todo' = kprintf(item).text
    /\ conv' = kprintf(item).conv
    /\ UNCHANGED <<vga_mem, cursor, buf, at, pc, paper, top, num>>

\* kprintf calls itoa.
Convert ==
    /\ pc = "idle" /\ todo = <<>> /\ conv # <<>>
    /\ LET r == itoa(buf, conv[1], conv[2]) IN buf' = r.buf /\ at' = r.at
    /\ num' = [val |-> conv[1], base |-> conv[2], shown |-> <<>>, alone |-> TRUE]
    /\ conv' = <<>>
    /\ UNCHANGED <<vga_mem, cursor, todo, pc, paper, top>>

\* vga_write_char, first part and second part.  vga_write has read the
\* character from the text, or from the buffer.
WriteCheck ==
    /\ pc = "idle"
    /\ \/ /\ todo # <<>>
          /\ pc' = Head(todo) /\ todo' = Tail(todo)
          /\ UNCHANGED <<at, num>>
       \/ /\ todo = <<>> /\ conv = <<>> /\ InNumber
          /\ pc' = buf[at] /\ at' = at + 1
          /\ num' = [num EXCEPT !.shown = Append(@, buf[at])]
          /\ UNCHANGED todo
    /\ Becomes(Checked(Screen))
    /\ UNCHANGED conv

WritePut ==
    /\ pc # "idle"
    /\ Becomes(Put(Screen, pc))
    /\ pc' = "idle"
    /\ UNCHANGED <<todo, conv, at, num>>

\* An interrupt handler prints.
Irq ==
    /\ pc = "idle" \/ Inside
    /\ top * WIDTH + cursor < MaxRows * WIDTH
    /\ Becomes(HandlerPrints(Screen))
    /\ num' = [num EXCEPT !.alone = @ /\ \A k \in DOMAIN IrqItems : kprintf(IrqItems[k]).conv = <<>>]
    /\ UNCHANGED <<todo, conv, at, pc>>

Next == (\E item \in Items : Call(item)) \/ Convert \/ WriteCheck \/ WritePut \/ Irq

Spec == Init /\ [][Next]_vars

-----------------------------------------------------------------------------
(* Properties.                                                             *)

\* What the paper shows at position i.
OnPaper(i) == IF i \in DOMAIN paper THEN paper[i] ELSE Blank

\* The screen is a window on everything that was printed: HEIGHT rows from
\* row top on, each character where it belongs and nothing left over, through
\* any number of scrolls, newlines and interrupts between two characters.
WindowOnPaper ==
    \A i \in 0 .. BUFFER_LEN - 1 : vga_mem[i] = OnPaper(top * WIDTH + i)

\* vga_scroll's comment: it "is called when we reach the end of video memory".
\* So the cursor never passes the end, and nothing is written behind it.
CursorInScreen == cursor \in 0 .. BUFFER_LEN /\ DOMAIN vga_mem = 0 .. BUFFER_LEN - 1

\* Value of a sequence of digits.
ValueOf(str, base) ==
    LET v[k \in 0 .. Len(str)] ==
            IF k = 0 THEN 0
            ELSE v[k - 1] * base + (CHOOSE n \in 1 .. 16 : Digit[n] = str[k]) - 1
    IN  v[Len(str)]

\* The number as it will have come out: what was written and what is left.
Number == num.shown \o StringAt(buf, at)

\* A number comes out so that it reads back, in its base, as the word that was
\* converted, without leading zeros: unless a handler converts one meanwhile.
NumbersReadBack ==
    num.alone /\ Number # <<>> =>
        /\ ValueOf(Number, num.base) = num.val
        /\ Head(Number) = "0" => num.val = 0

\* A handler that converts a number replaces digits of the one that is being
\* written, in the one static buffer.  It never makes it longer or shorter:
\* vga_write stops at the end of the buffer's string and finds digits there.
NumberKeepsLength ==
    Number # <<>> =>
        /\ Len(Number) = DigitCount(num.val, num.base)
        /\ \A k \in DOMAIN Number : \E n \in 1 .. 16 : Number[k] = Digit[n]
=============================================================================
