------------------------------- MODULE Screen -------------------------------
(***************************************************************************)
(* The frame buffer: graphics.c, and who draws during and after the start: *)
(* entry_point its title, com_handler the keys, the exception handlers     *)
(* their messages.  A text is the set of its character cells, because      *)
(* printchar paints every dot of the cell; the glyphs are left out.        *)
(*                                                                         *)
(* com_handler prints to the serial port first, which opens the            *)
(* interrupts: the next handler can begin on the same stack, or on that of *)
(* another thread.  It is two steps; the cursor moves with the second.     *)
(***************************************************************************)
EXTENDS Integers

CONSTANTS
    Word,       \* 2^32: coordinates and indices are uint32_t
    Modes,      \* the modes of the screen: hor, ver, and ppsl dots per line
    Bytes,      \* what is typed
    MaxKeys,    \* bound: how much is typed
    Stacks      \* the stacks that an interrupt can find

ASSUME WordAssumption == Word \in Nat \ {0}
\* A line in memory is as long as one on the screen, or longer.
ASSUME ModesAssumption ==
    \A m \in Modes : /\ m.hor \in Nat \ {0} /\ m.ver \in Nat \ {0} /\ m.ppsl \in Nat
                     /\ m.hor <= m.ppsl /\ m.ppsl * m.ver < Word
ASSUME BytesAssumption == Bytes \subseteq {"printable", "newline", "DEL"}
ASSUME KeysAssumption == MaxKeys \in Nat

VARIABLES
    mode,               \* what the firmware has set
    vinfo_g, gpd,       \* the mode as the kernel turns it, and whether it does
    x_ichi, y_ichi,     \* where the next key is printed
    key,                \* the byte com_handler has read
    handlers,           \* on each stack, the com_handlers that have still to print
    typed,              \* keys so far
    cells               \* the upper left corners of what the last step has printed

screen == <<mode, vinfo_g, gpd>>
cursor == <<x_ichi, y_ichi>>
keyboard == <<key, handlers, typed>>
screenVars == <<screen, cursor, keyboard, cells>>

ScreenInit ==
    /\ mode \in Modes
    /\ vinfo_g = [x_axis |-> 0, y_axis |-> 0, ppsl |-> 0] /\ gpd = 0
    /\ x_ichi = 0 /\ y_ichi = 0 /\ key = "newline"
    /\ handlers = [s \in Stacks |-> 0] /\ typed = 0
    /\ cells = {}

-----------------------------------------------------------------------------
\* A screen that stands upright is used lying on its side.
init_graphics ==
    /\ gpd' = IF mode.hor < mode.ver THEN 1 ELSE 0
    /\ vinfo_g' = [x_axis |-> IF gpd' = 1 THEN mode.ver ELSE mode.hor,
                   y_axis |-> IF gpd' = 1 THEN mode.hor ELSE mode.ver,
                   ppsl |-> mode.ppsl]
    /\ cells' = {}
    /\ UNCHANGED <<mode, cursor, keyboard>>

\* Mutant: the lines are counted from 1 when they become columns.
draw_dot_from_one(x, y) ==
    IF x < vinfo_g.x_axis /\ y < vinfo_g.y_axis
    THEN {IF gpd = 1 THEN (vinfo_g.y_axis - y + x * vinfo_g.ppsl) % Word
          ELSE (x + y * vinfo_g.ppsl) % Word}
    ELSE {}

\* The indices in fb that are written for the dot at x, y: one, or none when it
\* lies outside.
draw_dot(x, y) ==
    IF x < vinfo_g.x_axis /\ y < vinfo_g.y_axis
    THEN {IF gpd = 1 THEN (vinfo_g.y_axis - y - 1 + x * vinfo_g.ppsl) % Word
          ELSE (x + y * vinfo_g.ppsl) % Word}
    ELSE {}

printchar(cell) ==
    UNION {draw_dot((cell[1] + j) % Word, (cell[2] + i) % Word) : i \in 0..15, j \in 0..7}

\* A string of n characters; printnum prints 18, "0x" and 16 digits.
printstr(x, y, n) == {<<(x + 8 * i) % Word, y % Word>> : i \in 0..(n - 1)}
printstrnum(x, y, len) == printstr(x, y, len) \cup printstr(x + 8 * len, y, 18)

print_title ==
    /\ cells' = printstr(0, 0, 46)
    /\ UNCHANGED <<screen, cursor, keyboard>>

-----------------------------------------------------------------------------
\* The interrupt of the serial port on stack s: the byte is read.
com_handler(s) ==
    /\ typed < MaxKeys
    /\ typed' = typed + 1
    /\ key' \in Bytes
    /\ handlers' = [handlers EXCEPT ![s] = @ + 1]
    /\ cells' = {}
    /\ UNCHANGED <<screen, cursor>>

\* The innermost handler on s goes on, with what key holds by now.
com_handler_shows(s) ==
    /\ handlers[s] > 0
    /\ handlers' = [handlers EXCEPT ![s] = @ - 1]
    /\ CASE key = "printable" ->
              /\ cells' = printstr(50 + x_ichi, 50 + y_ichi, 1)
              /\ x_ichi' = (x_ichi + 8) % Word /\ UNCHANGED y_ichi
         [] key = "DEL" ->
              /\ x_ichi' = (x_ichi - 8) % Word /\ UNCHANGED y_ichi
              /\ cells' = printstr(50 + x_ichi', 50 + y_ichi, 1)
         [] OTHER ->
              /\ x_ichi' = 0 /\ y_ichi' = (y_ichi + 16) % Word
              /\ cells' = {}
    /\ UNCHANGED <<screen, key, typed>>

\* The name of the exception, and six lines: the error code, rip, cs, rflags,
\* rsp and ss, or what lies there.  Vectors 8 to 14 and 17 come with an error
\* code, the others without, although each handler expects one: of those, each
\* line but the last shows the value that belongs on the next.
Lines == UNION {printstrnum(100, 100 + 16 * i, 12) : i \in 0..5}
faults_to_7(v) == v \in 0..7 /\ cells' = Lines \cup printstr(100, 84, IF v = 2 THEN 4 ELSE 3)
faults_to_14(v) == v \in {8} \cup (10..14) /\ cells' = Lines \cup printstr(100, 84, 3)
faults_to_19(v) == v \in 16..19 /\ cells' = Lines \cup printstr(100, 84, 3)

exception_handler(v) ==
    /\ faults_to_7(v) \/ faults_to_14(v) \/ faults_to_19(v)
    /\ UNCHANGED <<screen, cursor, keyboard>>

-----------------------------------------------------------------------------
\* Every dot that is written is a dot of the screen, wherever the cursor has got
\* to and whichever way the screen stands: none in the part of a line that is
\* not shown, and none outside the frame buffer (draw_dot, com_handler).
DotsInFrame ==
    \A cell \in cells : \A i \in printchar(cell) :
        i % mode.ppsl < mode.hor /\ i \div mode.ppsl < mode.ver
=============================================================================
