------------------------------- MODULE Monitor ------------------------------
(***************************************************************************)
(* The text cursor of monitor.c: cursor_x, cursor_y, and how monitor_put(), *)
(* monitor_write() and monitor_init() move it.  The screen is 80 columns  *)
(* by 25 rows; rows 0..23 hold the scrolling text, row 24 is the status    *)
(* line timer_task and console_device() write with monitor_writexy(),     *)
(* which never moves the cursor.  A cursor is a record [x, y]; the         *)
(* characters are told apart only as far as monitor_put() does for the   *)
(* ones its callers print: a backspace, a newline, anything printable;     *)
(* a string the kernel prints is a count of printable characters.         *)
(* update_cursor() programs the VGA cursor registers and changes no       *)
(* variable of the kernel.                                                 *)
(***************************************************************************)
EXTENDS Naturals, Sequences

Cols == 80
StatusRow == 24

\* scroll(): from row 24 on, rows 1..23 move up, row 23 is blanked and
\* the cursor goes to row 23; then update_cursor().
Scroll(cur) == IF cur.y >= StatusRow THEN [cur EXCEPT !.y = StatusRow - 1]
                                     ELSE cur

\* monitor_put(c), first part: a backspace goes back a column, or to the
\* end of the row above from column 0 (and stays at 0,0), blanking the
\* cell it reaches; a newline goes to the start of the next row; a
\* printable character is stored and the column advances.
Advance(cur, c) ==
    CASE c = "bs"    -> IF cur.x > 0 THEN [cur EXCEPT !.x = @ - 1]
                        ELSE IF cur.y > 0 THEN [x |-> Cols - 1, y |-> cur.y - 1]
                        ELSE cur
      [] c = "nl"    -> [x |-> 0, y |-> cur.y + 1]
      [] c = "print" -> [cur EXCEPT !.x = @ + 1]

\* monitor_put(c), second part: past column 79 the cursor wraps to the
\* next row; then scroll() and update_cursor().
Put(cur, c) == LET a == Advance(cur, c)
                   w == IF a.x >= Cols THEN [x |-> 0, y |-> a.y + 1] ELSE a
               IN  Scroll(w)

\* monitor_write() of n printable characters: monitor_put() of each in
\* turn.  The characters that fit on the cursor's row advance the column
\* together (scroll() after each only matters for the first, when the
\* cursor was past row 23), the one reaching column 80 wraps, and the
\* rest go on from the next row.
RECURSIVE PutText(_, _)
PutText(cur, n) ==
    IF n = 0 THEN cur
    ELSE LET k == IF n < Cols - cur.x THEN n ELSE Cols - cur.x
             a == [cur EXCEPT !.x = @ + k]
             w == IF a.x >= Cols THEN [x |-> 0, y |-> a.y + 1] ELSE a
         IN  PutText(Scroll(w), n - k)

\* monitor_init() reads the VGA cursor location register: it selects the
\* low byte (index 0x0F) first, ors it in and shifts it up by 8, then ors
\* in the high byte (index 0x0E).  The position it computes is the BIOS
\* position pos with its two bytes swapped.
SwapBytes(pos) == (pos % 256) * 256 + pos \div 256

\* monitor_init() without its final scroll().
MonitorInitNoScroll(pos) == [x |-> 0, y |-> SwapBytes(pos) \div Cols + 1]

\* monitor_init(): the line below that position, column 0, then scroll().
MonitorInit(pos) == Scroll([x |-> 0, y |-> SwapBytes(pos) \div Cols + 1])
=============================================================================
