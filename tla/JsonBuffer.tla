----------------------------- MODULE JsonBuffer -----------------------------
(***************************************************************************)
(* The growing text buffer of src/server/json_util.c and the memory it     *)
(* lives in.  A text is a sequence of cells; a cell is a character, or a   *)
(* piece of fixed text that holds nothing to be escaped.                   *)
(* What matters of the sizes is kept: a cell counts one, and the           *)
(* terminating zero needs one more.                                        *)
(***************************************************************************)
EXTENDS Integers, Sequences

CONSTANTS INITIAL_CAP,  \* the capacity the callers ask for
          AllocMayFail  \* whether malloc, calloc and realloc may fail

ASSUME CapAssumption == INITIAL_CAP \in Nat \ {0} /\ AllocMayFail \in BOOLEAN

VARIABLES
  buffer,  \* the JsonBuffer: its text, its capacity, whether data is set
  heap     \* heap[b]: "free", "live", or "corrupt" after a second free

jsonVars == <<buffer, heap>>

NoBuffer == [data |-> <<>>, cap |-> 0, held |-> FALSE]

\* free(p) of a block; free(NULL) is no call of this.
Freed(h, block) == [h EXCEPT ![block] = IF @ = "live" THEN "free" ELSE "corrupt"]
Allocated(h, block) == [h EXCEPT ![block] = "live"]

json_buffer_init == /\ buffer' = [data |-> <<>>, cap |-> INITIAL_CAP, held |-> TRUE]
                    /\ heap' = Allocated(heap, "buffer")

\* Mutant: the terminating zero is forgotten.
RequiredUnterminated(extra) == Len(buffer.data) + extra
Required(extra) == Len(buffer.data) + extra + 1

\* The capacity is doubled until there is room, which takes fewer rounds
\* than there are cells.
Grown(cap, required) ==
  LET Doubled(c) == IF c < required THEN 2 * c ELSE c
      new_cap[k \in 0 .. required] == IF k = 0 THEN cap ELSE Doubled(new_cap[k - 1])
  IN  new_cap[required]

\* json_buffer_reserve, then the copy: json_buffer_append and _appendf.
json_buffer_append(piece) ==
  /\ buffer' = [buffer EXCEPT
                  !.data = @ \o piece,
                  !.cap = IF Required(Len(piece)) <= @ THEN @
                          ELSE Grown(@, Required(Len(piece)))]
  /\ UNCHANGED heap

\* realloc may fail; it then leaves the buffer as it was.
AppendFails(piece) == AllocMayFail /\ Required(Len(piece)) > buffer.cap

\* %d and %zu of json_buffer_appendf: the digits of a number.
Digit == <<"0", "1", "2", "3", "4", "5", "6", "7", "8", "9">>
Decimal(n) ==
  LET size == IF n < 0 THEN -n ELSE n
      digits[k \in 0 .. size] ==
        (IF k < 10 THEN <<>> ELSE digits[k \div 10]) \o <<Digit[(k % 10) + 1]>>
  IN  (IF n < 0 THEN <<"-">> ELSE <<>>) \o digits[size]

Quote == "\""
Escape == "\\"
LineFeed == "\n"

\* Mutant: a quotation mark is copied as it is.
CellsUnquoted(c) == CASE c = Escape -> <<Escape, Escape>>
                      [] c = LineFeed -> <<Escape, "n">>
                      [] c = "ctl"  -> <<Escape, "u", "0", "0", "1", "f">>
                      [] OTHER      -> <<c>>

\* A character in a JSON string.  LineFeed stands for the characters with a
\* letter of their own, "ctl" for the other ones below 0x20.
Cells(c) == CASE c = Escape -> <<Escape, Escape>>
              [] c = Quote  -> <<Escape, Quote>>
              [] c = LineFeed -> <<Escape, "n">>
              [] c = "ctl"  -> <<Escape, "u", "0", "0", "1", "f">>
              [] OTHER      -> <<c>>

\* The pieces json_buffer_append_json_string appends one after the other.
json_buffer_append_json_string(s) ==
  <<<<Quote>>>> \o [i \in DOMAIN s |-> Cells(s[i])] \o <<<<Quote>>>>

\* The caller gets the text; the buffer no longer points to it.
json_buffer_detach == buffer' = NoBuffer

\* json_buffer_destroy, on the heap h.
Destroyed(h) == IF buffer.held THEN Freed(h, "buffer") ELSE h
=============================================================================
