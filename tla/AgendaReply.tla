------------------------------ MODULE AgendaReply ------------------------------
(***************************************************************************)
(* The length of the JSON text registers_get_json of main/register.c       *)
(* renders, against the buffer http_server_read_register_handler of        *)
(* main/http_server.c gives it.  Lengths are in bytes, of the text         *)
(* cJSON_PrintUnformatted prints.                                          *)
(***************************************************************************)
EXTENDS Agenda, FiniteSets, FiniteSetsExt

ReplyBuffer == 1536   \* char json[1536], its final NUL included

DigitsOf(n) == IF n < 10 THEN 1 ELSE IF n < 100 THEN 2 ELSE 3

\* Two letters per day and the commas between them, or "Sin d(i acute)as"
SummaryLength(days) == IF days = {} THEN 9 ELSE 3 * Cardinality(days) - 1

\* "HH:MM (days) -> P%", or "--"
LabelLength(e) ==
  IF e = Empty
  THEN 2
  ELSE 5 + 2 + SummaryLength(e.days) + 1 + 4 + DigitsOf(e.pct) + 1

\* {"id":..,"active":..,"hour":..,"minutes":..,"curtain_percent":..,
\* "days":[..],"label":".."}: 82 bytes of keys and punctuation, "true" or
\* "false" for eight flags, the numbers and the label
ItemLength(i, e) ==
  LET numbers == IF e = Empty
                 THEN 3
                 ELSE DigitsOf(e.hour) + DigitsOf(e.minutes) + DigitsOf(e.pct)
      trueFlags == IF e = Empty THEN 0 ELSE 1 + Cardinality(e.days)
  IN  82 + DigitsOf(i) + numbers + (5 * 8 - trueFlags) + LabelLength(e)

\* {"registers":[items separated by commas]}
AgendaLength(table) ==
  16 + (NumRegisters - 1)
     + MapThenSumSet(LAMBDA i : ItemLength(i, table[i]), Registers)

\* The reply to a request about the agenda holds all of it: strlcpy does not
\* cut the text, which a browser could then not parse.
AgendaFitsReply == AgendaLength(ram) < ReplyBuffer

=============================================================================
