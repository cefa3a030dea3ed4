------------------------------ MODULE EventStream ------------------------------
(***************************************************************************)
(* The body of one streaming request: how handleRequest() writes events,   *)
(* and how parseSSE() gets them back from chunks that the network cuts     *)
(* anywhere, inside a character too.                                       *)
(*                                                                         *)
(* A text is a sequence of characters, and is sent as bytes, one or        *)
(* several for a character.  A place in the body is therefore a number of  *)
(* whole characters and of bytes of the next.  The six characters `data: ` *)
(* are one here, "data".                                                   *)
(***************************************************************************)
EXTENDS Integers, Sequences, FiniteSetsExt, SequencesExt

CONSTANTS
  Char,       \* the characters of the texts considered
  Size,       \* Size[c]: the number of bytes of c in UTF-8
  Document,   \* the JSON texts considered, as JSON.stringify() makes them
  MaxInBody   \* bound: events of one body

ASSUME StreamAssumption ==
  /\ Size \in [Char -> Nat \ {0}]
  /\ {"nl", "data"} \subseteq Char
  /\ MaxInBody \in Nat
  /\ Document \subseteq Seq(Char) \ {<<>>}
  /\ \A text \in Document :
       text[1] # "data" /\ \A i \in 1 .. Len(text) : text[i] # "nl"

VARIABLES
  written,  \* the events the stream handler has yielded
  body,     \* what the server has sent of the response's body
  ended,    \* has it ended the response?
  reader,   \* sendStream(): "fetching", "reading", "done" or "failed"
  read,     \* the whole characters of the body that have arrived
  half,     \* the bytes of the next one that have arrived
  buffer,   \* decoded and not yet split off
  yielded   \* the events parseSSE() has yielded

serverSide == <<written, body, ended>>
clientSide == <<reader, read, half, buffer, yielded>>
streamVars == <<serverSide, clientSide>>

(* The request is answered with a stream or, where there is no stream      *)
(* handler, with one JSON document.                                        *)
StreamInit ==
  /\ written = <<>> /\ yielded = <<>> /\ buffer = <<>>
  /\ reader = "fetching" /\ read = 0 /\ half = 0
  /\ \/ body = <<>> /\ ended = FALSE
     \/ body \in Document /\ ended = TRUE

-----------------------------------------------------------------------------
(* The server. *)

Frame(event) == <<"data">> \o event \o <<"nl", "nl">>

Write(event) ==
  /\ ~ended /\ Len(written) < MaxInBody
  /\ written' = Append(written, event)
  /\ body' = body \o Frame(event)
  /\ UNCHANGED <<ended, clientSide>>

End ==
  /\ ~ended
  /\ ended' = TRUE
  /\ UNCHANGED <<written, body, clientSide>>

-----------------------------------------------------------------------------
(* The client. *)

BlanksOf(text) == {i \in 1 .. Len(text) - 1 : text[i] = "nl" /\ text[i + 1] = "nl"}

(* The event in a part: its first line that starts with "data", if any.    *)
EventIn(part) ==
  LET starts == {i \in 1 .. Len(part) : part[i] = "data" /\ (i = 1 \/ part[i - 1] = "nl")}
      EndOf(i) == Min({j \in i .. Len(part) + 1 : j = Len(part) + 1 \/ part[j] = "nl"})
  IN  IF starts = {} THEN <<>> ELSE <<SubSeq(part, Min(starts) + 1, EndOf(Min(starts)) - 1)>>

(* Mutant: the decoder is not told that more bytes will come, and replaces *)
(* each piece of a character that was cut.                                 *)
Decoded_Whole(n, k) ==
  [i \in 1 .. n - read |-> IF i = 1 /\ half > 0 THEN "?" ELSE body[read + i]]
    \o (IF k > 0 THEN <<"?">> ELSE <<>>)

(* TextDecoder: the text of the bytes up to the place <<n, k>>.  It holds   *)
(* back the k bytes until the rest of the character has come.              *)
Decoded(n, k) == SubSeq(body, read + 1, n)

OpenBody ==
  /\ reader = "fetching"
  /\ body # <<>> \/ ended
  /\ reader' = "reading"
  /\ UNCHANGED <<serverSide, read, half, buffer, yielded>>

(* A chunk that ends at <<n, k>>.  The loop reads the next one when it has *)
(* yielded all events of the last.                                         *)
ReadChunk(n, k) ==
  /\ reader = "reading" /\ BlanksOf(buffer) = {}
  /\ n > read \/ k > half
  /\ read' = n /\ half' = k
  /\ buffer' = buffer \o Decoded(n, k)
  /\ UNCHANGED <<serverSide, reader, yielded>>

(* The next of `parts`: what is in front of the first blank line.          *)
NextPart ==
  /\ reader = "reading" /\ BlanksOf(buffer) # {}
  /\ LET i == Min(BlanksOf(buffer)) IN
       /\ yielded' = yielded \o EventIn(SubSeq(buffer, 1, i - 1))
       /\ buffer' = SubSeq(buffer, i + 2, Len(buffer))
  /\ UNCHANGED <<serverSide, reader, read, half>>

(* Mutant: the stream is taken to be over when nothing is left to read. *)
ReadToEnd_NothingLeft ==
  /\ reader = "reading" /\ BlanksOf(buffer) = {}
  /\ read = Len(body)
  /\ reader' = "done"
  /\ yielded' = yielded \o EventIn(buffer)
  /\ buffer' = <<>>
  /\ UNCHANGED <<serverSide, read, half>>

(* The end of the body: what is left over counts as a part.                *)
ReadToEnd ==
  /\ reader = "reading" /\ BlanksOf(buffer) = {}
  /\ ended /\ read = Len(body)
  /\ reader' = "done"
  /\ yielded' = yielded \o EventIn(buffer)
  /\ buffer' = <<>>
  /\ UNCHANGED <<serverSide, read, half>>

(* The connection breaks or the timer aborts it: read() rejects.           *)
ReadFails ==
  /\ reader \in {"fetching", "reading"} /\ BlanksOf(buffer) = {}
  /\ reader' = "failed"
  /\ UNCHANGED <<serverSide, read, half, buffer, yielded>>

-----------------------------------------------------------------------------
(* The places a chunk may end at. *)
Bytes(n) == 0 .. (IF n < Len(body) THEN Size[body[n + 1]] - 1 ELSE 0)

StreamNext ==
  \/ \E event \in Document : Write(event)
  \/ End
  \/ OpenBody
  \/ \E n \in read .. Len(body) : \E k \in Bytes(n) : ReadChunk(n, k)
  \/ NextPart \/ ReadToEnd \/ ReadFails

StreamSpec == StreamInit /\ [][StreamNext]_streamVars

-----------------------------------------------------------------------------
(* However the body of a response is cut, parseSSE() yields the events     *)
(* that were written, in their order, and no others: none when the server  *)
(* answered with one JSON document.  If it ends without an error, it has   *)
(* yielded all.                                                            *)
EventsSurviveChunks ==
  /\ IsPrefix(yielded, written)
  /\ reader = "done" => ended /\ yielded = written

(* HttpTransport counts whole events.  This is its exchange, seen from the *)
(* stream.                                                                 *)
Whole == INSTANCE HttpTransport WITH
  HasCard <- FALSE, Exchange <- {"x"}, MaxEvents <- MaxInBody, MaxServers <- 1,
  server <- 1, handlers <- {"one", "stream"},
  state <- [s \in {1} |-> "open"],
  via <- [x \in {"x"} |-> 1],
  kind <- [x \in {"x"} |-> "stream"],
  client <- [x \in {"x"} |-> IF reader = "reading" THEN "body" ELSE reader],
  timer <- [x \in {"x"} |-> reader = "reading"],
  conn <- [x \in {"x"} |-> reader # "failed"],
  serving <- [x \in {"x"} |-> IF ended THEN "ended" ELSE "streaming"],
  status <- [x \in {"x"} |-> 200],
  sent <- [x \in {"x"} |-> Len(written)],
  got <- [x \in {"x"} |-> Len(yielded)]

(* Every step of the bytes is one that HttpTransport allows the exchange,  *)
(* or none that it sees: an event is counted once when it is written and   *)
(* once when it has arrived as a whole, and the end is read after the      *)
(* last.                                                                   *)
CountsWholeEvents == [][Whole!Next]_(Whole!vars)
=============================================================================
