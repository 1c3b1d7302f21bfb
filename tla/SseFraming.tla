----------------------------- MODULE SseFraming -----------------------------
(***************************************************************************)
(* How src/vscode/src/sse.ts cuts decoded text into frames, whatever       *)
(* pieces the text arrives in, and what it reads out of a frame.           *)
(*                                                                         *)
(* A text is a sequence of symbols: CR, LF, D for "data:" and x for any    *)
(* other character.                                                        *)
(***************************************************************************)
EXTENDS Naturals, Sequences, SequencesExt

CONSTANT MaxLength     \* bound: symbols of a text

Symbol == {"CR", "LF", "D", "x"}

Texts == UNION {[1 .. n -> Symbol] : n \in 0 .. MaxLength}

VARIABLES
  text,      \* the whole stream, decoded
  fed,       \* symbols pushed so far
  buffer,    \* this.buffer
  data,      \* data lines dispatched, in order
  ended      \* end() has run

vars == <<text, fed, buffer, data, ended>>

-----------------------------------------------------------------------------
(* FRAME_SEPARATOR, \r?\n\r?\n: where it matches, and how far. *)
SeparatorShapes ==
  {<<"LF", "LF">>, <<"CR", "LF", "LF">>, <<"LF", "CR", "LF">>, <<"CR", "LF", "CR", "LF">>}

(* Mutant of SeparatorsIn: LF LF only, as an earlier version had it. *)
BareSeparatorsIn(s) ==
  {[at |-> i, length |-> 2] : i \in {j \in 1 .. Len(s) - 1 : s[j] = "LF" /\ s[j + 1] = "LF"}}

SeparatorsIn(s) ==
  {m \in [at : 1 .. Len(s), length : 2 .. 4] :
     /\ m.at + m.length - 1 <= Len(s)
     /\ SubSeq(s, m.at, m.at + m.length - 1) \in SeparatorShapes}

(* String.split: cut at the leftmost match, again and again. *)
RECURSIVE Split(_)
Split(s) ==
  IF SeparatorsIn(s) = {} THEN <<s>>
  ELSE LET m == CHOOSE m \in SeparatorsIn(s) : \A o \in SeparatorsIn(s) : m.at <= o.at
       IN <<SubSeq(s, 1, m.at - 1)>> \o Split(SubSeq(s, m.at + m.length, Len(s)))

(* String.trim, for the symbols there are. *)
Blank == {"CR", "LF"}
Trim(s) ==
  LET kept == {i \in DOMAIN s : s[i] \notin Blank}
  IN IF kept = {} THEN <<>>
     ELSE SubSeq(s, CHOOSE i \in kept : \A j \in kept : i <= j,
                    CHOOSE i \in kept : \A j \in kept : j <= i)

(* The lines of a text: cut at \n, with or without a \r before it. *)
RECURSIVE Lines(_)
Lines(s) ==
  IF \A i \in DOMAIN s : s[i] # "LF" THEN <<s>>
  ELSE LET n == CHOOSE i \in DOMAIN s : s[i] = "LF" /\ \A j \in 1 .. i - 1 : s[j] # "LF"
           last == IF n > 1 /\ s[n - 1] = "CR" THEN n - 2 ELSE n - 1
       IN <<SubSeq(s, 1, last)>> \o Lines(SubSeq(s, n + 1, Len(s)))

(* handleFrame: the payload of the first data line, unless it is empty. *)
Payload(frame) ==
  LET found == SelectSeq(Lines(frame), LAMBDA line : line # <<>> /\ line[1] = "D")
  IN IF found = <<>> THEN <<>> ELSE Trim(Tail(found[1]))

Dispatched(frames) ==
  SelectSeq([i \in DOMAIN frames |-> Payload(frames[i])], LAMBDA payload : payload # <<>>)

-----------------------------------------------------------------------------
Init ==
  /\ text \in Texts
  /\ fed = 0 /\ buffer = <<>> /\ data = <<>> /\ ended = FALSE

Push ==
  \E n \in 1 .. Len(text) - fed :
    LET frames == Split(buffer \o SubSeq(text, fed + 1, fed + n)) IN
    /\ data' = data \o Dispatched(Front(frames))
    /\ buffer' = Last(frames)
    /\ fed' = fed + n
    /\ UNCHANGED <<text, ended>>

(* Mutant of End: the trailing frame is dropped, as an earlier version did. *)
EndEmpty ==
  /\ fed = Len(text) /\ ~ended
  /\ buffer' = <<>> /\ ended' = TRUE
  /\ UNCHANGED <<text, fed, data>>

(* end(), once everything has been pushed. *)
End ==
  /\ fed = Len(text) /\ ~ended
  /\ data' = data \o Dispatched(IF Trim(buffer) = <<>> THEN <<>> ELSE Split(Trim(buffer)))
  /\ buffer' = <<>>
  /\ ended' = TRUE
  /\ UNCHANGED <<text, fed>>

Next == Push \/ End

Spec == Init /\ [][Next]_vars

-----------------------------------------------------------------------------
(* The reference, line by line: an event is a run of non-blank lines, its  *)
(* data the first data line of the run, if that is not empty.              *)
EventsIn(lines) ==
  LET isData(i) == lines[i] # <<>> /\ lines[i][1] = "D"
      sameEvent(i, j) == \A k \in i .. j : lines[k] # <<>>
      leading == {i \in DOMAIN lines : isData(i) /\ Trim(Tail(lines[i])) # <<>>
                    /\ \A j \in 1 .. i - 1 : isData(j) => ~ sameEvent(j, i)}
      nth(n) == CHOOSE i \in leading : Cardinality({j \in leading : j <= i}) = n
  IN [n \in 1 .. Cardinality(leading) |-> Trim(Tail(lines[nth(n)]))]

(* The lines up to the last blank one; the last piece is no line yet.      *)
ClosedLines(lines) ==
  LET blank == {i \in 1 .. Len(lines) - 1 : lines[i] = <<>>}
  IN SubSeq(lines, 1, IF blank = {} THEN 0 ELSE Max(blank))

(* A stream whose lines end in LF or CR LF, as the code supposes: in it a  *)
(* CR comes before an LF only.                                             *)
UsualLineEnds ==
  \A i \in DOMAIN text : text[i] = "CR" => i < Len(text) /\ text[i + 1] = "LF"

(* An event is dispatched as soon as the blank line behind it is complete: *)
(* no framing the code accepts makes the buffer withhold one.              *)
EventsPrompt ==
  ~ended /\ UsualLineEnds => data = EventsIn(ClosedLines(Lines(SubSeq(text, 1, fed))))

(* Once the stream has ended, the data of exactly its events have been     *)
(* dispatched, in their order, the last one even without a blank line.     *)
EveryEventOnce == ended /\ UsualLineEnds => data = EventsIn(Lines(text))
=============================================================================
