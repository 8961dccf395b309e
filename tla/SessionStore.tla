---------------------------- MODULE SessionStore ----------------------------
(***************************************************************************)
(* JsonlSessionStore (crates/gooseclaw/src/session.rs): one session's      *)
(* append-only JSONL file, the threads and processes that append to it, a  *)
(* disk that fills up, and crashes.                                        *)
(*                                                                         *)
(* Data.  The line of an event is three pieces: the beginning of its JSON  *)
(* text, the rest of the text, and the newline.  Pieces are what one       *)
(* write(2) may leave off between.  Assumed: a proper part of a text is    *)
(* not JSON, and neither is a line with pieces of two texts.  (The one     *)
(* exception takes a write of a single byte: the first of a text, landing  *)
(* inside a string of another text whose rest follows.)                    *)
(***************************************************************************)
EXTENDS Naturals, Sequences, FiniteSets, SequencesExt

CONSTANTS
  Writers,     \* who calls append
  MaxEvents,   \* bound: calls of append
  MaxFaults    \* bound: write errors and crashes

ASSUME BoundsAssumption == MaxEvents \in Nat /\ MaxFaults \in Nat

Events == 1 .. MaxEvents

Newline == [part |-> "newline"]
Beginning(e) == [part |-> "beginning", event |-> e]
Rest(e) == [part |-> "rest", event |-> e]

Text(e) == <<Beginning(e), Rest(e)>>

Line(e) == Append(Text(e), Newline)

VARIABLES
  file,     \* the pieces in the file
  buffer,   \* per writer, what write_all has left to write of its line
  writing,  \* per writer, the event it appends, or 0
  called,   \* history: number of append calls; the k-th appends event k
  returned, \* history: the events whose append returned Ok, in that order
  loaded,   \* history: the longest list load has returned
  faults    \* history: number of faults

vars == <<file, buffer, writing, called, returned, loaded, faults>>

Init ==
  /\ file = << >>
  /\ buffer = [w \in Writers |-> << >>]
  /\ writing = [w \in Writers |-> 0]
  /\ called = 0
  /\ returned = << >> /\ loaded = << >>
  /\ faults = 0

----------------------------------------------------------------------------
(* append                                                                  *)

\* The file is opened in append mode and write_all begins.
StartAppend(w) ==
  /\ writing[w] = 0 /\ called < MaxEvents
  /\ called' = called + 1
  /\ writing' = [writing EXCEPT ![w] = called']
  /\ buffer' = [buffer EXCEPT ![w] = Line(called')]
  /\ UNCHANGED <<file, returned, loaded, faults>>

\* One write(2): a non-empty part of the buffer lands at the end of the file.
WriteSome(w) ==
  /\ writing[w] # 0 /\ buffer[w] # << >>
  /\ \E n \in 1 .. Len(buffer[w]) :
       /\ file' = file \o SubSeq(buffer[w], 1, n)
       /\ buffer' = [buffer EXCEPT ![w] = SubSeq(@, n + 1, Len(@))]
  /\ UNCHANGED <<writing, called, returned, loaded, faults>>

ReturnOk(w) ==
  /\ writing[w] # 0 /\ buffer[w] = << >>
  /\ returned' = Append(returned, writing[w])
  /\ writing' = [writing EXCEPT ![w] = 0]
  /\ UNCHANGED <<file, buffer, called, loaded, faults>>

Dropped(W) == [w \in Writers |-> IF w \in W THEN << >> ELSE buffer[w]]

\* The appends of W end with nothing more written.
Abandon(W) ==
  /\ writing' = [w \in Writers |-> IF w \in W THEN 0 ELSE writing[w]]
  /\ buffer' = Dropped(W)

\* write(2) fails: append returns the error, what is written stays.
WriteFails(w) ==
  /\ writing[w] # 0 /\ buffer[w] # << >> /\ faults < MaxFaults
  /\ Abandon({w})
  /\ faults' = faults + 1
  /\ UNCHANGED <<file, called, returned, loaded>>

\* The process ends; the file keeps what was written.
Crash ==
  /\ faults < MaxFaults
  /\ \E w \in Writers : writing[w] # 0
  /\ Abandon(Writers)
  /\ faults' = faults + 1
  /\ UNCHANGED <<file, called, returned, loaded>>

----------------------------------------------------------------------------
(* load                                                                    *)

\* A line ends; a blank one is skipped.
Ended(acc) ==
  IF acc.line = << >> THEN acc.lines ELSE Append(acc.lines, acc.line)

\* The reader comes to the next piece.
Reads(acc, piece) ==
  IF piece = Newline THEN [lines |-> Ended(acc), line |-> << >>]
  ELSE [acc EXCEPT !.line = Append(@, piece)]

\* The lines of f that are not blank, an unterminated last one included.
Lines(f) == Ended(FoldLeft(Reads, [lines |-> << >>, line |-> << >>], f))

Parses(l) == \E e \in Events : l = Text(e)

ParsableOnly(ls) == SelectSeq(ls, Parses)     \* faulty: bad lines skipped

LinesToParse(ls) == ls

LoadOk(f) == \A i \in DOMAIN LinesToParse(Lines(f)) :
               Parses(LinesToParse(Lines(f))[i])

LoadResult(f) ==
  [i \in DOMAIN LinesToParse(Lines(f)) |-> LinesToParse(Lines(f))[i][1].event]

Load ==
  /\ LoadOk(file)
  /\ Len(LoadResult(file)) > Len(loaded)
  /\ loaded' = LoadResult(file)
  /\ UNCHANGED <<file, buffer, writing, called, returned, faults>>

Next ==
  \/ \E w \in Writers :
       StartAppend(w) \/ WriteSome(w) \/ ReturnOk(w) \/ WriteFails(w)
  \/ Crash
  \/ Load

Spec == Init /\ [][Next]_vars

----------------------------------------------------------------------------
\* A load that succeeds is complete: whatever was torn, failed or interleaved
\* before, it has every event whose append returned Ok, once, and no event that
\* was never given to append.
LoadIsComplete ==
  LoadOk(file) =>
    LET r == LoadResult(file) IN
    /\ ToSet(returned) \subseteq ToSet(r)
    /\ ToSet(r) \subseteq 1 .. called
    /\ \A i, j \in DOMAIN r : r[i] = r[j] => i = j

\* Two loads that succeed agree: the later one extends the earlier.
HistoryOnlyGrows == LoadOk(file) => IsPrefix(loaded, LoadResult(file))

\* specification.md:73: "GooseClaw owns durable session state and replays context
\* on restart".  Whenever no append is under way, the record can be loaded.
RecordCanBeLoaded == (\A w \in Writers : writing[w] = 0) => LoadOk(file)
=============================================================================
