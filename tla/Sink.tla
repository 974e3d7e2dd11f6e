--------------------------------- MODULE Sink ---------------------------------
(***************************************************************************)
(* The sink of the golden dataset (tools/shadow/sink.py): it follows a     *)
(* file the proxy is appending to and loads each line once into SQLite,    *)
(* with the production thread that an earlier line told it.  Either        *)
(* process may be killed at any step.                                      *)
(***************************************************************************)
EXTENDS Integers, Sequences, FiniteSets

CONSTANTS Opens,        \* the records that are open_thread pairs
          MaxRecords, MaxKills   \* bounds

VARIABLES
  file,      \* what is in the file: the two halves of records, in order
  passPos,   \* halves this pass has read, -1 between two passes
  passLine,  \* its line number, enumerate()'s n
  doneLines, \* the lines that were in ingest when it began
  rows,      \* rows of its open transaction
  table,     \* committed rows; each is also a line of ingest
  known,     \* prod_threads names the production thread
  shifted,   \* history: a line was read in two pieces: never, earlier, or now (this pass)
  kills

sinkVars == <<file, passPos, passLine, doneLines, rows, table, known, shifted, kills>>

Between == -1

SinkInit ==
  /\ file = <<>> /\ passPos = Between /\ passLine = 0 /\ doneLines = {}
  /\ rows = {} /\ table = {} /\ known = FALSE /\ shifted = "never" /\ kills = 0

\* Halves: a record's second half ends with the newline.
Ends(half)   == half[2] = "rest"
Written      == {file[i][1] : i \in 1 .. Len(file)}
HalfWritten  == file # <<>> /\ ~ Ends(file[Len(file)]) /\ file[Len(file)][2] # "cut"
NextRecord   == Cardinality(Written) + 1

\* Recorder.write: one write, which a reader may see half done.
Write ==
  /\ ~ HalfWritten /\ NextRecord <= MaxRecords
  /\ LET r == NextRecord IN
     file' \in {file \o <<<<r, "head">>>>, file \o <<<<r, "head">>, <<r, "rest">>>>}
  /\ UNCHANGED <<passPos, passLine, doneLines, rows, table, known, shifted, kills>>

WriteRest ==
  /\ HalfWritten
  /\ file' = Append(file, <<file[Len(file)][1], "rest">>)
  /\ UNCHANGED <<passPos, passLine, doneLines, rows, table, known, shifted, kills>>

\* The proxy is killed within a write: its next record joins the torn line.
ProxyKilled ==
  /\ HalfWritten /\ kills < MaxKills
  /\ kills' = kills + 1
  /\ file' = [file EXCEPT ![Len(file)][2] = "cut"]
  /\ UNCHANGED <<passPos, passLine, doneLines, rows, table, known, shifted>>

-----------------------------------------------------------------------------
\* ingest_file begins: what is in ingest is not loaded again.
BeginPass ==
  /\ passPos = Between
  /\ passPos' = 0 /\ passLine' = 0
  /\ doneLines' = {row.line : row \in table}
  /\ shifted' = IF shifted = "now" THEN "earlier" ELSE shifted
  /\ UNCHANGED <<file, rows, table, known, kills>>

\* Where readline stops when it starts after half p: behind the next newline,
\* or at the end of the file.
LineEnd(p) ==
  LET ends == {i \in p + 1 .. Len(file) : Ends(file[i])} IN
  IF ends = {} THEN Len(file) ELSE CHOOSE i \in ends : \A j \in ends : i <= j

\* Only a whole record is JSON.
Decodes(p, q) ==
  q = p + 2 /\ file[p + 1][2] = "head" /\ file[q] = <<file[p + 1][1], "rest">>

\* Bug: a line that does not decode is listed in ingest as well.
LoadsAnything(p, q) == passLine' \notin doneLines

\* A line is loaded unless it is in ingest or does not decode (yet).
Loads(p, q) == passLine' \notin doneLines /\ Decodes(p, q)

\* The loop body of ingest_file: one line, however far the writer is.
ReadLine ==
  /\ passPos # Between /\ passPos < Len(file)
  /\ LET q == LineEnd(passPos)
         r == file[passPos + 1][1]
     IN
     /\ passPos' = q /\ passLine' = passLine + 1
     /\ shifted' = IF passPos > 0 /\ ~ Ends(file[passPos]) THEN "now" ELSE shifted
     /\ IF Loads(passPos, q)
        THEN /\ known' = (known \/ r \in Opens)
             /\ rows' = rows \cup {[line |-> passLine', rec |-> r, prod |-> known']}
        ELSE UNCHANGED <<known, rows>>
  /\ UNCHANGED <<file, doneLines, table, kills>>

\* The end of the file: one commit; INSERT OR REPLACE by line.
Commit ==
  /\ passPos = Len(file)
  /\ table' = rows \cup {row \in table : \A new \in rows : new.line # row.line}
  /\ rows' = {} /\ passPos' = Between
  /\ UNCHANGED <<file, passLine, doneLines, known, shifted, kills>>

\* The sink is killed, or a half character raises: the transaction is rolled
\* back, and the next run reads prod_threads from the threads table.
SinkKilled ==
  /\ kills < MaxKills
  /\ kills' = kills + 1
  /\ rows' = {} /\ passPos' = Between
  /\ known' = (\E row \in table : row.rec \in Opens)
  /\ UNCHANGED <<file, passLine, doneLines, table, shifted>>

SinkNext ==
  Write \/ WriteRest \/ ProxyKilled \/ BeginPass \/ ReadLine \/ Commit \/ SinkKilled

SinkSpec == SinkInit /\ [][SinkNext]_sinkVars

-----------------------------------------------------------------------------
LineOf(i) == Cardinality({j \in 1 .. i : Ends(file[j])})
Whole     == {i \in 2 .. Len(file) : Decodes(i - 2, i) /\ (i = 2 \/ Ends(file[i - 2]))}

\* What ingest_file promises, to "load every not-yet-ingested line": a pass
\* that read each line in one piece leaves no whole line of the file out.
EveryLineLoaded ==
  passPos = Len(file) /\ shifted # "now" =>
    \A i \in Whole : \E row \in table \cup rows : row.rec = file[i][1]

\* Unless a pass has read one line in two pieces: every row is the record at
\* its line of the file, a pass has loaded whatever is whole behind it, so a
\* line that did not decode yet is never given up, and a row knows its
\* production thread exactly if the open_thread pair is in the file up to it,
\* across rolled back passes and restarts.
SinkFaithful ==
  shifted = "never" =>
    /\ \A row \in table \cup rows :
         /\ \E i \in Whole : LineOf(i) = row.line /\ file[i][1] = row.rec
         /\ row.prod <=> \E i \in Whole : file[i][1] \in Opens /\ file[i][1] <= row.rec
    /\ \A i \in Whole : i <= passPos => \E row \in table \cup rows : row.line = LineOf(i)
=============================================================================
