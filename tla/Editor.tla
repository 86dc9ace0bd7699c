------------------------------- MODULE Editor -------------------------------
(***************************************************************************)
(* The line editor of shell.c over the file system: cmd_edit reads a file  *)
(* into an array of rows, each line typed from then on edits the rows, "." *)
(* writes them to the file.                                                *)
(*                                                                         *)
(* A row is what strncpy leaves in its EDIT_LINE_LEN bytes: a text that is *)
(* too long fills it and has no end, and who reads it runs into the next.  *)
(* readline gives lines of up to 127 characters and a row has 120 bytes.   *)
(* Rows that the editor no longer counts keep what they held.              *)
(***************************************************************************)
EXTENDS FsTree, SequencesExt

CONSTANTS
    EDIT_MAX_LINES,     \* rows (200)
    EDIT_LINE_LEN,      \* bytes of a row (120)
    NewLine,            \* one of the Bytes
    EditPath,           \* the file that is edited
    BootTrees,          \* arrays of the file system at the start
    Texts,              \* lines that are typed and are not commands
    Beyond              \* what lies in memory behind the last row, up to a zero

ASSUME EditorSizes ==
    /\ EDIT_MAX_LINES \in Nat \ {0}
    /\ EDIT_LINE_LEN \in Nat \ {0, 1}
    /\ Texts \cup {Beyond} \subseteq Seq(Bytes \ {NewLine})

VARIABLES
    rows,       \* edit_lines
    n_lines,    \* edit_n_lines
    editing,
    meant,      \* history: the lines, as who types them sees them
    promised    \* history: what the save under way must write, or NULL

editVars == <<rows, n_lines, editing>>
vars == <<fsVars, editVars, meant, promised>>

Rows == 0 .. EDIT_MAX_LINES - 1
Cut(text) == SubSeq(text, 1, IF Len(text) < EDIT_LINE_LEN THEN Len(text) ELSE EDIT_LINE_LEN)

\* The characters from row i up to the first zero.
Text(i) ==
    LET from[k \in 0 .. EDIT_MAX_LINES] ==
            IF k = EDIT_MAX_LINES THEN Beyond
            ELSE IF Len(rows[k]) < EDIT_LINE_LEN THEN rows[k]
            ELSE rows[k] \o from[k + 1]
    IN from[i]
Listed == [k \in 1 .. n_lines |-> Text(k - 1)]

Init ==
    /\ files \in BootTrees
    /\ op = Idle
    /\ room = REGION_SIZE
    /\ rows = [i \in Rows |-> <<>>]
    /\ n_lines = 0
    /\ editing = FALSE
    /\ meant = <<>>
    /\ promised = NULL

------------------------------------------------------------------------------
(* cmd_edit                                                                 *)

\* The contents from a position on, as pieces that end with a new line or
\* when the row is full.
Pieces(data) ==
    LET Ends(i) == {j \in i .. Len(data) : data[j] = NewLine}
        End(i) == Lowest(Ends(i) \cup {Len(data) + 1, i + EDIT_LINE_LEN - 1})
        After(i) == IF End(i) <= Len(data) /\ data[End(i)] = NewLine THEN End(i) + 1 ELSE End(i)
        from[i \in 1 .. Len(data) + 2] ==
            IF i > Len(data) THEN <<>>
            ELSE <<SubSeq(data, i, End(i) - 1)>> \o from[After(i)]
    IN from[1]

\* The lines of a text: what lies between its new lines.
LinesOf(data) ==
    LET ends == {0} \cup {j \in 1 .. Len(data) : data[j] = NewLine}
        next(j) == Lowest({k \in ends : k > j} \cup {Len(data) + 1})
        begins == SetToSortSeq({j \in ends : j < Len(data)}, <)
    IN [k \in 1 .. Len(begins) |-> SubSeq(data, begins[k] + 1, next(begins[k]) - 1)]

\* Lines that the array can hold as they are.
Holds(lines) ==
    Len(lines) <= EDIT_MAX_LINES /\ \A k \in 1 .. Len(lines) : Len(lines[k]) < EDIT_LINE_LEN

Opened(data) ==
    LET pieces == SubSeq(Pieces(data), 1, Min({EDIT_MAX_LINES, Len(Pieces(data))}))
    IN /\ rows' = [i \in Rows |-> IF i < Len(pieces) THEN pieces[i + 1] ELSE rows[i]]
       /\ n_lines' = Len(pieces)
       /\ meant' = IF Holds(LinesOf(data)) THEN LinesOf(data) ELSE pieces

CmdEdit ==
    /\ ~editing /\ ~Busy
    /\ editing' = TRUE
    /\ LET i == Resolve(files, EditPath) IN
       IF i # None /\ ~files[i].is_dir /\ files[i].size > 0
       THEN \E data \in Reads(i) : Opened(data)
       ELSE Opened(<<>>)
    /\ UNCHANGED <<fsVars, promised>>

------------------------------------------------------------------------------
(* edit_process_line; a number that is out of range changes nothing         *)

Typing == editing /\ ~Busy
Same == editing' = editing /\ UNCHANGED <<fsVars, promised>>

Quit ==
    /\ Typing
    /\ editing' = FALSE
    /\ UNCHANGED <<fsVars, rows, n_lines, meant, promised>>

DeleteLine(idx) ==
    /\ Typing /\ idx < n_lines
    /\ rows' = [i \in Rows |-> IF idx <= i /\ i < n_lines - 1 THEN rows[i + 1] ELSE rows[i]]
    /\ n_lines' = n_lines - 1
    /\ meant' = RemoveAt(meant, idx + 1)
    /\ Same

ReplaceLine(idx, text) ==
    /\ Typing /\ idx < n_lines
    /\ rows' = [rows EXCEPT ![idx] = Cut(text)]
    /\ UNCHANGED n_lines
    /\ meant' = ReplaceAt(meant, idx + 1, text)
    /\ Same

Shifted_Upwards(idx) ==     \* mutant: the loop runs the other way
    [i \in Rows |-> IF idx < i /\ i <= n_lines THEN rows[idx] ELSE rows[i]]
Shifted(idx) == [i \in Rows |-> IF idx < i /\ i <= n_lines THEN rows[i - 1] ELSE rows[i]]

InsertLine(idx, text) ==
    /\ Typing /\ idx <= n_lines
    /\ n_lines < EDIT_MAX_LINES
    /\ rows' = [Shifted(idx) EXCEPT ![idx] = Cut(text)]
    /\ n_lines' = n_lines + 1
    /\ meant' = InsertAt(meant, idx + 1, text)
    /\ Same

RoomForLine == n_lines < EDIT_MAX_LINES

AppendLine(text) ==
    /\ Typing
    /\ RoomForLine
    /\ rows' = [i \in Rows |-> IF i = n_lines THEN Cut(text) ELSE rows[i]]
    /\ n_lines' = n_lines + 1
    /\ meant' = Append(meant, text)
    /\ Same

\* One fs_append for each line and one for its new line, whose results nobody
\* looks at.  Each of them takes memory for the whole file so far.
Writes(lines) == FlattenSeq([k \in 1 .. Len(lines) |-> <<lines[k], <<NewLine>>>>])
Whole(lines) == FlattenSeq(Writes(lines))
Cost(lines) ==
    FoldLeft(+, 0, [k \in 1 .. Len(Writes(lines)) |-> Len(FlattenSeq(SubSeq(Writes(lines), 1, k)))])

SaveLines ==
    /\ Typing
    /\ editing' = FALSE
    /\ Begin("create", "edit", EditPath, None, Writes(Listed))
    /\ promised' = IF /\ Holds(meant)
                      /\ Cost(meant) <= room
                      /\ Len(Whole(meant)) <= MAX_FILE_SIZE
                   THEN Whole(meant) ELSE NULL
    /\ UNCHANGED <<files, room, rows, n_lines, meant>>

Saving ==
    /\ OpStep
    /\ promised' = IF op' = Idle THEN NULL ELSE promised
    /\ UNCHANGED <<editVars, meant>>

Next ==
    \/ CmdEdit \/ Quit \/ SaveLines \/ Saving
    \/ \E text \in Texts : AppendLine(text)
    \/ \E idx \in Rows : DeleteLine(idx)
    \/ \E idx \in Rows, text \in Texts : ReplaceLine(idx, text) \/ InsertLine(idx, text)

Spec == Init /\ [][Next]_vars

------------------------------------------------------------------------------
(* Properties                                                               *)

TypeOK ==
    /\ files \in [Slots -> Node]
    /\ room \in 0 .. REGION_SIZE
    /\ n_lines \in 0 .. EDIT_MAX_LINES
    /\ \A i \in Rows : rows[i] \in Seq(Bytes \ {NewLine}) /\ Len(rows[i]) <= EDIT_LINE_LEN
    /\ editing \in BOOLEAN

\* A save for which there is memory, counted as fs_append uses it, writes the
\* lines that were typed, inserted, replaced and deleted, and those that the file
\* had, and nothing else of what it held: no shift of the rows loses, repeats or
\* mixes one, as long as every line is shorter than a row.
SavedIsMeant ==
    [][op.kind = "append" /\ op.writes = <<>> /\ promised # NULL =>
          promised = IF files[op.node].size = 0 THEN <<>> ELSE files[op.node].data]_vars
==============================================================================
