----------------------------- MODULE MemoryFiles -----------------------------
(***************************************************************************)
(* The memory directory of one machine. Dreamers and starting MCP servers  *)
(* write fleet-activity.md and then add an entry for it to MEMORY.md,      *)
(* which Claude edits too; nothing locks either file, and os.WriteFile is  *)
(* a truncation followed by a write from the start of the file.            *)
(*                                                                         *)
(* A file is a sequence of blocks of one size: a snapshot has one or two   *)
(* blocks that carry the name of its writer, a line of MEMORY.md is a      *)
(* block. The header of MEMORY.md is left out.                             *)
(***************************************************************************)
EXTENDS Integers, Sequences, SequencesExt

CONSTANTS
    Updaters,   \* processes that run writeFleetMemory or syncFleetMemory
    MaxBlocks,  \* bound on the blocks of a snapshot
    MaxNotes    \* bound on the lines Claude adds to MEMORY.md

ASSUME FilesAssumption == MaxBlocks \in Nat \ {0} /\ MaxNotes \in Nat

Entry == 0   \* the line that links fleet-activity.md
Lines == Entry .. MaxNotes

VARIABLES
    activity,  \* fleet-activity.md
    index,     \* MEMORY.md
    pc,        \* where each updater is
    size,      \* the blocks of the snapshot it holds
    loaded,    \* MEMORY.md as it read it
    notes,     \* history: how many lines Claude has added
    latest,    \* history: the snapshot written last
    mixed,     \* history: its write crossed another, or one stopped short since
    torn       \* history: an update saw part of MEMORY.md, or it changed under one,
               \* or one stopped short

vars == <<activity, index, pc, size, loaded, notes, latest, mixed, torn>>

\* Mutant of Overwrite: the files are opened for appending.
AppendTo(old, new) == old \o new

\* A write at the start of a file leaves what lies behind its end.
Overwrite(old, new) == new \o SubSeq(old, Len(new) + 1, Len(old))

Snapshot(w, n) == [k \in 1 .. n |-> w]

TypeOK ==
    /\ activity \in Seq(Updaters) /\ Len(activity) <= MaxBlocks
    /\ index \in Seq(Lines)
    /\ pc \in [Updaters -> {"idle", "write", "read", "cut", "store"}]
    /\ size \in [Updaters -> 0 .. MaxBlocks]
    /\ loaded \in [Updaters -> Seq(Lines)]
    /\ notes \in 0 .. MaxNotes
    /\ latest \in Seq(Updaters)
    /\ mixed \in BOOLEAN /\ torn \in BOOLEAN

Init ==
    /\ activity = <<>> /\ index = <<>>
    /\ pc = [w \in Updaters |-> "idle"]
    /\ size = [w \in Updaters |-> 0]
    /\ loaded = [w \in Updaters |-> <<>>]
    /\ notes = 0
    /\ latest = <<>>
    /\ mixed = FALSE /\ torn = FALSE

Goto(w, to) == pc' = [pc EXCEPT ![w] = to]
Others(w, at) == {o \in Updaters \ {w} : pc[o] = at}

-----------------------------------------------------------------------------

\* Mutant of OpenActivity: the file is opened without O_TRUNC.
OpenActivityInPlace(w, n) ==
    /\ pc[w] = "idle"
    /\ size' = [size EXCEPT ![w] = n]
    /\ mixed' = (Others(w, "write") # {})
    /\ Goto(w, "write")
    /\ UNCHANGED <<activity, index, loaded, notes, latest, torn>>

\* writeFleetMemory, syncFleetMemory: os.WriteFile truncates fleet-activity.md ...
OpenActivity(w, n) ==
    /\ pc[w] = "idle"
    /\ size' = [size EXCEPT ![w] = n]
    /\ activity' = <<>>
    /\ mixed' = (Others(w, "write") # {})
    /\ Goto(w, "write")
    /\ UNCHANGED <<index, loaded, notes, latest, torn>>

\* ... or cannot open it: the error is dropped, and the index is updated all the same.
ActivityUnopened(w) ==
    /\ pc[w] = "idle"
    /\ Goto(w, "read")
    /\ UNCHANGED <<activity, index, size, loaded, notes, latest, mixed, torn>>

\* It writes the snapshot, or the first k blocks of it; that error is dropped too.
WriteActivity(w, k) ==
    /\ pc[w] = "write"
    /\ activity' = Overwrite(activity, Snapshot(w, k))
    /\ IF k = size[w]
          THEN latest' = Snapshot(w, k) /\ UNCHANGED mixed
          ELSE mixed' = TRUE /\ UNCHANGED latest
    /\ size' = [size EXCEPT ![w] = 0]
    /\ Goto(w, "read")
    /\ UNCHANGED <<index, loaded, notes, torn>>

\* Mutant of ReadIndex: an entry is added whether or not there is one.
ReadIndexAlways(w, k) ==
    /\ pc[w] = "read"
    /\ loaded' = [loaded EXCEPT ![w] = SubSeq(index, 1, k)]
    /\ torn' = (torn \/ k < Len(index) \/ Others(w, "store") # {})
    /\ Goto(w, "cut")
    /\ UNCHANGED <<activity, index, size, notes, latest, mixed>>

\* updateMemoryIndex reads MEMORY.md, and returns if it sees the entry. Where reading
\* fails it goes on with the k lines it has, none if the file could not be opened.
ReadIndex(w, k) ==
    /\ pc[w] = "read"
    /\ IF Contains(SubSeq(index, 1, k), Entry)
          THEN Goto(w, "idle") /\ UNCHANGED <<loaded, torn>>
          ELSE /\ loaded' = [loaded EXCEPT ![w] = SubSeq(index, 1, k)]
               /\ torn' = (torn \/ k < Len(index) \/ Others(w, "store") # {})
               /\ Goto(w, "cut")
    /\ UNCHANGED <<activity, index, size, notes, latest, mixed>>

\* os.WriteFile truncates MEMORY.md ...
OpenIndex(w) ==
    /\ pc[w] = "cut"
    /\ index' = <<>>
    /\ Goto(w, "store")
    /\ UNCHANGED <<activity, size, loaded, notes, latest, mixed, torn>>

\* ... or cannot open it and leaves it as it is ...
IndexUnopened(w) ==
    /\ pc[w] = "cut"
    /\ loaded' = [loaded EXCEPT ![w] = <<>>]
    /\ Goto(w, "idle")
    /\ UNCHANGED <<activity, index, size, notes, latest, mixed, torn>>

\* ... and writes what was read with the entry behind it, or only the first k lines.
WriteIndex(w, k) ==
    /\ pc[w] = "store"
    /\ index' = Overwrite(index, SubSeq(Append(loaded[w], Entry), 1, k))
    /\ torn' = (torn \/ k <= Len(loaded[w]))
    /\ loaded' = [loaded EXCEPT ![w] = <<>>]
    /\ Goto(w, "idle")
    /\ UNCHANGED <<activity, size, notes, latest, mixed>>

\* Claude adds a line of its own.
ClaudeAddsNote ==
    /\ notes < MaxNotes
    /\ notes' = notes + 1
    /\ index' = Append(index, notes + 1)
    /\ torn' = (torn \/ \E w \in Updaters : pc[w] \in {"cut", "store"})
    /\ UNCHANGED <<activity, pc, size, loaded, latest, mixed>>

\* A process is killed where it is.
Dies(w) ==
    /\ pc[w] # "idle"
    /\ mixed' = (mixed \/ pc[w] = "write")
    /\ torn' = (torn \/ pc[w] = "store")
    /\ size' = [size EXCEPT ![w] = 0]
    /\ loaded' = [loaded EXCEPT ![w] = <<>>]
    /\ Goto(w, "idle")
    /\ UNCHANGED <<activity, index, notes, latest>>

Next ==
    \/ \E w \in Updaters :
          \/ \E n \in 1 .. MaxBlocks : OpenActivity(w, n)
          \/ \E k \in 0 .. size[w] : WriteActivity(w, k)
          \/ \E k \in 0 .. Len(index) : ReadIndex(w, k)
          \/ \E k \in 0 .. Len(loaded[w]) + 1 : WriteIndex(w, k)
          \/ ActivityUnopened(w) \/ OpenIndex(w) \/ IndexUnopened(w) \/ Dies(w)
    \/ ClaudeAddsNote

Spec == Init /\ [][Next]_vars

-----------------------------------------------------------------------------
(* Properties *)

\* Outside a write fleet-activity.md is the snapshot written last, whole, unless two
\* writes crossed or one stopped short (the process died or os.WriteFile failed), and
\* the next write repairs it.
SnapshotIsWhole ==
    ~mixed /\ (\A w \in Updaters : pc[w] # "write") => activity = latest

\* Claude's lines in their order, and with the entry behind the first p of them.
Notes(n) == [k \in 1 .. n |-> k]
WithEntry(n, p) ==
    [k \in 1 .. n + 1 |-> IF k <= p THEN k ELSE IF k = p + 1 THEN Entry ELSE k - 1]

\* Claude's lines in MEMORY.md survive every update of the index, in their order, and
\* there is at most one entry, unless a line was added between an update's read and
\* its write, one update read what another had truncated, the index could not be read
\* to its end, or a process died or failed to write after the truncation. Two updates
\* that read the same index do no harm, and neither does one that cannot open it.
NotesSurvive ==
    ~torn /\ (\A w \in Updaters : pc[w] # "store") =>
        \/ index = Notes(notes)
        \/ \E p \in 0 .. notes : index = WithEntry(notes, p)
=============================================================================
