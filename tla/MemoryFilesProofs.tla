-------------------------- MODULE MemoryFilesProofs --------------------------
(***************************************************************************)
(* Proofs about MemoryFiles, for any set of updaters, any size of a        *)
(* snapshot and any number of lines.                                       *)
(*                                                                         *)
(* Neither property is inductive: what a file holds when no write is under *)
(* way depends on what it holds during one. While no write has crossed     *)
(* another there is one writer of fleet-activity.md and the file is empty  *)
(* (OneWriter); while MEMORY.md has not changed under an update, every     *)
(* update between its read and its write holds Claude's lines and nothing  *)
(* else (HoldsNotes), so that all of them write the same text and the file *)
(* is that text or empty until the last has written (HalfWritten).         *)
(***************************************************************************)
EXTENDS MemoryFiles, TLAPS

Writing == \E w \in Updaters : pc[w] = "write"
Storing == \E w \in Updaters : pc[w] = "store"

OneWriter ==
    ~mixed => /\ \A w, o \in Updaters : pc[w] = "write" /\ pc[o] = "write" => w = o
              /\ Writing => activity = <<>>
              /\ ~Writing => activity = latest

HoldsNotes ==
    ~torn => \A w \in Updaters : pc[w] \in {"cut", "store"} => loaded[w] = Notes(notes)

HalfWritten ==
    ~torn /\ Storing => index \in {<<>>, Append(Notes(notes), Entry)}

IInv == TypeOK /\ OneWriter /\ HoldsNotes /\ HalfWritten /\ NotesSurvive

-----------------------------------------------------------------------------
(* Sequences *)

\* A write over an empty file, or over the text it writes, leaves that text.
LEMMA OverwriteSame ==
    ASSUME NEW S, NEW new \in Seq(S)
    PROVE  Overwrite(<<>>, new) = new /\ Overwrite(new, new) = new
<1>1. SubSeq(<<>>, Len(new) + 1, Len(<<>>)) = <<>>
  OBVIOUS
<1>2. SubSeq(new, Len(new) + 1, Len(new)) = <<>>
  OBVIOUS
<1>3. new \o <<>> = new
  OBVIOUS
<1> QED
  BY <1>1, <1>2, <1>3 DEF Overwrite

\* A write makes a text of the same symbols, as long as the longer of the two.
LEMMA OverwriteType ==
    ASSUME NEW S, NEW old \in Seq(S), NEW new \in Seq(S), NEW n \in Nat,
           Len(old) <= n, Len(new) <= n
    PROVE  Overwrite(old, new) \in Seq(S) /\ Len(Overwrite(old, new)) <= n
<1> DEFINE rest == SubSeq(old, Len(new) + 1, Len(old))
<1>1. /\ rest \in Seq(S)
      /\ Len(rest) = IF Len(new) + 1 <= Len(old) THEN Len(old) - Len(new) ELSE 0
  OBVIOUS
<1> HIDE DEF rest
<1>2. new \o rest \in Seq(S) /\ Len(new \o rest) = Len(new) + Len(rest)
  BY <1>1
<1>3. Len(new) + Len(rest) <= n
  BY <1>1
<1> QED
  BY <1>2, <1>3 DEF Overwrite, rest

\* The first k symbols of a text.
LEMMA PrefixType ==
    ASSUME NEW S, NEW text \in Seq(S), NEW k \in 0 .. Len(text)
    PROVE  /\ SubSeq(text, 1, k) \in Seq(S) /\ Len(SubSeq(text, 1, k)) = k
           /\ k = Len(text) => SubSeq(text, 1, k) = text
OBVIOUS

\* A snapshot is a text of as many blocks as it has.
LEMMA SnapshotType ==
    ASSUME NEW w \in Updaters, NEW n \in Nat
    PROVE  Snapshot(w, n) \in Seq(Updaters) /\ Len(Snapshot(w, n)) = n
BY DEF Snapshot

\* Claude's lines are lines.
LEMMA NotesType ==
    ASSUME NEW n \in 0 .. MaxNotes
    PROVE  Notes(n) \in Seq(Lines) /\ Len(Notes(n)) = n
<1>1. n \in Nat /\ \A k \in 1 .. n : k \in Lines
  BY FilesAssumption DEF Lines, Entry
<1> QED
  BY <1>1 DEF Notes

\* One more line of Claude's, without an entry and with one, and the entry behind all.
LEMMA NotesGrow ==
    ASSUME NEW n \in Nat
    PROVE  /\ Append(Notes(n), n + 1) = Notes(n + 1)
           /\ \A p \in 0 .. n : Append(WithEntry(n, p), n + 1) = WithEntry(n + 1, p)
           /\ Append(Notes(n), Entry) = WithEntry(n, n)
<1> USE DEF Entry
<1>1. Notes(n) \in Seq(Nat) /\ Len(Notes(n)) = n
  BY DEF Notes
<1>2. Append(Notes(n), n + 1) = Notes(n + 1)
  BY <1>1 DEF Notes
<1>3. Append(Notes(n), Entry) = WithEntry(n, n)
  BY <1>1 DEF Notes, WithEntry
<1>4. ASSUME NEW p \in 0 .. n
      PROVE  Append(WithEntry(n, p), n + 1) = WithEntry(n + 1, p)
  <2>1. WithEntry(n, p) \in Seq(Nat) /\ Len(WithEntry(n, p)) = n + 1
    BY DEF WithEntry
  <2> QED
    BY <2>1 DEF WithEntry
<1> QED
  BY <1>2, <1>3, <1>4

\* updateMemoryIndex finds the entry where there is one.
LEMMA EntryIsFound ==
    ASSUME NEW n \in Nat, NEW p \in 0 .. n
    PROVE  Contains(WithEntry(n, p), Entry)
<1>1. Len(WithEntry(n, p)) = n + 1 /\ WithEntry(n, p)[p + 1] = Entry
  BY DEF WithEntry
<1> QED
  BY <1>1 DEF Contains

-----------------------------------------------------------------------------
(* Types *)

\* Every step keeps the types; a file never grows past the largest snapshot.
LEMMA TypeStep == TypeOK /\ [Next]_vars => TypeOK'
<1> SUFFICES ASSUME TypeOK, [Next]_vars PROVE TypeOK'
  OBVIOUS
<1> USE FilesAssumption DEF TypeOK, Goto
<1>1. ASSUME NEW w \in Updaters, NEW n \in 1 .. MaxBlocks, OpenActivity(w, n)
      PROVE  TypeOK'
  <2>1. mixed' \in BOOLEAN
    BY <1>1 DEF OpenActivity
  <2> QED
    BY <1>1, <2>1 DEF OpenActivity
<1>2. ASSUME NEW w \in Updaters, NEW k \in 0 .. size[w], WriteActivity(w, k)
      PROVE  TypeOK'
  <2>1. k \in Nat /\ k <= MaxBlocks
    OBVIOUS
  <2>2. Snapshot(w, k) \in Seq(Updaters) /\ Len(Snapshot(w, k)) <= MaxBlocks
    BY <2>1, SnapshotType
  <2>3. /\ Overwrite(activity, Snapshot(w, k)) \in Seq(Updaters)
        /\ Len(Overwrite(activity, Snapshot(w, k))) <= MaxBlocks
    BY <2>2, OverwriteType
  <2>4. mixed' \in BOOLEAN
    BY <1>2 DEF WriteActivity
  <2>5. latest' \in Seq(Updaters)
    BY <1>2, <2>2 DEF WriteActivity
  <2> QED
    BY <1>2, <2>3, <2>4, <2>5 DEF WriteActivity
<1>3. ASSUME NEW w \in Updaters, NEW k \in 0 .. Len(index), ReadIndex(w, k)
      PROVE  TypeOK'
  <2>1. torn' \in BOOLEAN
    BY <1>3 DEF ReadIndex
  <2>2. SubSeq(index, 1, k) \in Seq(Lines)
    BY PrefixType
  <2> QED
    BY <1>3, <2>1, <2>2 DEF ReadIndex
<1>4. ASSUME NEW w \in Updaters, OpenIndex(w) \/ IndexUnopened(w) \/ ActivityUnopened(w)
      PROVE  TypeOK'
  <2>1. CASE OpenIndex(w)
    BY <2>1 DEF OpenIndex
  <2>2. CASE IndexUnopened(w)
    BY <2>2 DEF IndexUnopened
  <2>3. CASE ActivityUnopened(w)
    BY <2>3 DEF ActivityUnopened
  <2> QED
    BY <1>4, <2>1, <2>2, <2>3
<1>5. ASSUME NEW w \in Updaters, NEW k \in 0 .. Len(loaded[w]) + 1, WriteIndex(w, k)
      PROVE  TypeOK'
  <2> DEFINE all == Append(loaded[w], Entry)
             new == SubSeq(all, 1, k)
             n == Len(index) + Len(new)
  <2>0. all \in Seq(Lines) /\ k \in 0 .. Len(all)
    BY DEF Lines, Entry
  <2> HIDE DEF all
  <2>1. new \in Seq(Lines)
    BY <2>0, PrefixType
  <2>2. n \in Nat /\ Len(index) <= n /\ Len(new) <= n
    BY <2>1
  <2> HIDE DEF new, n
  <2>3. Overwrite(index, new) \in Seq(Lines)
    BY <2>1, <2>2, OverwriteType
  <2>4. index' = Overwrite(index, new)
    BY <1>5 DEF WriteIndex, new, all
  <2>5. torn' \in BOOLEAN
    BY <1>5 DEF WriteIndex
  <2> QED
    BY <1>5, <2>3, <2>4, <2>5 DEF WriteIndex
<1>6. ASSUME NEW w \in Updaters, Dies(w)
      PROVE  TypeOK'
  <2>1. mixed' \in BOOLEAN /\ torn' \in BOOLEAN
    BY <1>6 DEF Dies
  <2> QED
    BY <1>6, <2>1 DEF Dies
<1>7. CASE ClaudeAddsNote
  <2>1. torn' \in BOOLEAN
    BY <1>7 DEF ClaudeAddsNote
  <2>2. notes' \in 0 .. MaxNotes /\ index' \in Seq(Lines)
    BY <1>7 DEF ClaudeAddsNote, Lines, Entry
  <2> QED
    BY <1>7, <2>1, <2>2 DEF ClaudeAddsNote
<1>8. CASE UNCHANGED vars
  BY <1>8 DEF vars
<1> QED
  BY <1>1, <1>2, <1>3, <1>4, <1>5, <1>6, <1>7, <1>8 DEF Next

-----------------------------------------------------------------------------
(* fleet-activity.md *)

\* Every step keeps one writer and an empty file, or no writer and the last snapshot.
LEMMA WriterStep == TypeOK /\ OneWriter /\ [Next]_vars => OneWriter'
<1> SUFFICES ASSUME TypeOK, OneWriter, [Next]_vars, ~mixed'
             PROVE  /\ \A w, o \in Updaters : pc'[w] = "write" /\ pc'[o] = "write" => w = o
                    /\ Writing' => activity' = <<>>
                    /\ ~Writing' => activity' = latest'
  BY DEF OneWriter
<1> DEFINE Kept == /\ \A w, o \in Updaters : pc'[w] = "write" /\ pc'[o] = "write" => w = o
                   /\ Writing' => activity' = <<>>
                   /\ ~Writing' => activity' = latest'
\* A step that does not touch the file and leaves no write and begins none.
<1>0. ASSUME ~mixed, activity' = activity, latest' = latest,
             \A o \in Updaters : pc'[o] = "write" <=> pc[o] = "write"
      PROVE  Kept
  BY <1>0 DEF OneWriter, Writing
<1>1. ASSUME NEW w \in Updaters, NEW n \in 1 .. MaxBlocks, OpenActivity(w, n)
      PROVE  Kept
  <2>1. Others(w, "write") = {} /\ activity' = <<>> /\ pc' = [pc EXCEPT ![w] = "write"]
    BY <1>1 DEF OpenActivity, Goto
  <2>2. pc'[w] = "write" /\ \A o \in Updaters : pc'[o] = "write" => o = w
    BY <2>1 DEF Others, TypeOK
  <2> QED
    BY <2>1, <2>2 DEF Writing
<1>2. ASSUME NEW w \in Updaters, NEW k \in 0 .. size[w], WriteActivity(w, k)
      PROVE  Kept
  <2>1. ~mixed /\ k = size[w] /\ pc[w] = "write" /\ pc' = [pc EXCEPT ![w] = "read"]
    BY <1>2 DEF WriteActivity, Goto
  <2>2. activity = <<>> /\ \A o \in Updaters : pc[o] = "write" => o = w
    BY <2>1 DEF OneWriter, Writing
  <2>3. \A o \in Updaters : pc'[o] # "write"
    BY <2>1, <2>2 DEF TypeOK
  <2>4. size[w] \in Nat
    BY FilesAssumption DEF TypeOK
  <2>5. Snapshot(w, size[w]) \in Seq(Updaters)
    BY <2>4, SnapshotType
  <2>6. activity' = latest'
    BY <1>2, <2>1, <2>2, <2>5, OverwriteSame DEF WriteActivity
  <2> QED
    BY <2>3, <2>6 DEF Writing
<1>3. ASSUME NEW w \in Updaters, NEW k \in 0 .. Len(index), ReadIndex(w, k)
      PROVE  Kept
  <2>1. /\ ~mixed /\ activity' = activity /\ latest' = latest /\ pc[w] = "read"
        /\ pc' = [pc EXCEPT ![w] = "idle"] \/ pc' = [pc EXCEPT ![w] = "cut"]
    BY <1>3 DEF ReadIndex, Goto
  <2>2. \A o \in Updaters : pc'[o] = "write" <=> pc[o] = "write"
    BY <2>1 DEF TypeOK
  <2> QED
    BY <1>0, <2>1, <2>2
<1>4. ASSUME NEW w \in Updaters,
             \/ OpenIndex(w) \/ IndexUnopened(w) \/ ActivityUnopened(w)
             \/ \E k \in 0 .. Len(loaded[w]) + 1 : WriteIndex(w, k)
      PROVE  Kept
  <2>1. /\ ~mixed /\ activity' = activity /\ latest' = latest /\ pc[w] # "write"
        /\ \E to \in {"store", "idle", "read"} : pc' = [pc EXCEPT ![w] = to]
    BY <1>4 DEF OpenIndex, IndexUnopened, ActivityUnopened, WriteIndex, Goto
  <2>2. \A o \in Updaters : pc'[o] = "write" <=> pc[o] = "write"
    BY <2>1 DEF TypeOK
  <2> QED
    BY <1>0, <2>1, <2>2
<1>5. ASSUME NEW w \in Updaters, Dies(w)
      PROVE  Kept
  <2>1. /\ ~mixed /\ activity' = activity /\ latest' = latest /\ pc[w] # "write"
        /\ pc' = [pc EXCEPT ![w] = "idle"]
    BY <1>5 DEF Dies, Goto
  <2>2. \A o \in Updaters : pc'[o] = "write" <=> pc[o] = "write"
    BY <2>1 DEF TypeOK
  <2> QED
    BY <1>0, <2>1, <2>2
<1>6. ASSUME ClaudeAddsNote \/ UNCHANGED vars
      PROVE  Kept
  <2>1. ~mixed /\ activity' = activity /\ latest' = latest /\ pc' = pc
    BY <1>6 DEF ClaudeAddsNote, vars
  <2> QED
    BY <1>0, <2>1
<1> QED
  BY <1>1, <1>2, <1>3, <1>4, <1>5, <1>6 DEF Next

-----------------------------------------------------------------------------
(* MEMORY.md *)

\* What the updates of the index know and leave in the file.
IndexInv == HoldsNotes /\ HalfWritten /\ NotesSurvive

\* A step that leaves the index, Claude's lines and what is read alone, and that takes no
\* update from between its read and its write or into it, keeps the invariant.
LEMMA QuietIndexStep ==
    ASSUME TypeOK, IndexInv, ~torn,
           index' = index, notes' = notes, loaded' = loaded,
           \A o \in Updaters : /\ pc'[o] = "cut" <=> pc[o] = "cut"
                               /\ pc'[o] = "store" <=> pc[o] = "store"
    PROVE  IndexInv'
BY DEF IndexInv, HoldsNotes, HalfWritten, NotesSurvive, Storing

\* Every step keeps what the updates know and leave.
LEMMA IndexStep == TypeOK /\ IndexInv /\ [Next]_vars => IndexInv'
<1> SUFFICES ASSUME TypeOK, IndexInv, [Next]_vars, ~torn' PROVE IndexInv'
  BY DEF IndexInv, HoldsNotes, HalfWritten, NotesSurvive
<1>0. notes \in Nat /\ notes \in 0 .. MaxNotes
  BY FilesAssumption DEF TypeOK
<1>1. ASSUME NEW w \in Updaters, NEW n \in 1 .. MaxBlocks, OpenActivity(w, n)
      PROVE  IndexInv'
  <2>1. /\ ~torn /\ index' = index /\ notes' = notes /\ loaded' = loaded
        /\ pc[w] = "idle" /\ pc' = [pc EXCEPT ![w] = "write"]
    BY <1>1 DEF OpenActivity, Goto
  <2>2. \A o \in Updaters : /\ pc'[o] = "cut" <=> pc[o] = "cut"
                            /\ pc'[o] = "store" <=> pc[o] = "store"
    BY <2>1 DEF TypeOK
  <2> QED
    BY <2>1, <2>2, QuietIndexStep
<1>2. ASSUME NEW w \in Updaters,
             ActivityUnopened(w) \/ \E k \in 0 .. size[w] : WriteActivity(w, k)
      PROVE  IndexInv'
  <2>1. /\ ~torn /\ index' = index /\ notes' = notes /\ loaded' = loaded
        /\ pc[w] \in {"idle", "write"} /\ pc' = [pc EXCEPT ![w] = "read"]
    BY <1>2 DEF ActivityUnopened, WriteActivity, Goto
  <2>2. \A o \in Updaters : /\ pc'[o] = "cut" <=> pc[o] = "cut"
                            /\ pc'[o] = "store" <=> pc[o] = "store"
    BY <2>1 DEF TypeOK
  <2> QED
    BY <2>1, <2>2, QuietIndexStep
<1>3. ASSUME NEW w \in Updaters, NEW k \in 0 .. Len(index), ReadIndex(w, k)
      PROVE  IndexInv'
  <2>1. CASE Contains(SubSeq(index, 1, k), Entry)
    <3>1. /\ ~torn /\ index' = index /\ notes' = notes /\ loaded' = loaded
          /\ pc[w] = "read" /\ pc' = [pc EXCEPT ![w] = "idle"]
      BY <1>3, <2>1 DEF ReadIndex, Goto
    <3>2. \A o \in Updaters : /\ pc'[o] = "cut" <=> pc[o] = "cut"
                              /\ pc'[o] = "store" <=> pc[o] = "store"
      BY <3>1 DEF TypeOK
    <3> QED
      BY <3>1, <3>2, QuietIndexStep
  <2>2. CASE ~Contains(SubSeq(index, 1, k), Entry)
    <3>0. ~(k < Len(index)) /\ index \in Seq(Lines)
      BY <1>3, <2>2 DEF ReadIndex, TypeOK
    <3>a. SubSeq(index, 1, k) = index
      BY <3>0, PrefixType
    <3>1. /\ ~torn /\ index' = index /\ notes' = notes
          /\ loaded' = [loaded EXCEPT ![w] = index]
          /\ Others(w, "store") = {}
          /\ pc[w] = "read" /\ pc' = [pc EXCEPT ![w] = "cut"]
      BY <1>3, <2>2, <3>a DEF ReadIndex, Goto
    <3>2. \A o \in Updaters : pc[o] # "store" /\ pc'[o] # "store"
      BY <3>1 DEF Others, TypeOK
    <3>3. index = Notes(notes)
      <4>1. \/ index = Notes(notes)
            \/ \E p \in 0 .. notes : index = WithEntry(notes, p)
        BY <3>1, <3>2 DEF IndexInv, NotesSurvive
      <4> QED
        BY <1>0, <2>2, <3>a, <4>1, EntryIsFound
    <3>4. HoldsNotes'
      BY <3>1, <3>3 DEF IndexInv, HoldsNotes, TypeOK
    <3>5. HalfWritten' /\ NotesSurvive'
      BY <3>1, <3>2, <3>3 DEF HalfWritten, NotesSurvive, Storing
    <3> QED
      BY <3>4, <3>5 DEF IndexInv
  <2> QED
    BY <2>1, <2>2
<1>4. ASSUME NEW w \in Updaters, OpenIndex(w)
      PROVE  IndexInv'
  <2>1. /\ ~torn /\ index' = <<>> /\ notes' = notes /\ loaded' = loaded
        /\ pc[w] = "cut" /\ pc' = [pc EXCEPT ![w] = "store"]
    BY <1>4 DEF OpenIndex, Goto
  <2>2. pc'[w] = "store"
    BY <2>1 DEF TypeOK
  <2>3. HoldsNotes'
    BY <2>1 DEF IndexInv, HoldsNotes, TypeOK
  <2>4. HalfWritten' /\ NotesSurvive'
    BY <2>1, <2>2 DEF HalfWritten, NotesSurvive
  <2> QED
    BY <2>3, <2>4 DEF IndexInv
<1>5. ASSUME NEW w \in Updaters, NEW k \in 0 .. Len(loaded[w]) + 1, WriteIndex(w, k)
      PROVE  IndexInv'
  <2> DEFINE new == Append(Notes(notes), Entry)
             all == Append(loaded[w], Entry)
  <2>0. ~(k <= Len(loaded[w])) /\ loaded[w] \in Seq(Lines)
    BY <1>5 DEF WriteIndex, TypeOK
  <2>a. all \in Seq(Lines) /\ k \in 0 .. Len(all) /\ k = Len(all)
    BY <2>0, FilesAssumption DEF Lines, Entry
  <2> HIDE DEF all
  <2>b. SubSeq(all, 1, k) = all
    BY <2>a, PrefixType
  <2>1. /\ ~torn /\ notes' = notes
        /\ index' = Overwrite(index, Append(loaded[w], Entry))
        /\ loaded' = [loaded EXCEPT ![w] = <<>>]
        /\ pc[w] = "store" /\ pc' = [pc EXCEPT ![w] = "idle"]
    BY <1>5, <2>b DEF WriteIndex, Goto, all
  <2>2. loaded[w] = Notes(notes) /\ index \in {<<>>, new}
    BY <2>1 DEF IndexInv, HoldsNotes, HalfWritten, Storing
  <2>3. new \in Seq(Lines)
    BY <1>0, NotesType, FilesAssumption DEF Lines, Entry
  <2>4. index' = new
    BY <2>1, <2>2, <2>3, OverwriteSame
  <2>5. HoldsNotes'
    BY <2>1 DEF IndexInv, HoldsNotes, TypeOK
  <2>6. HalfWritten'
    BY <2>1, <2>4 DEF HalfWritten
  <2>7. NotesSurvive'
    <3>1. new = WithEntry(notes, notes) /\ notes \in 0 .. notes
      BY <1>0, NotesGrow
    <3> QED
      BY <2>1, <2>4, <3>1 DEF NotesSurvive
  <2> QED
    BY <2>5, <2>6, <2>7 DEF IndexInv
<1>6. ASSUME NEW w \in Updaters, Dies(w) \/ IndexUnopened(w)
      PROVE  IndexInv'
  <2>1. /\ ~torn /\ index' = index /\ notes' = notes
        /\ loaded' = [loaded EXCEPT ![w] = <<>>]
        /\ pc[w] # "store" /\ pc' = [pc EXCEPT ![w] = "idle"]
    <3>1. CASE Dies(w)
      BY <3>1 DEF Dies, Goto
    <3>2. CASE IndexUnopened(w)
      <4>1. ~torn
        BY <3>2 DEF IndexUnopened
      <4>2. pc[w] # "store"
        BY <3>2 DEF IndexUnopened
      <4> QED
        BY <3>2, <4>1, <4>2 DEF IndexUnopened, Goto
    <3> QED
      BY <1>6, <3>1, <3>2
  <2>2. \A o \in Updaters : /\ pc'[o] = "store" <=> pc[o] = "store"
                            /\ pc'[o] = "cut" => pc[o] = "cut" /\ o # w
    BY <2>1 DEF TypeOK
  <2>3. HoldsNotes'
    BY <2>1, <2>2 DEF IndexInv, HoldsNotes, TypeOK
  <2>4. HalfWritten' /\ NotesSurvive'
    BY <2>1, <2>2 DEF IndexInv, HalfWritten, NotesSurvive, Storing
  <2> QED
    BY <2>3, <2>4 DEF IndexInv
<1>7. CASE ClaudeAddsNote
  <2>1. /\ ~torn /\ notes' = notes + 1 /\ index' = Append(index, notes + 1)
        /\ pc' = pc /\ loaded' = loaded
        /\ \A w \in Updaters : pc[w] \notin {"cut", "store"}
    BY <1>7 DEF ClaudeAddsNote
  <2>2. HoldsNotes' /\ HalfWritten'
    BY <2>1 DEF HoldsNotes, HalfWritten, Storing
  <2>3. \/ index = Notes(notes)
        \/ \E p \in 0 .. notes : index = WithEntry(notes, p)
    BY <2>1 DEF IndexInv, NotesSurvive
  <2>4. \/ index' = Notes(notes')
        \/ \E p \in 0 .. notes' : index' = WithEntry(notes', p)
    <3>1. CASE index = Notes(notes)
      BY <1>0, <2>1, <3>1, NotesGrow
    <3>2. ASSUME NEW p \in 0 .. notes, index = WithEntry(notes, p)
          PROVE  index' = WithEntry(notes', p) /\ p \in 0 .. notes'
      <4>1. Append(WithEntry(notes, p), notes + 1) = WithEntry(notes + 1, p)
        BY <1>0, NotesGrow
      <4>2. index' = WithEntry(notes', p)
        BY <2>1, <3>2, <4>1
      <4>3. p \in 0 .. notes'
        BY <1>0, <2>1
      <4> QED
        BY <4>2, <4>3
    <3> QED
      BY <2>3, <3>1, <3>2
  <2> QED
    BY <2>2, <2>4 DEF IndexInv, NotesSurvive
<1>8. CASE UNCHANGED vars
  <2>1. ~torn /\ index' = index /\ notes' = notes /\ loaded' = loaded /\ pc' = pc
    BY <1>8 DEF vars
  <2> QED
    BY <2>1, QuietIndexStep
<1> QED
  BY <1>1, <1>2, <1>3, <1>4, <1>5, <1>6, <1>7, <1>8 DEF Next

-----------------------------------------------------------------------------
(* Theorems *)

\* Both files begin empty, and nobody is at work.
LEMMA InitInductive == Init => IInv
<1> SUFFICES ASSUME Init PROVE IInv
  OBVIOUS
<1> USE FilesAssumption DEF Init
<1>1. TypeOK
  <2>1. mixed \in BOOLEAN /\ torn \in BOOLEAN
    BY Zenon
  <2>2. /\ activity \in Seq(Updaters) /\ Len(activity) <= MaxBlocks
        /\ index \in Seq(Lines) /\ latest \in Seq(Updaters)
        /\ notes \in 0 .. MaxNotes
    OBVIOUS
  <2>3. /\ pc \in [Updaters -> {"idle", "write", "read", "cut", "store"}]
        /\ size \in [Updaters -> 0 .. MaxBlocks]
        /\ loaded \in [Updaters -> Seq(Lines)]
    OBVIOUS
  <2> QED
    BY <2>1, <2>2, <2>3 DEF TypeOK
<1>2. \A w \in Updaters : pc[w] = "idle"
  OBVIOUS
<1>3. OneWriter /\ HoldsNotes /\ HalfWritten
  BY <1>2 DEF OneWriter, HoldsNotes, HalfWritten, Writing, Storing
<1>4. NotesSurvive
  <2>1. Notes(0) = <<>>
    BY DEF Notes
  <2> QED
    BY <2>1 DEF NotesSurvive
<1> QED
  BY <1>1, <1>3, <1>4 DEF IInv

\* The invariant holds throughout.
LEMMA InductiveInvariant == Spec => []IInv
<1>1. IInv /\ [Next]_vars => IInv'
  BY TypeStep, WriterStep, IndexStep DEF IInv, IndexInv
<1> QED
  BY <1>1, InitInductive, PTL DEF Spec

\* The files hold blocks and lines, and fleet-activity.md is never longer than the largest
\* snapshot, however the writes of writeFleetMemory and syncFleetMemory cross.
THEOREM TypeCorrect == Spec => []TypeOK
<1>1. IInv => TypeOK
  BY DEF IInv
<1> QED
  BY <1>1, InductiveInvariant, PTL

\* writeFleetMemory and syncFleetMemory: outside a write fleet-activity.md is the last
\* snapshot, whole, unless two writes crossed or one stopped short, by a death of the
\* process or a failed os.WriteFile, for any number of processes.
THEOREM SnapshotsAreWhole == Spec => []SnapshotIsWhole
<1>1. IInv => SnapshotIsWhole
  BY DEF IInv, OneWriter, SnapshotIsWhole, Writing
<1> QED
  BY <1>1, InductiveInvariant, PTL

\* updateMemoryIndex: Claude's lines survive in their order next to at most one entry,
\* unless MEMORY.md changed between an update's read and its write, the read or the write
\* failed part of the way, or the process died there, for any number of processes and
\* lines.
THEOREM NotesAreKept == Spec => []NotesSurvive
<1>1. IInv => NotesSurvive
  BY DEF IInv
<1> QED
  BY <1>1, InductiveInvariant, PTL
=============================================================================
