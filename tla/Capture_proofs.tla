---------------------------- MODULE Capture_proofs ----------------------------
(***************************************************************************)
(* The packet capture, for every ring, packet size and number of captures:  *)
(* proofs.                                                                 *)
(*                                                                         *)
(* Places says where the flags, the file and the writers are, and what holds *)
(* of them as long as no two writers met.  The contents of the ring are a    *)
(* chain of entries: Chain gives the offset from the tail of each accepted   *)
(* packet that has not been taken out.  A packet put in makes the chain      *)
(* longer (FillExtends), one taken out shorter (ReadShortens), and what is   *)
(* taken out is the payload of the oldest.  CutRecords says what an I/O error *)
(* leaves of a file.                                                        *)
(***************************************************************************)
EXTENDS Capture, TLAPS

USE CaptureAssumption
-------------------------------------------------------------------------------
(* Flags, files and writers *)

\* What a cell may hold: the initial contents are no packet's.
Contents == Cell \cup {CHOOSE c \in Cell : TRUE}

\* Where a writer can be.
WriterAt == {"none", "loop", "read", "write", "close", "exit", "gone"}
USE DEF WriterAt

\* Where capture_start is before the writer of its capture is there.
Starting == {"open", "create", "spawn"}
USE DEF Starting

Typing ==
    /\ capturing \in BOOLEAN /\ running \in BOOLEAN /\ (capturing => running)
    /\ count \in Nat /\ starts \in 0 .. MaxStarts
    /\ file \in 0 .. starts /\ named \in 0 .. starts
    /\ buf \in [Cells -> Contents] /\ head \in Cells /\ tail \in Cells
    /\ cpc \in {"idle", "open", "create", "spawn", "stopping"}
    /\ wpc \in [Starts -> WriterAt]
    /\ wlen \in [Starts -> 0 .. N - 1]
    /\ wbuf \in [Starts -> Seq(Contents)]
    /\ passing \subseteq Packets /\ fresh \subseteq Packets
    /\ accepted \in [Starts -> Seq(Packets)]
    /\ records \in [Starts -> Seq(Seq(Contents))]
    /\ saved \in [Starts -> Seq(Seq(Contents))]
    /\ opened \subseteq Starts /\ failed \subseteq Starts
    /\ overlap \in BOOLEAN
    /\ capturing \/ passing # {} \/ cpc # "idle" => starts # 0
    /\ cpc \in {"open", "create"} => ~capturing
    /\ cpc \in Starting => wpc[starts] = "none"
    /\ \A s \in Starts : s > starts =>
          /\ wpc[s] = "none" /\ accepted[s] = <<>>
          /\ records[s] = <<>> /\ saved[s] = <<>> /\ s \notin opened \cup failed

\* What holds of the flags and the places as long as no two writers met ...
AlonePlaces ==
    /\ \A w \in Starts : w # starts => Stopped(w)
    /\ cpc \in {"create", "spawn"} =>
          file = starts /\ named = starts /\ starts \in opened
    /\ starts # 0 /\ wpc[starts] \in {"loop", "read", "write", "close"} =>
          file = starts /\ named = starts /\ task = starts /\ starts \in opened
    /\ capturing => cpc = "spawn" \/ wpc[starts] \in {"loop", "read", "write"}

\* ... and of the files.
AloneFiles ==
    /\ cpc \in Starting =>
          records[starts] = <<>> /\ saved[starts] = <<>> /\ count = 0
    /\ cpc = "open" => starts \notin opened
    /\ cpc \in Starting => starts \notin failed
    /\ starts # 0 /\ wpc[starts] \in {"loop", "read", "write"} => starts \notin failed
    /\ starts # 0 /\ starts \notin failed /\ wpc[starts] \in {"none", "exit", "gone"}
          => saved[starts] = records[starts]
    /\ CountsMatch \/ overlap

Alone == AlonePlaces /\ AloneFiles

Places == Typing /\ (overlap \/ Alone)

LEMMA StartNumbers ==
    ASSUME Typing
    PROVE  /\ starts # 0 => starts \in Starts
           /\ file # NoFile => file \in Starts
           /\ cpc \in Starting => starts \in Starts /\ wpc[starts] = "none"
<1>1. starts \in 0 .. MaxStarts /\ file \in 0 .. starts
    BY DEF Typing
<1>2. cpc \in Starting => starts # 0 /\ wpc[starts] = "none"
    BY DEF Typing
<1> QED
    BY <1>1, <1>2 DEF Starts, NoFile

LEMMA InitPlaces == Init => Places
<1> SUFFICES ASSUME Init PROVE Places
    OBVIOUS
<1>1. Typing
    <2>1. buf \in [Cells -> Contents] /\ head \in Cells /\ tail \in Cells
        BY DEF Init, Contents, Cells
    <2>2. ~capturing /\ ~running /\ capturing \in BOOLEAN /\ running \in BOOLEAN
        BY DEF Init
    <2>3. /\ wpc \in [Starts -> WriterAt]
          /\ wlen \in [Starts -> 0 .. N - 1]
          /\ wbuf \in [Starts -> Seq(Contents)]
          /\ accepted \in [Starts -> Seq(Packets)]
          /\ records \in [Starts -> Seq(Seq(Contents))]
          /\ saved \in [Starts -> Seq(Seq(Contents))]
          /\ opened \subseteq Starts /\ failed \subseteq Starts
        BY DEF Init
    <2>4. /\ count \in Nat /\ starts = 0 /\ starts \in 0 .. MaxStarts
          /\ file \in 0 .. starts /\ named \in 0 .. starts
          /\ cpc = "idle" /\ passing = {} /\ fresh = Packets /\ overlap = FALSE
        BY DEF Init, NoFile
    <2>5. \A s \in Starts : /\ wpc[s] = "none" /\ accepted[s] = <<>>
                            /\ records[s] = <<>> /\ saved[s] = <<>>
                            /\ s \notin opened \cup failed
        BY DEF Init
    <2> QED
        BY <2>1, <2>2, <2>3, <2>4, <2>5 DEF Typing
<1>2. Alone
    <2>1. /\ starts = 0 /\ named = NoFile /\ cpc = "idle"
          /\ \A w \in Starts : wpc[w] = "none"
        BY DEF Init
    <2>2. ~capturing
        BY DEF Init
    <2> QED
        BY <2>1, <2>2 DEF Alone, AlonePlaces, AloneFiles, Stopped, CountsMatch
<1> QED
    BY <1>1, <1>2 DEF Places

LEMMA BeginningTypes ==
    ASSUME NEW r \in Seq(Contents), NEW k \in 0 .. Len(r) - 1
    PROVE  SubSeq(r, 1, k) \in Seq(Contents)
<1>1. Len(r) \in Nat
    OBVIOUS
<1> QED
    BY <1>1

\* A beginning of rs that ends in the middle of a record.
LEMMA CutTypes ==
    ASSUME NEW rs \in Seq(Seq(Contents)), NEW n \in DOMAIN rs,
           NEW k \in 0 .. Len(rs[n]) - 1
    PROVE  Append(SubSeq(rs, 1, n - 1), SubSeq(rs[n], 1, k)) \in Seq(Seq(Contents))
<1>1. n \in 1 .. Len(rs) /\ Len(rs) \in Nat /\ rs[n] \in Seq(Contents)
    OBVIOUS
<1>2. SubSeq(rs, 1, n - 1) \in Seq(Seq(Contents))
    BY <1>1
<1>3. Len(rs[n]) \in Nat
    BY <1>1
<1>4. SubSeq(rs[n], 1, k) \in Seq(Contents)
    BY <1>1, <1>3
<1> QED
    BY <1>2, <1>4

\* The files after fclose of the one that was open.
LEMMA CloseTypes ==
    ASSUME Typing, CloseFile
    PROVE  /\ file' = NoFile
           /\ saved' \in [Starts -> Seq(Seq(Contents))]
           /\ opened' \subseteq Starts /\ failed' \subseteq Starts
           /\ failed \subseteq failed'
           /\ \A s \in Starts : (s # file) => /\ saved'[s] = saved[s]
                                           /\ (s \in failed' => s \in failed)
                                           /\ (s \in opened' <=> s \in opened)
           /\ file # NoFile =>
                 /\ file \notin opened'
                 /\ (file \notin failed' => saved'[file] = records[file])
                 /\ records[file] = <<>> =>
                       /\ saved'[file] = <<>>
                       /\ (file \in failed' => file \in failed)
<1>1. CASE file = NoFile
    <2>1. UNCHANGED <<saved, opened, failed>> /\ file' = NoFile
        BY <1>1 DEF CloseFile
    <2> QED
        BY <1>1, <2>1 DEF Typing
<1>2. CASE file # NoFile /\ saved' = [saved EXCEPT ![file] = records[file]]
                        /\ UNCHANGED failed
    <2>1. opened' = opened \ {file} /\ file' = NoFile
        BY <1>2 DEF CloseFile
    <2>2. file \in Starts /\ records[file] \in Seq(Seq(Contents))
        BY <1>2 DEF Typing, Starts, NoFile
    <2> QED
        BY <1>2, <2>1, <2>2 DEF Typing
<1>3. ASSUME file # NoFile, NEW n \in DOMAIN records[file],
             NEW k \in 0 .. Len(records[file][n]) - 1,
             saved' = [saved EXCEPT ![file] = Append(SubSeq(records[file], 1, n - 1),
                                                     SubSeq(records[file][n], 1, k))],
             failed' = failed \cup {file}
      PROVE  /\ saved' \in [Starts -> Seq(Seq(Contents))]
             /\ records[file] # <<>>
             /\ file \in failed'
             /\ failed' \subseteq Starts /\ failed \subseteq failed'
             /\ \A s \in Starts : (s # file) => /\ saved'[s] = saved[s]
                                             /\ (s \in failed' => s \in failed)
    <2>1. file \in Starts /\ records[file] \in Seq(Seq(Contents))
        BY <1>3 DEF Typing, Starts, NoFile
    <2>2. Append(SubSeq(records[file], 1, n - 1), SubSeq(records[file][n], 1, k))
              \in Seq(Seq(Contents))
        BY <1>3, <2>1, CutTypes
    <2>3. records[file] # <<>>
        BY <1>3, <2>1
    <2> QED
        BY <1>3, <2>1, <2>2, <2>3 DEF Typing
<1>4. file # NoFile => opened' = opened \ {file} /\ file' = NoFile
    BY DEF CloseFile
<1> QED
    BY <1>1, <1>2, <1>3, <1>4 DEF CloseFile, Typing

\* A remainder below 2N.
LEMMA Wraps ==
    ASSUME NEW x \in 0 .. 2 * N - 1
    PROVE  x % N = IF x < N THEN x ELSE x - N
<1>1. N \in Nat /\ N > 0
    OBVIOUS
<1>2. CASE x < N
    BY <1>1, <1>2
<1>3. CASE x >= N
    BY <1>1, <1>3
<1> QED
    BY <1>1, <1>2, <1>3

LEMMA FillTypes ==
    ASSUME Typing, NEW p \in Packets, starts # 0, Fill(p)
    PROVE  /\ buf' \in [Cells -> Contents] /\ head' \in Cells
           /\ accepted' \in [Starts -> Seq(Packets)]
           /\ \A s \in Starts : s # starts => accepted'[s] = accepted[s]
<1>1. Size[p] \in 1 .. N - 1 /\ head \in 0 .. N - 1
    BY DEF Typing, Cells
<1>2. head' \in Cells
    <2>1. head + Size[p] + 1 \in 0 .. 2 * N - 1
        BY <1>1
    <2>2. PICK x \in 0 .. 2 * N - 1 : x = head + Size[p] + 1
        BY <2>1
    <2>3. x % N \in Cells
        BY Wraps DEF Cells
    <2> QED
        BY <2>2, <2>3 DEF Fill
<1>3. buf' \in [Cells -> Contents]
    <2>1. ASSUME NEW i \in Cells, NEW k, k = (i + N - head) % N, k <= Size[p]
          PROVE  <<p, k>> \in Contents
        <3>1. i + N - head \in 0 .. 2 * N - 1
            BY <1>1 DEF Cells
        <3>2. k \in 0 .. N
            BY <1>1, <2>1, <3>1, Wraps
        <3> QED
            BY <3>2 DEF Contents, Cell
    <2> QED
        BY <2>1 DEF Fill, Typing
<1>4. starts \in Starts /\ accepted \in [Starts -> Seq(Packets)]
    BY DEF Typing, Starts
<1>5. accepted' = [accepted EXCEPT ![starts] = Append(@, p)]
    BY DEF Fill
<1>6. accepted' \in [Starts -> Seq(Packets)]
    <2>1. Append(accepted[starts], p) \in Seq(Packets)
        BY <1>4
    <2> QED
        BY <1>4, <1>5, <2>1
<1> QED
    BY <1>2, <1>3, <1>4, <1>5, <1>6

\* A step of the packets or of the ring only.
LEMMA AloneKept ==
    ASSUME UNCHANGED <<capturing, file, named, task, count, starts, cpc, wpc, records,
                       saved, opened, failed, overlap>>
    PROVE  Alone => Alone'
BY DEF Alone, AlonePlaces, AloneFiles, Stopped, CountsMatch

LEMMA PutTypes ==
    ASSUME Places, NEW p \in Packets, Put(p)
    PROVE  Places'
<1>1. starts # 0 /\ Typing
    BY DEF Put, Places, Typing
<1>2. CASE Room < Size[p] + 1 /\ UNCHANGED <<buf, head, accepted>>
    <2>1. Typing'
        BY <1>1, <1>2 DEF Put, Typing, flags, handle, writer, disk
    <2>2. Alone => Alone'
        BY <1>2, AloneKept DEF Put, flags, handle, writer, disk
    <2> QED
        BY <2>1, <2>2 DEF Places, Put
<1>3. CASE Fill(p)
    <2>1. Typing'
        BY <1>1, <1>3, FillTypes DEF Put, Typing, flags, handle, writer, disk
    <2>2. Alone => Alone'
        BY AloneKept DEF Put, flags, handle, writer, disk
    <2> QED
        BY <2>1, <2>2 DEF Places, Put
<1> QED
    BY <1>2, <1>3 DEF Put

\* A step of a writer from one place of its loop to another.
LEMMA AloneWrites ==
    ASSUME Typing, NEW w \in Starts, wpc[w] \in {"loop", "read", "write"},
           wpc'[w] \in {"loop", "read", "write"},
           \A s \in Starts : s # w => wpc'[s] = wpc[s],
           UNCHANGED <<capturing, file, named, task, count, starts, cpc, records,
                       saved, opened, failed, overlap>>
    PROVE  Alone => Alone'
<1> SUFFICES ASSUME Alone PROVE Alone'
    OBVIOUS
<1>1. w = starts
    BY DEF Alone, AlonePlaces, Stopped
<1>2. AlonePlaces'
    BY <1>1 DEF Alone, AlonePlaces, Stopped
<1>3. cpc \notin Starting
    BY <1>1 DEF Typing
<1>4. CountsMatch \/ overlap => (CountsMatch \/ overlap)'
    BY DEF CountsMatch
<1>5. AloneFiles'
    BY <1>1, <1>3, <1>4 DEF Alone, AloneFiles
<1> QED
    BY <1>2, <1>5 DEF Alone

LEMMA ReadTypes ==
    ASSUME Places, NEW w \in Starts, Read(w)
    PROVE  Places'
<1>1. Typing /\ wlen[w] \in 1 .. N - 1 /\ tail \in 0 .. N - 1
    BY DEF Read, Places, Typing, Cells
<1>2. tail' \in Cells
    <2>1. tail + wlen[w] + 1 \in 0 .. 2 * N - 1
        BY <1>1
    <2>2. (tail + wlen[w] + 1) % N \in Cells
        <3>1. PICK x \in 0 .. 2 * N - 1 : x = tail + wlen[w] + 1
            BY <2>1
        <3>2. x % N \in Cells
            BY Wraps DEF Cells
        <3> QED
            BY <3>1, <3>2
    <2> QED
        BY <1>1, <2>2 DEF Read, Typing
<1>3. wbuf' \in [Starts -> Seq(Contents)]
    <2>1. [k \in 1 .. wlen[w] |-> buf[(tail + k) % N]] \in Seq(Contents)
        <3>1. ASSUME NEW k \in 1 .. wlen[w] PROVE buf[(tail + k) % N] \in Contents
            <4>1. tail + k \in 0 .. 2 * N - 1
                BY <1>1
            <4>2. (tail + k) % N \in Cells
                BY <1>1, <4>1, Wraps DEF Cells
            <4> QED
                BY <1>1, <4>2 DEF Typing
        <3> QED
            BY <1>1, <3>1
    <2> QED
        BY <1>1, <2>1 DEF Read, Typing
<1>4. wpc' \in {[wpc EXCEPT ![w] = "loop"], [wpc EXCEPT ![w] = "write"]}
    BY DEF Read
<1>5. wpc[w] = "read"
    BY DEF Read
<1>6. Typing'
    <2>1. UNCHANGED <<flags, handle, count, buf, head, starts, cpc, wlen, source,
                    ghosts>>
        BY DEF Read
    <2>2. wpc' \in [Starts -> WriterAt]
        BY <1>1, <1>4 DEF Typing
    <2>3. \A s \in Starts : wpc[s] = "none" => wpc'[s] = "none"
        BY <1>1, <1>4, <1>5 DEF Typing
    <2>4. cpc \in Starting => wpc'[starts] = "none"
        <3>1. starts \in 0 .. MaxStarts
            BY <1>1 DEF Typing
        <3>2. cpc \in Starting => starts # 0 /\ wpc[starts] = "none"
            BY <1>1 DEF Typing
        <3> QED
            BY <2>3, <3>1, <3>2 DEF Starts
    <2> QED
        BY <1>1, <1>2, <1>3, <2>1, <2>2, <2>3, <2>4
        DEF Typing, flags, handle, source, ghosts, disk
<1>7. Alone => Alone'
    <2>1. UNCHANGED <<flags, handle, count, starts, cpc, records, saved, opened, failed,
                      overlap>>
        BY DEF Read, ghosts, disk
    <2>2. /\ \A s \in Starts : s # w => wpc'[s] = wpc[s]
          /\ wpc'[w] \in {"loop", "read", "write"}
        BY <1>1, <1>4 DEF Typing
    <2> QED
        BY <1>1, <1>5, <2>1, <2>2, AloneWrites DEF flags, handle
<1> QED
    BY <1>6, <1>7 DEF Places, Read, ghosts


LEMMA WriterTypes ==
    ASSUME Places, NEW w \in Starts, Peek(w) \/ Resync(w) \/ Quit(w) \/ Exit(w)
    PROVE  Places'
<1>1. Typing
    BY DEF Places
<1>2. /\ wpc[w] \in {"loop", "read", "exit"}
      /\ \E at \in {"loop", "read", "close", "gone"} : wpc' = [wpc EXCEPT ![w] = at]
      /\ UNCHANGED <<flags, file, named, count, buf, starts, cpc, wbuf, source, ghosts>>
    BY DEF Peek, Resync, Quit, Exit, handle, ring, writer
<1>3. /\ wpc' \in [Starts -> WriterAt]
      /\ \A s \in Starts : (wpc[s] = "none") <=> (wpc'[s] = "none")
      /\ \A s \in Starts \ {w} : wpc'[s] = wpc[s]
    BY <1>1, <1>2 DEF Typing
<1>4. cpc \in Starting => wpc'[starts] = "none"
    BY <1>1, <1>3, StartNumbers
<1>5. head' \in Cells /\ tail' \in Cells /\ wlen' \in [Starts -> 0 .. N - 1]
    <2>1. \/ wlen' = wlen
          \/ \E n \in 0 .. N - 1 : wlen' = [wlen EXCEPT ![w] = n]
        BY DEF Peek, Resync, Quit, Exit, writer
    <2>2. head' \in {0, head} /\ tail' \in {0, tail} /\ 0 \in Cells
        BY DEF Cells, Peek, Resync, Quit, Exit, ring
    <2> QED
        BY <1>1, <2>1, <2>2 DEF Typing
<1>6. Typing'
    BY <1>1, <1>2, <1>3, <1>4, <1>5 DEF Typing, flags, source, ghosts, disk
<1>7. ASSUME Alone PROVE Alone'
    <2>1. w = starts /\ starts \in Starts /\ starts # 0
        BY <1>2, <1>7 DEF Alone, AlonePlaces, Stopped, Starts
    <2>2. cpc \notin Starting
        BY <1>1, <1>2, <2>1 DEF Typing
    <2>3. CASE Peek(w) \/ Resync(w)
        <3>1. /\ wpc[w] \in {"loop", "read"} /\ wpc'[w] \in {"loop", "read"}
              /\ UNCHANGED task
            BY <1>1, <2>3 DEF Peek, Resync, Typing, handle
        <3> QED
            BY <1>1, <1>2, <1>3, <1>7, <3>1, AloneWrites DEF flags, ghosts, disk
    <2>4. CASE Quit(w)
        <3>1. /\ wpc[w] = "loop" /\ wpc'[starts] = "close" /\ ~capturing
              /\ UNCHANGED task
            BY <1>1, <2>1, <2>4 DEF Quit, Typing, handle
        <3>2. AlonePlaces'
            BY <1>2, <1>3, <1>7, <2>1, <2>2, <3>1
            DEF Alone, AlonePlaces, Stopped, flags, ghosts, disk
        <3>3. AloneFiles'
            BY <1>2, <1>7, <2>2, <3>1
            DEF Alone, AloneFiles, CountsMatch, ghosts, disk
        <3> QED
            BY <3>2, <3>3 DEF Alone
    <2>5. CASE Exit(w)
        <3>1. wpc[w] = "exit" /\ wpc'[starts] = "gone" /\ ~capturing
            BY <1>1, <1>7, <2>1, <2>2, <2>5 DEF Exit, Typing, Alone, AlonePlaces
        <3>2. AlonePlaces'
            BY <1>2, <1>3, <1>7, <2>1, <2>2, <3>1
            DEF Alone, AlonePlaces, Stopped, flags, ghosts, disk
        <3>3. AloneFiles'
            BY <1>2, <1>7, <2>1, <2>2, <3>1
            DEF Alone, AloneFiles, CountsMatch, ghosts, disk
        <3> QED
            BY <3>2, <3>3 DEF Alone
    <2> QED
        BY <2>3, <2>4, <2>5
<1> QED
    BY <1>2, <1>6, <1>7 DEF Places, ghosts

LEMMA CloseWrites ==
    ASSUME Places, NEW w \in Starts, Close(w)
    PROVE  Places'
<1>1. Typing /\ wpc[w] = "close" /\ CloseFile
    BY DEF Places, Close
<1>2. /\ wpc' = [wpc EXCEPT ![w] = "exit"]
      /\ UNCHANGED <<flags, named, task, count, ring, starts, cpc, wlen, wbuf, source,
                     accepted, records, overlap>>
    BY DEF Close
<1>3. /\ wpc' \in [Starts -> WriterAt] /\ wpc'[w] = "exit"
      /\ \A s \in Starts : (wpc[s] = "none") <=> (wpc'[s] = "none")
      /\ \A s \in Starts \ {w} : wpc'[s] = wpc[s]
    BY <1>1, <1>2 DEF Typing
<1>4. cpc \in Starting => wpc'[starts] = "none"
    BY <1>1, <1>3, StartNumbers
<1>5. /\ file' = NoFile
      /\ saved' \in [Starts -> Seq(Seq(Contents))]
      /\ opened' \subseteq Starts /\ failed' \subseteq Starts
      /\ \A s \in Starts : (s # file) => /\ saved'[s] = saved[s]
                                       /\ (s \in failed' => s \in failed)
                                       /\ (s \in opened' <=> s \in opened)
      /\ file # NoFile =>
            /\ file \notin opened'
            /\ (file \notin failed' => saved'[file] = records[file])
    BY <1>1, CloseTypes
<1>6. Typing'
    <2>1. \A s \in Starts : s > starts => s # file
        BY <1>1 DEF Typing
    <2> QED
        BY <1>1, <1>2, <1>3, <1>4, <1>5, <2>1
        DEF Typing, NoFile, flags, ring, source
<1>7. ASSUME Alone PROVE Alone'
    <2>1. w = starts /\ starts \in Starts /\ starts # NoFile
        BY <1>1, <1>7 DEF Alone, AlonePlaces, Stopped, Starts, NoFile
    <2>2. file = starts /\ named = starts /\ starts \in opened
        BY <1>1, <1>7, <2>1 DEF Alone, AlonePlaces, NoFile
    <2>3. cpc \notin Starting /\ ~capturing
        BY <1>1, <1>7, <2>1 DEF Typing, Alone, AlonePlaces
    <2>4. AlonePlaces'
        BY <1>2, <1>3, <1>7, <2>1, <2>3 DEF Alone, AlonePlaces, Stopped, flags
    <2>5. starts \notin opened' /\ (starts \notin failed' => saved'[starts] = records[starts])
        BY <1>5, <2>1, <2>2
    <2>6. (CountsMatch \/ overlap)'
        <3>1. starts \notin failed' => starts \notin failed
            BY <1>1, CloseTypes
        <3>2. CountsMatch \/ overlap
            BY <1>7 DEF Alone, AloneFiles
        <3>3. \/ overlap \/ starts \in failed
              \/ count = Len(records[starts])
            BY <2>1, <2>2, <2>3, <3>2 DEF CountsMatch, NoFile
        <3> QED
            BY <1>2, <2>1, <2>2, <2>5, <3>1, <3>3 DEF CountsMatch
    <2>7. AloneFiles'
        BY <1>2, <1>3, <2>1, <2>3, <2>5, <2>6 DEF AloneFiles
    <2> QED
        BY <2>4, <2>7 DEF Alone
<1> QED
    BY <1>2, <1>6, <1>7 DEF Places

LEMMA WriteTypes ==
    ASSUME Places, NEW w \in Starts, Write(w)
    PROVE  Places'
<1>1. Typing
    BY DEF Places
<1>2. /\ wpc[w] = "write" /\ wpc' = [wpc EXCEPT ![w] = "loop"]
      /\ wbuf' = [wbuf EXCEPT ![w] = <<>>]
      /\ UNCHANGED <<flags, handle, ring, starts, cpc, wlen, source, accepted, saved,
                     opened, failed, overlap>>
    BY DEF Write
<1>3. /\ wpc' \in [Starts -> WriterAt]
      /\ \A s \in Starts : (wpc[s] = "none") <=> (wpc'[s] = "none")
      /\ \A s \in Starts \ {w} : wpc'[s] = wpc[s]
      /\ wpc'[w] = "loop"
    BY <1>1, <1>2 DEF Typing
<1>4. cpc \in Starting => wpc'[starts] = "none"
    BY <1>1, <1>3, StartNumbers
<1>5. /\ records' \in [Starts -> Seq(Seq(Contents))] /\ count' \in Nat
      /\ \A s \in Starts : s > starts => records'[s] = records[s]
    <2>1. CASE file = NoFile
        BY <1>1, <2>1 DEF Write, Typing
    <2>2. CASE file # NoFile
        <3>1. file \in Starts /\ ~(file > starts) /\ wbuf[w] \in Seq(Contents)
            BY <1>1, <2>2 DEF Typing, Starts, NoFile
        <3>2. Append(records[file], wbuf[w]) \in Seq(Seq(Contents))
            BY <1>1, <3>1 DEF Typing
        <3>3. /\ records' = [records EXCEPT ![file] = Append(@, wbuf[w])]
              /\ count' = count + 1
            BY <2>2 DEF Write
        <3> QED
            BY <1>1, <3>1, <3>2, <3>3 DEF Typing
    <2> QED
        BY <2>1, <2>2
<1>6. Typing'
    <2>1. wbuf' \in [Starts -> Seq(Contents)]
        BY <1>1, <1>2 DEF Typing
    <2> QED
        BY <1>1, <1>2, <1>3, <1>4, <1>5, <2>1 DEF Typing, flags, handle, ring, source
<1>7. ASSUME Alone PROVE Alone'
    <2>1. w = starts /\ starts \in Starts /\ starts # NoFile
        BY <1>2, <1>7 DEF Alone, AlonePlaces, Stopped, Starts, NoFile
    <2>2. cpc \notin Starting
        BY <1>1, <1>2, <2>1 DEF Typing
    <2>3. file = starts /\ named = starts /\ starts \in opened /\ starts \notin failed
        BY <1>2, <1>7, <2>1 DEF Alone, AlonePlaces, AloneFiles, NoFile
    <2>4. overlap \/ count = Len(records[starts])
        <3>1. CountsMatch \/ overlap
            BY <1>7 DEF Alone, AloneFiles
        <3> QED
            BY <2>1, <2>2, <2>3, <3>1 DEF CountsMatch, NoFile
    <2>5. /\ records' = [records EXCEPT ![starts] = Append(@, wbuf[w])]
          /\ count' = count + 1
        BY <2>1, <2>3 DEF Write
    <2>6. overlap \/ count' = Len(records'[starts])
        <3>1. records[starts] \in Seq(Seq(Contents)) /\ wbuf[w] \in Seq(Contents)
            BY <1>1, <2>1 DEF Typing
        <3>2. Len(Append(records[starts], wbuf[w])) = Len(records[starts]) + 1
            BY <3>1
        <3> QED
            BY <1>1, <2>1, <2>4, <2>5, <3>2 DEF Typing
    <2>7. AlonePlaces'
        BY <1>2, <1>3, <1>7, <2>1, <2>2 DEF Alone, AlonePlaces, Stopped, flags, handle
    <2>8. (CountsMatch \/ overlap)'
        BY <1>2, <2>3, <2>6 DEF CountsMatch, handle
    <2>9. AloneFiles'
        BY <1>2, <1>3, <2>1, <2>2, <2>3, <2>8 DEF AloneFiles
    <2> QED
        BY <2>7, <2>9 DEF Alone
<1> QED
    BY <1>2, <1>6, <1>7 DEF Places

LEMMA WriteFailsTypes ==
    ASSUME Places, NEW w \in Starts, WriteFails(w)
    PROVE  Places'
<1>1. Typing /\ file \in Starts /\ wbuf[w] \in Seq(Contents)
    <2>1. Typing /\ file # NoFile
        BY DEF Places, WriteFails
    <2>2. wbuf[w] \in Seq(Contents)
        BY <2>1 DEF Typing
    <2> QED
        BY <2>1, <2>2, StartNumbers
<1>2. /\ wpc[w] = "write" /\ wpc' = [wpc EXCEPT ![w] = "close"]
      /\ wbuf' = [wbuf EXCEPT ![w] = <<>>]
      /\ UNCHANGED <<handle, count, ring, starts, cpc, wlen, source, accepted, saved,
                     opened, overlap>>
      /\ failed' = failed \cup {file}
    BY DEF WriteFails, ShortWrite
<1>3. /\ wpc' \in [Starts -> WriterAt]
      /\ \A s \in Starts : (wpc[s] = "none") <=> (wpc'[s] = "none")
      /\ \A s \in Starts \ {w} : wpc'[s] = wpc[s]
      /\ wpc'[w] = "close"
    BY <1>1, <1>2 DEF Typing
<1>4. cpc \in Starting => wpc'[starts] = "none"
    BY <1>1, <1>3, StartNumbers
<1>5. /\ records' \in [Starts -> Seq(Seq(Contents))]
      /\ \A s \in Starts : s # file => records'[s] = records[s]
    <2>1. PICK k \in 0 .. Len(wbuf[w]) - 1 :
             records' = [records EXCEPT ![file] = Append(@, SubSeq(wbuf[w], 1, k))]
        BY DEF WriteFails, ShortWrite
    <2>2. SubSeq(wbuf[w], 1, k) \in Seq(Contents)
        BY <1>1, BeginningTypes
    <2>3. Append(records[file], SubSeq(wbuf[w], 1, k)) \in Seq(Seq(Contents))
        BY <1>1, <2>2 DEF Typing
    <2> QED
        BY <1>1, <2>1, <2>3 DEF Typing
<1>6. ~capturing' /\ ~running' /\ capturing' \in BOOLEAN /\ running' \in BOOLEAN
    BY DEF WriteFails
<1>7. Typing'
    <2>1. \A s \in Starts : s > starts => s # file
        BY <1>1 DEF Typing
    <2>2. failed' \subseteq Starts /\ count' \in Nat /\ (capturing' => running')
        BY <1>1, <1>2, <1>6 DEF Typing
    <2>3. ASSUME NEW s \in Starts, s > starts
          PROVE  wpc'[s] = "none" /\ records'[s] = <<>> /\ s \notin failed'
        <3>1. wpc[s] = "none" /\ records[s] = <<>> /\ s \notin failed
            BY <1>1, <2>3 DEF Typing
        <3>2. s # file
            BY <2>1, <2>3
        <3> QED
            BY <1>2, <1>3, <1>5, <3>1, <3>2
    <2>4. wbuf' \in [Starts -> Seq(Contents)]
        BY <1>1, <1>2 DEF Typing
    <2> QED
        BY <1>1, <1>2, <1>3, <1>4, <1>5, <1>6, <2>2, <2>3, <2>4
           DEF Typing, handle, ring, source
<1>8. ASSUME Alone PROVE Alone'
    <2>1. w = starts /\ starts \in Starts /\ starts # NoFile
        BY <1>2, <1>8 DEF Alone, AlonePlaces, Stopped, Starts, NoFile
    <2>2. cpc \notin Starting
        BY <1>1, <1>2, <2>1 DEF Typing
    <2>3. file = starts /\ named = starts
        BY <1>2, <1>8, <2>1 DEF Alone, AlonePlaces, NoFile
    <2>4. AlonePlaces'
        BY <1>2, <1>3, <1>6, <1>8, <2>1, <2>2 DEF Alone, AlonePlaces, Stopped, handle
    <2>5. (CountsMatch \/ overlap)'
        BY <1>2, <2>3 DEF CountsMatch, handle
    <2>6. AloneFiles'
        BY <1>2, <1>3, <2>1, <2>2, <2>5 DEF AloneFiles
    <2> QED
        BY <2>4, <2>6 DEF Alone
<1> QED
    BY <1>2, <1>7, <1>8 DEF Places

LEMMA ResetTypes ==
    ASSUME Places, StartReset
    PROVE  Places'
<1>1. Typing
    BY DEF Places
<1>2. starts + 1 \in Starts /\ starts \in Nat
    BY <1>1 DEF StartReset, Typing, Starts
<1>3. /\ wpc[starts + 1] = "none" /\ starts + 1 \notin opened \cup failed
      /\ records[starts + 1] = <<>> /\ saved[starts + 1] = <<>>
    BY <1>1, <1>2 DEF Typing
<1>4. /\ starts' = starts + 1 /\ cpc' = "open" /\ count' = 0
      /\ UNCHANGED <<capturing, running, file, named, task, buf, wpc, wlen, wbuf,
                     source, accepted, records, saved, opened, failed>>
      /\ overlap' \in BOOLEAN
      /\ ~capturing /\ head' = 0 /\ tail' = 0 /\ 0 \in Cells
    BY DEF StartReset, handle, writer, disk, Cells
<1>5. Typing'
    <2>1. /\ starts' \in 0 .. MaxStarts /\ starts' # 0
          /\ file \in 0 .. starts' /\ named \in 0 .. starts'
          /\ \A s \in Starts : s > starts' => s > starts
        <3>1. file \in 0 .. starts /\ named \in 0 .. starts
            BY <1>1 DEF Typing
        <3> QED
            BY <1>2, <1>4, <3>1 DEF Starts
    <2> QED
        BY <1>1, <1>2, <1>3, <1>4, <2>1 DEF Typing, source
<1>6. ASSUME ~overlap' PROVE Alone'
    <2>1. \A s \in Starts : Stopped(s)
        BY <1>6 DEF StartReset, AllGone
    <2>2. AlonePlaces'
        BY <1>2, <1>3, <1>4, <2>1 DEF AlonePlaces, Stopped
    <2>3. AloneFiles'
        BY <1>2, <1>3, <1>4 DEF AloneFiles, CountsMatch
    <2> QED
        BY <2>2, <2>3 DEF Alone
<1> QED
    BY <1>4, <1>5, <1>6 DEF Places

LEMMA OpenTypes ==
    ASSUME Places, StartOpen
    PROVE  Places'
<1>1. Typing /\ cpc = "open"
    BY DEF Places, StartOpen
<1>2. starts \in Starts /\ starts # 0 /\ ~capturing /\ wpc[starts] = "none"
    BY <1>1 DEF Typing, Starts
<1>3. /\ named' = starts
      /\ UNCHANGED <<capturing, running, task, count, head, tail, buf, starts, wpc,
                     wlen, wbuf, source, accepted, records, saved, failed, overlap>>
    BY DEF StartOpen, flags, ring, writer
<1>4. \/ file' = starts /\ opened' = opened \cup {starts} /\ cpc' = "create"
      \/ file' = NoFile /\ opened' = opened /\ cpc' = "idle"
    BY DEF StartOpen
<1>5. Typing'
    <2>1. \A s \in Starts : s > starts => s # starts
        BY <1>2 DEF Starts
    <2>2. /\ file' \in 0 .. starts /\ named' \in 0 .. starts
          /\ cpc' \in {"create", "idle"}
        BY <1>1, <1>3, <1>4 DEF Typing, NoFile
    <2>3. /\ opened' \subseteq Starts
          /\ \A s \in Starts : s > starts => s \notin opened'
        BY <1>1, <1>2, <1>4, <2>1 DEF Typing
    <2> QED
        BY <1>1, <1>2, <1>3, <2>2, <2>3 DEF Typing, source
<1>6. ASSUME Alone PROVE Alone'
    <2>1. AlonePlaces'
        BY <1>2, <1>3, <1>4, <1>6 DEF Alone, AlonePlaces, Stopped
    <2>2. /\ records[starts] = <<>> /\ saved[starts] = <<>> /\ count = 0
          /\ starts \notin opened /\ starts \notin failed
        BY <1>1, <1>6 DEF Alone, AloneFiles
    <2>3. (CountsMatch \/ overlap)'
        BY <1>2, <1>3, <1>4, <2>2 DEF CountsMatch
    <2>4. AloneFiles'
        BY <1>2, <1>3, <1>4, <2>2, <2>3 DEF AloneFiles
    <2> QED
        BY <2>1, <2>4 DEF Alone
<1> QED
    BY <1>3, <1>5, <1>6 DEF Places

LEMMA FlagsTypes ==
    ASSUME Places, StartFlags
    PROVE  Places'
<1>1. Typing /\ cpc = "create"
    BY DEF Places, StartFlags
<1>2. /\ capturing' /\ running' /\ capturing' \in BOOLEAN /\ running' \in BOOLEAN
      /\ cpc' = "spawn"
      /\ UNCHANGED <<handle, count, ring, starts, writer, source, ghosts>>
    BY DEF StartFlags
<1>3. Typing'
    BY <1>1, <1>2 DEF Typing, handle, ring, writer, source, ghosts, disk
<1>4. ASSUME Alone PROVE Alone'
    <2>1. AlonePlaces'
        BY <1>1, <1>2, <1>4 DEF Alone, AlonePlaces, Stopped, handle, writer, ghosts, disk
    <2>2. (CountsMatch \/ overlap)'
        BY <1>1, <1>2, <1>4 DEF Alone, AloneFiles, CountsMatch, handle, ghosts, disk
    <2>3. AloneFiles'
        BY <1>1, <1>2, <1>4, <2>2 DEF Alone, AloneFiles, writer, ghosts, disk
    <2> QED
        BY <2>1, <2>3 DEF Alone
<1> QED
    BY <1>2, <1>3, <1>4 DEF Places, ghosts

LEMMA FailsTypes ==
    ASSUME Places, StartFails
    PROVE  Places'
<1>1. Typing /\ cpc = "spawn" /\ CloseFile
    BY DEF Places, StartFails
<1>2. /\ ~capturing' /\ ~running' /\ capturing' \in BOOLEAN /\ running' \in BOOLEAN
      /\ cpc' = "idle"
      /\ UNCHANGED <<named, task, count, ring, starts, writer, source, accepted,
                     records, overlap>>
    BY DEF StartFails
<1>3. /\ file' = NoFile
      /\ saved' \in [Starts -> Seq(Seq(Contents))]
      /\ opened' \subseteq Starts /\ failed' \subseteq Starts
      /\ \A s \in Starts : s # file => /\ saved'[s] = saved[s]
                                       /\ (s \in failed' => s \in failed)
                                       /\ (s \in opened' <=> s \in opened)
      /\ file # NoFile =>
            /\ file \notin opened'
            /\ records[file] = <<>> => /\ saved'[file] = <<>>
                                       /\ (file \in failed' => file \in failed)
    BY <1>1, CloseTypes
<1>4. Typing'
    <2>1. \A s \in Starts : s > starts => s # file
        BY <1>1 DEF Typing
    <2> QED
        BY <1>1, <1>2, <1>3, <2>1 DEF Typing, NoFile, ring, writer, source
<1>5. ASSUME Alone PROVE Alone'
    <2>1. starts \in Starts /\ starts # NoFile
        BY <1>1 DEF Typing, Starts, NoFile
    <2>2. /\ file = starts /\ named = starts /\ starts \notin failed
          /\ records[starts] = <<>> /\ count = 0 /\ wpc[starts] = "none"
        BY <1>1, <1>5 DEF Alone, AlonePlaces, AloneFiles, Typing
    <2>3. saved'[starts] = <<>> /\ starts \notin failed' /\ starts \notin opened'
        BY <1>3, <2>1, <2>2
    <2>4. AlonePlaces'
        BY <1>2, <1>5, <2>2 DEF Alone, AlonePlaces, Stopped, writer
    <2>5. (CountsMatch \/ overlap)'
        BY <1>2, <2>2, <2>3 DEF CountsMatch
    <2>6. AloneFiles'
        BY <1>2, <2>1, <2>2, <2>3, <2>5 DEF AloneFiles, writer
    <2> QED
        BY <2>4, <2>6 DEF Alone
<1> QED
    BY <1>2, <1>4, <1>5 DEF Places

LEMMA SpawnTypes ==
    ASSUME Places, StartWriter
    PROVE  Places'
<1>1. Typing /\ cpc = "spawn"
    BY DEF Places, StartWriter
<1>2. starts \in Starts /\ starts # 0 /\ wpc[starts] = "none"
    BY <1>1 DEF Typing, Starts
<1>3. /\ cpc' = "idle" /\ task' = starts
      /\ UNCHANGED <<flags, file, named, count, starts, wlen, wbuf, ring, source,
                     ghosts>>
    BY DEF StartWriter
<1>4. /\ wpc' \in [Starts -> WriterAt]
      /\ wpc'[starts] = "loop"
      /\ \A s \in Starts : s # starts => wpc'[s] = wpc[s]
    BY <1>1, <1>2 DEF StartWriter, Typing
<1>5. Typing'
    <2>1. \A s \in Starts : s > starts => s # starts
        BY <1>2 DEF Starts
    <2> QED
        BY <1>1, <1>2, <1>3, <1>4, <2>1 DEF Typing, flags, ring, source, ghosts, disk
<1>6. ASSUME Alone PROVE Alone'
    <2>1. file = starts /\ named = starts /\ starts \in opened
        BY <1>1, <1>6 DEF Alone, AlonePlaces
    <2>2. AlonePlaces'
        BY <1>2, <1>3, <1>4, <1>6, <2>1
        DEF Alone, AlonePlaces, Stopped, flags, ghosts, disk
    <2>3. (CountsMatch \/ overlap)'
        BY <1>1, <1>3, <1>6 DEF Alone, AloneFiles, CountsMatch, ghosts, disk
    <2>4. AloneFiles'
        BY <1>1, <1>3, <1>4, <1>6, <2>3 DEF Alone, AloneFiles, ghosts, disk
    <2> QED
        BY <2>2, <2>4 DEF Alone
<1> QED
    BY <1>3, <1>5, <1>6 DEF Places, ghosts

LEMMA StopTypes ==
    ASSUME Places, StopBegin \/ StopEnd
    PROVE  Places'
<1>1. Typing
    BY DEF Places
<1>2. /\ capturing' \in BOOLEAN /\ running' \in BOOLEAN /\ (capturing' => running')
      /\ (capturing' => capturing)
    <2>1. CASE StopBegin
        BY <2>1 DEF StopBegin
    <2>2. CASE StopEnd
        BY <1>1, <2>2 DEF StopEnd, flags, Typing
    <2> QED
        BY <2>1, <2>2
<1>3. /\ cpc' \in {"idle", "stopping"} /\ cpc \in {"idle", "stopping"} /\ starts # 0
      /\ UNCHANGED <<handle, count, ring, starts, writer, source, ghosts>>
    BY <1>1 DEF StopBegin, StopEnd, Typing
<1>4. Typing'
    BY <1>1, <1>2, <1>3 DEF Typing, handle, ring, writer, source, ghosts, disk
<1>5. ASSUME Alone PROVE Alone'
    <2>1. AlonePlaces'
        BY <1>2, <1>3, <1>5 DEF Alone, AlonePlaces, Stopped, handle, writer, ghosts, disk
    <2>2. (CountsMatch \/ overlap)'
        BY <1>3, <1>5 DEF Alone, AloneFiles, CountsMatch, handle, ghosts, disk
    <2>3. AloneFiles'
        BY <1>3, <1>5, <2>2 DEF Alone, AloneFiles, writer, ghosts, disk
    <2> QED
        BY <2>1, <2>3 DEF Alone
<1> QED
    BY <1>3, <1>4, <1>5 DEF Places, ghosts

LEMMA DeleteTypes ==
    ASSUME Places, Delete
    PROVE  Places'
<1>1. Typing
    BY DEF Places
<1>2. /\ ~capturing /\ cpc = "idle" /\ named' = NoFile /\ count' = 0
      /\ overlap' = (overlap \/ ~AllGone)
      /\ UNCHANGED <<flags, file, task, ring, starts, cpc, writer, source, accepted,
                     disk>>
    BY DEF Delete
<1>3. Typing'
    <2>1. overlap' \in BOOLEAN
        BY <1>2
    <2> QED
        BY <1>1, <1>2, <2>1 DEF Typing, NoFile, flags, ring, writer, source, disk
<1>4. ASSUME ~overlap' PROVE Alone'
    <2>1. /\ \A s \in Starts : Stopped(s)
          /\ starts # 0 => starts \in Starts
        BY <1>1, <1>2, <1>4, StartNumbers DEF AllGone
    <2>2. AlonePlaces'
        BY <1>2, <2>1 DEF AlonePlaces, Stopped, flags, writer
    <2>3. Alone
        BY <1>2, <1>4 DEF Places
    <2>4. AloneFiles'
        BY <1>2, <2>1, <2>3 DEF Alone, AloneFiles, Stopped, CountsMatch, writer, disk
    <2> QED
        BY <2>2, <2>4 DEF Alone
<1> QED
    BY <1>3, <1>4 DEF Places

LEMMA ServerTypes ==
    ASSUME Places, Server
    PROVE  Places'
BY ResetTypes, OpenTypes, FlagsTypes, SpawnTypes, FailsTypes, StopTypes, DeleteTypes
DEF Server

LEMMA NextPlaces == Places /\ [Next]_vars => Places'
<1> SUFFICES ASSUME Places, [Next]_vars PROVE Places'
    OBVIOUS
<1>1. ASSUME NEW p \in Packets, Submit(p) PROVE Places'
    <2>1. passing' \subseteq Packets /\ fresh' \subseteq Packets /\ starts # 0
        BY <1>1 DEF Submit, Places, Typing
    <2>2. Typing'
        BY <1>1, <2>1
        DEF Submit, Places, Typing, flags, handle, ring, writer, ghosts, disk
    <2>3. Alone => Alone'
        BY <1>1, AloneKept DEF Submit, flags, handle, writer, ghosts, disk
    <2> QED
        BY <1>1, <2>2, <2>3 DEF Submit, Places, ghosts
<1>2. ASSUME UNCHANGED vars PROVE Places'
    <2>1. Typing => Typing'
        BY <1>2 DEF vars, Typing, flags, handle, ring, writer, source, ghosts, disk
    <2>2. Alone => Alone'
        BY <1>2, AloneKept DEF vars, flags, handle, writer, ghosts, disk
    <2> QED
        BY <1>2, <2>1, <2>2 DEF Places, vars, ghosts
<1>3. CASE Producer
    BY <1>1, <1>3, PutTypes DEF Producer
<1>4. CASE Server
    BY <1>4, ServerTypes
<1>5. ASSUME NEW w \in Starts, Writer(w) PROVE Places'
    BY <1>5, WriterTypes, CloseWrites, ReadTypes, WriteTypes, WriteFailsTypes DEF Writer
<1>6. ASSUME NEW w \in Starts, Poll(w) PROVE UNCHANGED vars
    BY <1>6 DEF Poll
<1>7. Terminated => UNCHANGED vars
    BY DEF Terminated
<1> QED
    BY <1>2, <1>3, <1>4, <1>5, <1>6, <1>7 DEF Next

THEOREM PlacesHold == Spec => []Places
<1> QED
    BY InitPlaces, NextPlaces, PTL DEF Spec

\* As long as no I/O error is met, the count that is reported is that of the records
\* written to the open file it is reported with, and of those in the file once it is
\* closed, unless the writers of two captures have met.
THEOREM RecordsCounted == Spec => []CountsMatch
<1>1. Places => CountsMatch
    BY DEF Places, Alone, AloneFiles, CountsMatch
<1> QED
    BY <1>1, PlacesHold, PTL

\* While a capture is on, its own file is open, and its own writer is there from the
\* end of capture_start on, as long as the writers of two captures have not met.
THEOREM RecordingIsServed == Spec => []AloneRecordingHasFile
<1>1. Places => AloneRecordingHasFile
    BY DEF Places, Typing, Alone, AlonePlaces, AloneRecordingHasFile, RecordingHasFile,
           Stopped
<1> QED
    BY <1>1, PlacesHold, PTL
-------------------------------------------------------------------------------
(* The contents of the ring *)

\* The cell o cells after cell i.
At(i, o) == IF i + o < N THEN i + o ELSE i + o - N

\* The packets of a from the t-th on, t not counted, are the u cells of b after
\* cell h, and the k-th of them ends f[k] cells after it.
ChainOf(f, t, a, b, h, u) ==
    LET n == Len(a)
    IN /\ f \in [t .. n -> Nat] /\ f[t] = 0 /\ f[n] = u
       /\ \A i, k \in t .. n : i <= k => f[i] <= f[k]
       /\ \A k \in t + 1 .. n :
             /\ f[k] = f[k - 1] + Size[a[k]] + 1
             /\ \A j \in 0 .. Size[a[k]] : b[At(h, f[k - 1] + j)] = <<a[k], j>>

\* The ring holds the accepted packets after the t-th.
Chain(f, t) == ChainOf(f, t, accepted[starts], buf, tail, Used)

LEMMA ChainKept ==
    ASSUME NEW f, NEW t, Chain(f, t), UNCHANGED <<buf, head, tail, starts, accepted>>
    PROVE  Chain(f, t)'
<1>1. Used' = Used
    BY DEF Used
<1> QED
    BY <1>1 DEF Chain

LEMMA UsedCells ==
    ASSUME Typing
    PROVE  /\ Used \in 0 .. N - 1 /\ Room = N - 1 - Used
           /\ head = At(tail, Used)
           /\ \A o \in 0 .. N - 1 :
                 At(tail, o) \in Cells /\ (tail + o) % N = At(tail, o)
<1>1. head \in 0 .. N - 1 /\ tail \in 0 .. N - 1
    BY DEF Typing, Cells
<1>2. Used \in 0 .. N - 1 /\ Room = N - 1 - Used
    BY <1>1 DEF Used, Room
<1>3. head = At(tail, Used)
    BY <1>1 DEF Used, At
<1>4. ASSUME NEW o \in 0 .. N - 1
      PROVE  At(tail, o) \in Cells /\ (tail + o) % N = At(tail, o)
    <2>1. tail + o \in 0 .. 2 * N - 1
        BY <1>1
    <2>2. (tail + o) % N = IF tail + o < N THEN tail + o ELSE tail + o - N
        BY <1>1, <2>1, Wraps
    <2> QED
        BY <1>1, <2>2 DEF At, Cells
<1> QED
    BY <1>2, <1>3, <1>4

\* Where a packet that is put in lands, and that no entry is overwritten.
LEMMA FillCells ==
    ASSUME Typing, NEW p \in Packets, starts # 0, Fill(p), Room >= Size[p] + 1,
           tail' = tail
    PROVE  /\ Used' = Used + Size[p] + 1
           /\ \A o \in 0 .. Used - 1 : buf'[At(tail, o)] = buf[At(tail, o)]
           /\ \A j \in 0 .. Size[p] : buf'[At(tail, Used + j)] = <<p, j>>
<1>1. head \in 0 .. N - 1 /\ tail \in 0 .. N - 1 /\ Size[p] \in 1 .. N - 1
    BY DEF Typing, Cells
<1>2. Used \in 0 .. N - 1 /\ Used + Size[p] + 1 <= N - 1 /\ head = At(tail, Used)
    BY <1>1, UsedCells
<1>3. ASSUME NEW o \in 0 .. N - 1
      PROVE  /\ At(tail, o) \in Cells
             /\ (At(tail, o) + N - head) % N
                    = IF o >= Used THEN o - Used ELSE o + N - Used
    <2>1. At(tail, o) \in Cells
        BY UsedCells
    <2>2. At(tail, o) + N - head \in 0 .. 2 * N - 1
        BY <1>1, <2>1 DEF Cells
    <2>3. (At(tail, o) + N - head) % N
              = IF At(tail, o) + N - head < N THEN At(tail, o) + N - head
                                              ELSE At(tail, o) + N - head - N
        BY <1>1, <2>1, <2>2, Wraps DEF Cells
    <2> QED
        BY <1>1, <1>2, <2>1, <2>3 DEF At
<1>4. head' = IF head + Size[p] + 1 < N THEN head + Size[p] + 1
                                         ELSE head + Size[p] + 1 - N
    <2>1. head + Size[p] + 1 \in 0 .. 2 * N - 1
        BY <1>1
    <2>2. head' = (head + Size[p] + 1) % N
        BY DEF Fill
    <2> QED
        BY <1>1, <2>1, <2>2, Wraps
<1>5. Used' = Used + Size[p] + 1
    BY <1>1, <1>2, <1>4 DEF Used
<1>6. ASSUME NEW o \in 0 .. Used - 1 PROVE buf'[At(tail, o)] = buf[At(tail, o)]
    <2>1. (At(tail, o) + N - head) % N = o + N - Used /\ At(tail, o) \in Cells
        BY <1>2, <1>3
    <2>2. ~(o + N - Used <= Size[p])
        BY <1>1, <1>2
    <2> QED
        BY <2>1, <2>2 DEF Fill
<1>7. ASSUME NEW j \in 0 .. Size[p] PROVE buf'[At(tail, Used + j)] = <<p, j>>
    <2>1. Used + j \in 0 .. N - 1 /\ Used + j >= Used /\ Used + j - Used = j
        BY <1>1, <1>2
    <2>2. (At(tail, Used + j) + N - head) % N = j /\ At(tail, Used + j) \in Cells
        BY <1>1, <1>2, <1>3, <2>1
    <2>3. j <= Size[p]
        BY <1>1
    <2> QED
        BY <2>2, <2>3 DEF Fill
<1> QED
    BY <1>5, <1>6, <1>7

\* An entry of the chain ends within the used part.
LEMMA Within ==
    ASSUME NEW k, NEW f, NEW z, NEW u, f[k] \in Nat, f[k - 1] \in Nat,
           z \in Nat, u \in Nat, f[k] = f[k - 1] + z + 1, f[k] <= u
    PROVE  \A j \in 0 .. z : f[k - 1] + j \in 0 .. u - 1
OBVIOUS

LEMMA FillExtends ==
    ASSUME Typing, NEW p \in Packets, starts # 0, Fill(p), Room >= Size[p] + 1,
           UNCHANGED <<tail, starts>>,
           NEW t \in 0 .. Len(accepted[starts]), NEW f, Chain(f, t)
    PROVE  \E g : Chain(g, t)'
<1> DEFINE a == accepted[starts]
           n == Len(a)
<1>1. a \in Seq(Packets) /\ n \in Nat /\ t \in 0 .. n /\ Size[p] \in 1 .. N - 1
    <2>1. starts \in Starts
        BY DEF Typing, Starts
    <2> QED
        BY <2>1 DEF Typing
<1>2. accepted'[starts'] = Append(a, p)
    <2>1. starts \in Starts /\ accepted \in [Starts -> Seq(Packets)] /\ starts' = starts
        BY DEF Typing, Starts
    <2>2. accepted' = [accepted EXCEPT ![starts] = Append(@, p)]
        BY DEF Fill
    <2> QED
        BY <2>1, <2>2
<1>3. /\ Len(Append(a, p)) = n + 1 /\ Append(a, p)[n + 1] = p
      /\ \A k \in 1 .. n : Append(a, p)[k] = a[k]
    BY <1>1
<1>4. /\ f \in [t .. n -> Nat] /\ f[t] = 0 /\ f[n] = Used
      /\ \A i, k \in t .. n : i <= k => f[i] <= f[k]
      /\ \A k \in t + 1 .. n :
            /\ f[k] = f[k - 1] + Size[a[k]] + 1
            /\ \A j \in 0 .. Size[a[k]] : buf[At(tail, f[k - 1] + j)] = <<a[k], j>>
    BY DEF Chain, ChainOf
<1>5. /\ Used' = Used + Size[p] + 1
      /\ \A o \in 0 .. Used - 1 : buf'[At(tail, o)] = buf[At(tail, o)]
      /\ \A j \in 0 .. Size[p] : buf'[At(tail, Used + j)] = <<p, j>>
    BY FillCells
<1>6. Used \in Nat
    BY UsedCells
<1> HIDE DEF a, n
<1>g. PICK g : g = [k \in t .. n + 1 |-> IF k <= n THEN f[k] ELSE f[n] + Size[p] + 1]
    OBVIOUS
<1>7. /\ g \in [t .. n + 1 -> Nat] /\ g[t] = 0 /\ g[n + 1] = Used'
      /\ \A k \in t .. n : g[k] = f[k]
    <2>1. f[n] + Size[p] + 1 \in Nat /\ n \in t .. n
        BY <1>1, <1>4, <1>6
    <2>2. g \in [t .. n + 1 -> Nat]
        BY <1>1, <1>4, <1>g, <2>1
    <2>3. n + 1 \in t .. n + 1 /\ t \in t .. n /\ ~(n + 1 <= n)
        BY <1>1
    <2>4. g[n + 1] = Used'
        BY <1>4, <1>5, <1>g, <2>3
    <2>5. \A k \in t .. n : k \in t .. n + 1 /\ k <= n
        BY <1>1
    <2>6. \A k \in t .. n : g[k] = f[k]
        BY <1>g, <2>5
    <2> QED
        BY <1>4, <2>2, <2>3, <2>4, <2>6
<1>8. \A i, k \in t .. n + 1 : i <= k => g[i] <= g[k]
    <2> SUFFICES ASSUME NEW i \in t .. n + 1, NEW k \in t .. n + 1, i <= k
                 PROVE  g[i] <= g[k]
        OBVIOUS
    <2>1. CASE k <= n
        <3>1. i \in t .. n /\ k \in t .. n
            BY <1>1, <2>1
        <3> QED
            BY <1>4, <1>7, <3>1
    <2>2. CASE k = n + 1 /\ i <= n
        <3>1. i \in t .. n /\ n \in t .. n /\ i <= n
            BY <1>1, <2>2
        <3>2. g[i] = f[i] /\ f[i] <= f[n] /\ f[i] \in Nat /\ f[n] = Used
            BY <1>4, <1>7, <3>1
        <3> QED
            <4>1. g[k] = Used + Size[p] + 1
                BY <1>5, <1>7, <2>2
            <4> QED
                BY <1>1, <1>6, <3>2, <4>1
    <2>3. CASE k = n + 1 /\ i = n + 1
        BY <1>1, <1>5, <1>6, <1>7, <2>3
    <2> QED
        BY <1>1, <2>1, <2>2, <2>3
<1>9. ASSUME NEW k \in t + 1 .. n + 1
      PROVE  /\ g[k] = g[k - 1] + Size[Append(a, p)[k]] + 1
             /\ \A j \in 0 .. Size[Append(a, p)[k]] :
                   buf'[At(tail, g[k - 1] + j)] = <<Append(a, p)[k], j>>
    <2>1. CASE k <= n
        <3>1. /\ k \in 1 .. n /\ k \in t .. n /\ k - 1 \in t .. n
              /\ Append(a, p)[k] = a[k] /\ a[k] \in Packets
            BY <1>1, <1>3, <2>1
        <3>2. /\ Size[a[k]] \in 1 .. N - 1 /\ f[k] <= Used
              /\ f[k - 1] \in Nat /\ f[k] \in Nat
            <4>1. n \in t .. n /\ k <= n
                BY <1>1, <2>1
            <4>2. Size[a[k]] \in 1 .. N - 1
                BY <3>1
            <4> QED
                BY <1>4, <3>1, <4>1, <4>2
        <3>3. f[k] = f[k - 1] + Size[a[k]] + 1
            BY <1>4, <2>1
        <3>4. ASSUME NEW j \in 0 .. Size[a[k]]
              PROVE  buf'[At(tail, f[k - 1] + j)] = <<a[k], j>>
            <4>1. f[k - 1] + j \in 0 .. Used - 1
                <5>1. Size[a[k]] \in Nat
                    BY <3>2
                <5> QED
                    BY <1>6, <3>2, <3>3, <5>1, Within
            <4>2. buf[At(tail, f[k - 1] + j)] = <<a[k], j>>
                <5>1. k \in t + 1 .. n
                    BY <1>1, <2>1
                <5> QED
                    BY <1>4, <5>1
            <4> QED
                BY <1>5, <4>1, <4>2
        <3> QED
            BY <1>7, <3>1, <3>3, <3>4
    <2>2. CASE k = n + 1
        <3>1. g[k - 1] = Used /\ Append(a, p)[k] = p /\ g[k] = Used + Size[p] + 1
            BY <1>1, <1>3, <1>4, <1>5, <1>7, <2>2
        <3> QED
            BY <1>5, <3>1
    <2>3. k <= n \/ k = n + 1
        BY <1>1
    <2> QED
        BY <2>1, <2>2, <2>3
<1>10. tail' = tail
    OBVIOUS
<1>11. Chain(g, t)'
    <2> DEFINE b == accepted'[starts']
    <2>1. b = Append(a, p) /\ Len(b) = n + 1
        BY <1>2, <1>3
    <2> HIDE DEF b
    <2>2. /\ g \in [t .. Len(b) -> Nat] /\ g[t] = 0 /\ g[Len(b)] = Used'
          /\ \A i, k \in t .. Len(b) : i <= k => g[i] <= g[k]
        BY <1>7, <1>8, <2>1
    <2>3. \A k \in t + 1 .. Len(b) :
             /\ g[k] = g[k - 1] + Size[b[k]] + 1
             /\ \A j \in 0 .. Size[b[k]] : buf'[At(tail', g[k - 1] + j)] = <<b[k], j>>
        BY <1>9, <1>10, <2>1
    <2> QED
        BY <2>2, <2>3 DEF Chain, ChainOf, b
<1> QED
    BY <1>11

\* The entry after the t-th, of size z, is consumed.
TakeEntry(t, z) == /\ z = Size[accepted[starts][t + 1]]
                   /\ tail' = (tail + z + 1) % N
                   /\ UNCHANGED <<buf, head, starts, accepted>>

LEMMA Shifted ==
    \A x, y, j \in Nat : x >= y => x + j >= y /\ (x - y) + j = (x + j) - y
OBVIOUS

LEMMA ReadShortens ==
    ASSUME Typing, starts # 0,
           NEW t \in 0 .. Len(accepted[starts]) - 1, NEW f, Chain(f, t),
           NEW z \in 1 .. N - 1, TakeEntry(t, z)
    PROVE  /\ \A j \in 0 .. z : buf[(tail + j) % N] = <<accepted[starts][t + 1], j>>
           /\ \E g : Chain(g, t + 1)'
<1> DEFINE a == accepted[starts]
           n == Len(a)
<1>1. a \in Seq(Packets) /\ n \in Nat /\ t \in 0 .. n - 1
    <2>1. starts \in Starts
        BY DEF Typing, Starts
    <2> QED
        BY <2>1 DEF Typing
<1>2. z \in 1 .. N - 1
    OBVIOUS
<1>3. a' = a
    BY DEF TakeEntry
<1>4. /\ f \in [t .. n -> Nat] /\ f[t] = 0 /\ f[n] = Used
      /\ \A i, k \in t .. n : i <= k => f[i] <= f[k]
      /\ \A k \in t + 1 .. n :
            /\ f[k] = f[k - 1] + Size[a[k]] + 1
            /\ \A j \in 0 .. Size[a[k]] : buf[At(tail, f[k - 1] + j)] = <<a[k], j>>
    BY DEF Chain, ChainOf
<1>5. tail \in 0 .. N - 1 /\ head \in 0 .. N - 1 /\ Used \in 0 .. N - 1
    BY UsedCells DEF Typing, Cells
<1>6. t + 1 \in t + 1 .. n /\ t + 1 - 1 = t /\ z = Size[a[t + 1]]
    BY <1>1 DEF TakeEntry
<1> HIDE DEF a, n
<1>7. f[t + 1] = z + 1 /\ z + 1 <= Used
    <2>1. f[t + 1] = f[t + 1 - 1] + Size[a[t + 1]] + 1
        BY <1>4, <1>6
    <2>2. f[t + 1] <= f[n]
        BY <1>1, <1>4
    <2> QED
        BY <1>2, <1>4, <1>6, <2>1, <2>2
<1>8. \A j \in 0 .. z : buf[(tail + j) % N] = <<a[t + 1], j>>
    <2> SUFFICES ASSUME NEW j \in 0 .. z
                 PROVE  buf[(tail + j) % N] = <<a[t + 1], j>>
        OBVIOUS
    <2>1. PICK k : k = t + 1
        OBVIOUS
    <2>2. k \in t + 1 .. n /\ k - 1 = t /\ z = Size[a[k]]
        BY <1>6, <2>1
    <2>3. buf[At(tail, f[k - 1] + j)] = <<a[k], j>>
        BY <1>4, <2>2
    <2>4. f[k - 1] + j = j /\ j \in 0 .. N - 1
        BY <1>2, <1>4, <2>2
    <2>5. (tail + j) % N = At(tail, j)
        BY <2>4, UsedCells
    <2> QED
        BY <2>1, <2>3, <2>4, <2>5
<1>9. /\ tail' = At(tail, z + 1) /\ tail' \in 0 .. N - 1 /\ Used' = Used - (z + 1)
      /\ \A o \in 0 .. Used - 1 : o >= z + 1 => At(tail', o - (z + 1)) = At(tail, o)
    <2>1. tail + z + 1 \in 0 .. 2 * N - 1
        BY <1>2, <1>5
    <2>2. tail' = At(tail, z + 1)
        <3>1. PICK x : x = tail + z + 1
            OBVIOUS
        <3>2. tail' = x % N
            BY <3>1 DEF TakeEntry
        <3>3. x % N = IF x < N THEN x ELSE x - N
            BY <2>1, <3>1, Wraps
        <3>4. x = tail + (z + 1)
            BY <1>2, <1>5, <3>1
        <3> QED
            BY <1>2, <1>5, <3>2, <3>3, <3>4 DEF At
    <2>3. tail' \in 0 .. N - 1
        BY <1>2, <1>5, <2>2 DEF At
    <2>4. Used' = Used - (z + 1)
        <3>1. head' = head
            BY DEF TakeEntry
        <3> QED
            BY <1>2, <1>5, <1>7, <2>2, <2>3, <3>1 DEF Used, At
    <2>5. ASSUME NEW o \in 0 .. Used - 1, o >= z + 1
          PROVE  At(tail', o - (z + 1)) = At(tail, o)
        BY <1>2, <1>5, <1>7, <2>2, <2>3, <2>5 DEF At
    <2> QED
        BY <2>2, <2>3, <2>4, <2>5
<1>10. PICK g : g = [k \in t + 1 .. n |-> f[k] - (z + 1)]
    OBVIOUS
<1>11. \A k \in t + 1 .. n :
           /\ k \in t .. n /\ f[k] \in Nat /\ f[k] >= z + 1 /\ f[k] <= Used
           /\ g[k] = f[k] - (z + 1) /\ g[k] \in Nat
    <2> SUFFICES ASSUME NEW k \in t + 1 .. n
                 PROVE  /\ k \in t .. n /\ f[k] \in Nat /\ f[k] >= z + 1 /\ f[k] <= Used
                        /\ g[k] = f[k] - (z + 1) /\ g[k] \in Nat
        OBVIOUS
    <2>1. /\ k \in t .. n /\ t + 1 \in t .. n /\ n \in t .. n
          /\ t + 1 <= k /\ k <= n
        BY <1>1
    <2>2. f[k] \in Nat /\ f[t + 1] <= f[k] /\ f[k] <= f[n]
        BY <1>4, <2>1
    <2> QED
        BY <1>2, <1>4, <1>7, <1>10, <2>1, <2>2
<1>12. /\ g \in [t + 1 .. n -> Nat] /\ g[t + 1] = 0 /\ g[n] = Used'
    <2>1. n \in t + 1 .. n
        BY <1>1
    <2>2. g[t + 1] = 0
        BY <1>2, <1>6, <1>7, <1>11
    <2>3. g[n] = Used'
        BY <1>4, <1>9, <1>11, <2>1
    <2> QED
        BY <1>10, <1>11, <2>2, <2>3
<1>13. \A i, k \in t + 1 .. n : i <= k => g[i] <= g[k]
    <2> SUFFICES ASSUME NEW i \in t + 1 .. n, NEW k \in t + 1 .. n, i <= k
                 PROVE  g[i] <= g[k]
        OBVIOUS
    <2>1. f[i] <= f[k]
        BY <1>4, <1>11
    <2> QED
        BY <1>2, <1>11, <2>1
<1>14. ASSUME NEW k \in t + 1 + 1 .. n
       PROVE  /\ g[k] = g[k - 1] + Size[a[k]] + 1
              /\ \A j \in 0 .. Size[a[k]] :
                    buf'[At(tail', g[k - 1] + j)] = <<a[k], j>>
    <2>1. k \in t + 1 .. n /\ k - 1 \in t + 1 .. n /\ a[k] \in Packets
        BY <1>1 DEF n
    <2>2. f[k] = f[k - 1] + Size[a[k]] + 1 /\ Size[a[k]] \in 1 .. N - 1
        BY <1>4, <2>1
    <2>3. g[k] = g[k - 1] + Size[a[k]] + 1
        BY <1>2, <1>11, <2>1, <2>2
    <2>4. ASSUME NEW j \in 0 .. Size[a[k]]
          PROVE  buf'[At(tail', g[k - 1] + j)] = <<a[k], j>>
        <3>1. f[k - 1] + j \in 0 .. Used - 1
            <4>1. Size[a[k]] \in Nat /\ Used \in Nat
                BY <1>5, <2>2
            <4>2. f[k - 1] \in Nat /\ f[k] \in Nat /\ f[k] <= Used
                BY <1>11, <2>1
            <4> QED
                BY <2>2, <4>1, <4>2, Within
        <3>2. f[k - 1] + j >= z + 1 /\ g[k - 1] + j = (f[k - 1] + j) - (z + 1)
            <4>1. j \in Nat
                BY <2>2
            <4>2. f[k - 1] \in Nat /\ f[k - 1] >= z + 1 /\ g[k - 1] = f[k - 1] - (z + 1)
                BY <1>11, <2>1
            <4>3. z + 1 \in Nat
                BY <1>2
            <4> QED
                BY <4>1, <4>2, <4>3, Shifted
        <3>3. At(tail', g[k - 1] + j) = At(tail, f[k - 1] + j)
            <4>1. PICK o \in 0 .. Used - 1 : o = f[k - 1] + j
                BY <3>1
            <4>2. o >= z + 1
                BY <3>2, <4>1
            <4>3. At(tail', o - (z + 1)) = At(tail, o)
                BY <1>9, <4>2
            <4>4. g[k - 1] + j = o - (z + 1)
                <5>1. /\ f[k - 1] \in Nat /\ g[k - 1] \in Nat
                      /\ g[k - 1] = f[k - 1] - (z + 1)
                    BY <1>11, <2>1
                <5>2. j \in Nat
                    BY <2>2
                <5> QED
                    BY <1>2, <4>1, <5>1, <5>2
            <4> QED
                BY <4>1, <4>3, <4>4
        <3>4. buf'[At(tail, f[k - 1] + j)] = buf[At(tail, f[k - 1] + j)]
            BY DEF TakeEntry
        <3> QED
            BY <1>4, <2>1, <3>3, <3>4
    <2> QED
        BY <2>3, <2>4
<1>15. Chain(g, t + 1)'
    <2> DEFINE b == accepted'[starts']
    <2>1. b = a
        BY <1>3 DEF a
    <2>2. /\ g \in [t + 1 .. Len(b) -> Nat] /\ g[t + 1] = 0 /\ g[Len(b)] = Used'
          /\ \A i, k \in t + 1 .. Len(b) : i <= k => g[i] <= g[k]
        BY <1>12, <1>13, <2>1 DEF n
    <2>3. \A k \in t + 1 + 1 .. Len(b) :
             /\ g[k] = g[k - 1] + Size[b[k]] + 1
             /\ \A j \in 0 .. Size[b[k]] : buf'[At(tail', g[k - 1] + j)] = <<b[k], j>>
        BY <1>14, <2>1 DEF n
    <2> QED
        BY <2>2, <2>3 DEF Chain, ChainOf
<1> QED
    BY <1>8, <1>15 DEF a
-------------------------------------------------------------------------------
(* The records *)

\* The number of packets of this capture that have been taken out of the ring.
Taken == IF wpc[starts] = "write" THEN Len(records[starts]) + 1
                                  ELSE Len(records[starts])

Recorded(rs, s) == \/ FirstOf(rs, accepted[s])
                   \/ s \in failed /\ CutShort(rs, accepted[s])

Prefixes == \A s \in Starts : Recorded(records[s], s) /\ Recorded(saved[s], s)

\* What the ring and the writer hold follows what is in the file.
InOrder ==
    /\ Taken \in 0 .. Len(accepted[starts])
    /\ \E f : Chain(f, Taken)
    /\ wpc[starts] = "read" =>
          /\ Taken < Len(accepted[starts])
          /\ wlen[starts] = Size[accepted[starts][Taken + 1]]
    /\ wpc[starts] = "write" => wbuf[starts] = Payload(accepted[starts][Taken])

Whole == Places /\ (overlap \/ (Prefixes /\ (starts # 0 => InOrder)))

LEMMA SubSeqTypes ==
    ASSUME NEW rs \in Seq(Seq(Contents)), NEW n \in 1 .. Len(rs)
    PROVE  SubSeq(rs, 1, n - 1) \in Seq(Seq(Contents))
<1>1. Len(rs) \in Nat
    OBVIOUS
<1> QED
    BY <1>1

\* Longer lists.
LEMMA MorePackets ==
    ASSUME NEW rs \in Seq(Seq(Contents)), NEW ps \in Seq(Packets), NEW p \in Packets
    PROVE  /\ FirstOf(rs, ps) => FirstOf(rs, Append(ps, p))
           /\ CutShort(rs, ps) => CutShort(rs, Append(ps, p))
<1>1. /\ Len(rs) \in Nat /\ Len(ps) \in Nat /\ Len(Append(ps, p)) = Len(ps) + 1
      /\ \A k \in 1 .. Len(ps) : Append(ps, p)[k] = ps[k]
      /\ DOMAIN rs = 1 .. Len(rs)
    OBVIOUS
<1>2. ASSUME FirstOf(rs, ps) PROVE FirstOf(rs, Append(ps, p))
    BY <1>1, <1>2 DEF FirstOf
<1>3. ASSUME CutShort(rs, ps) PROVE CutShort(rs, Append(ps, p))
    <2>1. Append(ps, p)[Len(rs)] = ps[Len(rs)]
        BY <1>1, <1>3 DEF CutShort
    <2>2. \A k \in 1 .. Len(rs) - 1 : Append(ps, p)[k] = ps[k]
        BY <1>1, <1>3 DEF CutShort
    <2> QED
        BY <1>1, <1>3, <2>1, <2>2 DEF CutShort
<1> QED
    BY <1>2, <1>3

LEMMA OneMore ==
    ASSUME NEW rs \in Seq(Seq(Contents)), NEW ps \in Seq(Packets), FirstOf(rs, ps),
           Len(rs) + 1 <= Len(ps), NEW r \in Seq(Contents)
    PROVE  /\ Len(Append(rs, r)) = Len(rs) + 1
           /\ r = Payload(ps[Len(rs) + 1]) => FirstOf(Append(rs, r), ps)
           /\ \A n \in 0 .. Size[ps[Len(rs) + 1]] - 1 :
                 r = SubSeq(Payload(ps[Len(rs) + 1]), 1, n) => CutShort(Append(rs, r), ps)
<1>1. /\ Len(rs) \in Nat /\ Len(ps) \in Nat /\ Len(Append(rs, r)) = Len(rs) + 1
      /\ \A k \in 1 .. Len(rs) : Append(rs, r)[k] = rs[k]
      /\ Append(rs, r)[Len(rs) + 1] = r
      /\ DOMAIN rs = 1 .. Len(rs) /\ DOMAIN Append(rs, r) = 1 .. Len(rs) + 1
    OBVIOUS
<1>2. \A k \in 1 .. Len(rs) : Append(rs, r)[k] = Payload(ps[k])
    BY <1>1 DEF FirstOf
<1>3. ASSUME r = Payload(ps[Len(rs) + 1]) PROVE FirstOf(Append(rs, r), ps)
    <2>1. ASSUME NEW k \in 1 .. Len(rs) + 1
          PROVE  Append(rs, r)[k] = Payload(ps[k])
        <3>1. CASE k \in 1 .. Len(rs)
            BY <1>2, <3>1
        <3>2. CASE k = Len(rs) + 1
            BY <1>1, <1>3, <3>2
        <3>3. k \in 1 .. Len(rs) \/ k = Len(rs) + 1
            <4>1. Len(rs) \in Nat
                OBVIOUS
            <4> QED
                BY <4>1
        <3> QED
            BY <3>1, <3>2, <3>3
    <2> QED
        BY <1>1, <2>1 DEF FirstOf
<1>4. ASSUME NEW n \in 0 .. Size[ps[Len(rs) + 1]] - 1,
             r = SubSeq(Payload(ps[Len(rs) + 1]), 1, n)
      PROVE  CutShort(Append(rs, r), ps)
    <2>1. Len(rs) + 1 \in 1 .. Len(ps) /\ Len(rs) + 1 - 1 = Len(rs)
        BY <1>1
    <2> QED
        BY <1>1, <1>2, <1>4, <2>1 DEF CutShort
<1> QED
    BY <1>1, <1>3, <1>4

\* A beginning of a beginning.
LEMMA CutOfCut ==
    ASSUME NEW p \in Packets, NEW n \in 0 .. Size[p] - 1
    PROVE  /\ Payload(p) \in Seq(Packets \X (0 .. N)) /\ Len(Payload(p)) = Size[p]
           /\ Len(SubSeq(Payload(p), 1, n)) = n
           /\ \A k \in 0 .. n - 1 : SubSeq(SubSeq(Payload(p), 1, n), 1, k)
                                        = SubSeq(Payload(p), 1, k)
<1>1. Size[p] \in 1 .. N - 1
    OBVIOUS
<1>2. Payload(p) \in Seq(Packets \X (0 .. N)) /\ Len(Payload(p)) = Size[p]
    <2>1. \A k \in 1 .. Size[p] : <<p, k>> \in Packets \X (0 .. N)
        BY <1>1
    <2> QED
        BY <1>1, <2>1 DEF Payload
<1>3. PICK P \in Seq(Packets \X (0 .. N)) : P = Payload(p)
    BY <1>2
<1>4. n \in 0 .. Len(P) - 1 /\ Len(P) \in Nat
    BY <1>1, <1>2, <1>3
<1>5. Len(SubSeq(P, 1, n)) = n
    BY <1>4
<1>6. ASSUME NEW k \in 0 .. n - 1
      PROVE  SubSeq(SubSeq(P, 1, n), 1, k) = SubSeq(P, 1, k)
    BY <1>4
<1> QED
    BY <1>2, <1>3, <1>5, <1>6

LEMMA CutRecords ==
    ASSUME NEW rs \in Seq(Seq(Contents)), NEW ps \in Seq(Packets),
           FirstOf(rs, ps) \/ CutShort(rs, ps),
           NEW n \in DOMAIN rs, NEW k \in 0 .. Len(rs[n]) - 1
    PROVE  CutShort(Append(SubSeq(rs, 1, n - 1), SubSeq(rs[n], 1, k)), ps)
<1>1. /\ Len(rs) \in Nat /\ Len(ps) \in Nat /\ DOMAIN rs = 1 .. Len(rs)
      /\ n \in 1 .. Len(rs) /\ rs[n] \in Seq(Contents)
    OBVIOUS
<1>2. n \in 1 .. Len(ps) /\ ps[n] \in Packets
    <2>1. Len(rs) <= Len(ps)
        BY <1>1 DEF FirstOf, CutShort
    <2> QED
        BY <1>1, <2>1
<1>3. ASSUME NEW i \in 1 .. n - 1 PROVE rs[i] = Payload(ps[i])
    <2>1. i \in DOMAIN rs /\ i \in 1 .. Len(rs) - 1
        BY <1>1
    <2>2. CASE FirstOf(rs, ps)
        BY <2>1, <2>2 DEF FirstOf
    <2>3. CASE CutShort(rs, ps)
        BY <2>1, <2>3 DEF CutShort
    <2> QED
        BY <2>2, <2>3
<1>4. /\ SubSeq(rs[n], 1, k) = SubSeq(Payload(ps[n]), 1, k)
      /\ k \in 0 .. Size[ps[n]] - 1
    <2>1. CASE rs[n] = Payload(ps[n])
        <3>1. Size[ps[n]] \in 1 .. N - 1
            BY <1>2
        <3>2. 0 \in 0 .. Size[ps[n]] - 1
            BY <3>1
        <3> QED
            BY <1>2, <2>1, <3>2, CutOfCut
    <2>2. ASSUME NEW m \in 0 .. Size[ps[n]] - 1, rs[n] = SubSeq(Payload(ps[n]), 1, m)
          PROVE  /\ SubSeq(rs[n], 1, k) = SubSeq(Payload(ps[n]), 1, k)
                 /\ k \in 0 .. Size[ps[n]] - 1
        <3>1. Len(rs[n]) = m /\ k \in 0 .. m - 1
            BY <1>2, <2>2, CutOfCut
        <3>2. SubSeq(rs[n], 1, k) = SubSeq(Payload(ps[n]), 1, k)
            BY <1>2, <2>2, <3>1, CutOfCut
        <3>3. Size[ps[n]] \in 1 .. N - 1
            BY <1>2
        <3>4. k \in 0 .. Size[ps[n]] - 1
            BY <3>1, <3>3
        <3> QED
            BY <3>2, <3>4
    <2>3. \/ rs[n] = Payload(ps[n])
          \/ \E m \in 0 .. Size[ps[n]] - 1 : rs[n] = SubSeq(Payload(ps[n]), 1, m)
        <3>1. CASE FirstOf(rs, ps)
            BY <1>1, <3>1 DEF FirstOf
        <3>2. CASE CutShort(rs, ps)
            <4>1. n = Len(rs) \/ n \in 1 .. Len(rs) - 1
                BY <1>1
            <4> QED
                BY <3>2, <4>1 DEF CutShort
        <3> QED
            BY <3>1, <3>2
    <2> QED
        BY <2>1, <2>2, <2>3
<1>5. PICK q \in Seq(Seq(Contents)) : q = SubSeq(rs, 1, n - 1)
    BY <1>1, SubSeqTypes
<1>6. Len(q) = n - 1 /\ \A i \in 1 .. n - 1 : q[i] = rs[i]
    BY <1>1, <1>5
<1>7. PICK c \in Seq(Contents) : c = SubSeq(rs[n], 1, k)
    <2>1. PICK r \in Seq(Contents) : r = rs[n]
        BY <1>1
    <2>2. k \in 0 .. Len(r) - 1
        BY <2>1
    <2>3. SubSeq(r, 1, k) \in Seq(Contents)
        BY <2>2, BeginningTypes
    <2> QED
        BY <2>1, <2>3
<1>8. FirstOf(q, ps) /\ Len(q) + 1 = n
    <2>1. DOMAIN q = 1 .. n - 1
        BY <1>1, <1>6
    <2>2. \A i \in 1 .. n - 1 : q[i] = Payload(ps[i])
        BY <1>3, <1>6
    <2>3. Len(q) <= Len(ps) /\ Len(q) + 1 = n
        BY <1>1, <1>2, <1>6
    <2> QED
        BY <2>1, <2>2, <2>3 DEF FirstOf
<1>9. CutShort(Append(q, c), ps)
    <2>1. Len(q) + 1 <= Len(ps)
        BY <1>1, <1>2, <1>8
    <2>2. k \in 0 .. Size[ps[Len(q) + 1]] - 1 /\ c = SubSeq(Payload(ps[Len(q) + 1]), 1, k)
        BY <1>4, <1>7, <1>8
    <2> QED
        BY <1>8, <2>1, <2>2, OneMore
<1> QED
    BY <1>5, <1>7, <1>9

LEMMA InitWhole == Init => Whole
<1> SUFFICES ASSUME Init PROVE Whole
    OBVIOUS
<1>1. Places
    BY InitPlaces
<1>2. Prefixes
    <2>1. \A s \in Starts :
              records[s] = <<>> /\ saved[s] = <<>> /\ accepted[s] = <<>>
        BY DEF Init
    <2> QED
        BY <2>1 DEF Prefixes, Recorded, FirstOf
<1>3. starts = 0
    BY DEF Init
<1> QED
    BY <1>1, <1>2, <1>3 DEF Whole

LEMMA PrefixesKept ==
    ASSUME UNCHANGED <<records, saved, accepted>>, failed \subseteq failed'
    PROVE  Prefixes => Prefixes'
BY DEF Prefixes, Recorded

\* A step that touches neither ring, records nor packets.
LEMMA OrderKept ==
    ASSUME UNCHANGED <<buf, head, tail, starts, records, accepted, wbuf>>,
           \/ wpc'[starts] = wpc[starts] /\ wlen'[starts] = wlen[starts]
           \/ wpc[starts] # "write" /\ wpc'[starts] \notin {"read", "write"}
    PROVE  InOrder => InOrder'
<1> SUFFICES ASSUME InOrder PROVE InOrder'
    OBVIOUS
<1>1. Taken' = Taken
    BY DEF Taken
<1>2. PICK t : t = Taken
    OBVIOUS
<1>3. PICK f : Chain(f, t)
    BY <1>2 DEF InOrder
<1>4. Chain(f, t)'
    BY <1>3, ChainKept
<1>5. Chain(f, Taken)'
    <2>1. Taken' = t
        BY <1>1, <1>2
    <2> QED
        BY <1>4, <2>1 DEF Chain
<1> QED
    BY <1>1, <1>5 DEF InOrder, Payload

LEMMA Keeps ==
    ASSUME Whole, Places',
           UNCHANGED <<ring, starts, records, saved, accepted, overlap>>,
           failed \subseteq failed', UNCHANGED wbuf,
           starts # 0 =>
              \/ wpc'[starts] = wpc[starts] /\ wlen'[starts] = wlen[starts]
              \/ wpc[starts] # "write" /\ wpc'[starts] \notin {"read", "write"}
    PROVE  Whole'
BY PrefixesKept, OrderKept DEF Whole, ring

\* fclose of the file.
LEMMA ClosePrefixes ==
    ASSUME Typing, CloseFile, UNCHANGED <<records, accepted>>
    PROVE  Prefixes => Prefixes'
<1> SUFFICES ASSUME Prefixes PROVE Prefixes'
    OBVIOUS
<1>1. CASE file = NoFile
    BY <1>1, PrefixesKept DEF CloseFile
<1>2. CASE file # NoFile
    <2>1. /\ file \in Starts /\ saved \in [Starts -> Seq(Seq(Contents))]
          /\ records[file] \in Seq(Seq(Contents)) /\ accepted[file] \in Seq(Packets)
        <3>1. file \in Starts
            BY <1>2, StartNumbers
        <3> QED
            BY <3>1 DEF Typing
    <2>2. /\ failed \subseteq failed'
          /\ \A s \in Starts : s # file => saved'[s] = saved[s]
        BY CloseTypes
    <2>3. Recorded(records[file], file) /\ (file \in failed => file \in failed')
        BY <2>1, <2>2 DEF Prefixes
    <2>4. \/ FirstOf(saved'[file], accepted[file])
          \/ file \in failed' /\ CutShort(saved'[file], accepted[file])
        <3>1. CASE saved' = [saved EXCEPT ![file] = records[file]] /\ UNCHANGED failed
            <4>1. saved'[file] = records[file]
                BY <2>1, <3>1
            <4> QED
                BY <2>3, <4>1 DEF Recorded
        <3>2. ASSUME NEW n \in DOMAIN records[file],
                     NEW k \in 0 .. Len(records[file][n]) - 1,
                     saved' = [saved EXCEPT ![file] =
                                 Append(SubSeq(records[file], 1, n - 1),
                                        SubSeq(records[file][n], 1, k))],
                     failed' = failed \cup {file}
              PROVE  file \in failed' /\ CutShort(saved'[file], accepted[file])
            <4>1. saved'[file] = Append(SubSeq(records[file], 1, n - 1),
                                        SubSeq(records[file][n], 1, k))
                BY <2>1, <3>2
            <4>2. FirstOf(records[file], accepted[file])
                  \/ CutShort(records[file], accepted[file])
                BY <2>3 DEF Recorded
            <4>3. CutShort(Append(SubSeq(records[file], 1, n - 1),
                                  SubSeq(records[file][n], 1, k)), accepted[file])
                BY <2>1, <3>2, <4>2, CutRecords
            <4> QED
                BY <3>2, <4>1, <4>3
        <3> QED
            BY <1>2, <3>1, <3>2 DEF CloseFile
    <2>5. ASSUME NEW s \in Starts
          PROVE  Recorded(records[s], s)' /\ Recorded(saved[s], s)'
        <3>1. Recorded(records[s], s) /\ Recorded(saved[s], s)
            BY DEF Prefixes
        <3>2. Recorded(records[s], s)'
            BY <2>2, <3>1 DEF Recorded
        <3>3. Recorded(saved[s], s)'
            <4>1. CASE s # file
                BY <2>2, <3>1, <4>1 DEF Recorded
            <4>2. CASE s = file
                BY <2>4, <4>2 DEF Recorded
            <4> QED
                BY <4>1, <4>2
        <3> QED
            BY <3>2, <3>3
    <2> QED
        BY <2>5 DEF Prefixes
<1> QED
    BY <1>1, <1>2

LEMMA CloseWhole ==
    ASSUME Whole, Places', StartFails \/ \E w \in Starts : Close(w)
    PROVE  Whole'
<1>1. /\ Typing /\ CloseFile
      /\ UNCHANGED <<ring, starts, records, accepted, overlap>> /\ UNCHANGED wbuf
    BY DEF Whole, Places, StartFails, Close, writer
<1>2. starts # 0 => \/ wpc'[starts] = wpc[starts] /\ wlen'[starts] = wlen[starts]
                    \/ wpc[starts] # "write" /\ wpc'[starts] \notin {"read", "write"}
    <2>1. CASE StartFails
        BY <2>1 DEF StartFails, writer
    <2>2. ASSUME NEW w \in Starts, Close(w), starts # 0
          PROVE  \/ wpc'[starts] = wpc[starts] /\ wlen'[starts] = wlen[starts]
                 \/ wpc[starts] # "write" /\ wpc'[starts] \notin {"read", "write"}
        <3>1. /\ starts \in Starts /\ wpc[w] = "close" /\ UNCHANGED wlen
              /\ wpc' = [wpc EXCEPT ![w] = "exit"] /\ wpc \in [Starts -> WriterAt]
            BY <1>1, <2>2, StartNumbers DEF Close, Typing
        <3> QED
            BY <3>1
    <2> QED
        BY <2>1, <2>2
<1>3. Prefixes => Prefixes'
    BY <1>1, ClosePrefixes
<1>4. starts # 0 /\ InOrder => InOrder'
    BY <1>1, <1>2, OrderKept DEF ring
<1> QED
    BY <1>1, <1>3, <1>4 DEF Whole

LEMMA PutWhole ==
    ASSUME Whole, Places', NEW p \in Packets, Put(p)
    PROVE  Whole'
<1>1. Typing /\ starts # 0 /\ starts \in Starts
    <2>1. Typing /\ passing # {}
        BY DEF Whole, Places, Put
    <2>2. starts \in 0 .. MaxStarts /\ starts # 0
        BY <2>1 DEF Typing
    <2> QED
        BY <2>1, <2>2 DEF Starts
<1>2. CASE UNCHANGED <<buf, head, accepted>>
    <2>1. UNCHANGED <<ring, starts, records, saved, failed, accepted, overlap>>
        BY <1>2 DEF Put, ring, disk
    <2>2. UNCHANGED wpc /\ UNCHANGED wlen /\ UNCHANGED wbuf
        BY DEF Put, writer
    <2> QED
        BY <2>1, <2>2, Keeps
<1>3. CASE Fill(p) /\ Room >= Size[p] + 1
    <2> DEFINE a == accepted[starts]
    <2>1. /\ a \in Seq(Packets)
          /\ accepted' = [accepted EXCEPT ![starts] = Append(a, p)]
          /\ accepted \in [Starts -> Seq(Packets)]
        BY <1>1, <1>3 DEF Typing, Fill
    <2>2. UNCHANGED <<tail, starts, wpc, wlen, wbuf, records, saved, failed, overlap>>
        BY DEF Put, writer, disk
    <2>3. /\ Len(Append(a, p)) = Len(a) + 1
          /\ \A k \in 1 .. Len(a) : Append(a, p)[k] = a[k]
          /\ accepted'[starts] = Append(a, p)
          /\ \A s \in Starts \ {starts} : accepted'[s] = accepted[s]
        BY <1>1, <2>1
    <2>4. ASSUME Prefixes PROVE Prefixes'
        <3> SUFFICES ASSUME NEW s \in Starts, NEW rs \in {records[s], saved[s]}
                     PROVE  \/ FirstOf(rs, accepted'[s])
                            \/ s \in failed /\ CutShort(rs, accepted'[s])
            BY <2>2 DEF Prefixes, Recorded
        <3>1. \/ FirstOf(rs, accepted[s])
              \/ s \in failed /\ CutShort(rs, accepted[s])
            BY <2>4 DEF Prefixes, Recorded
        <3>2. CASE s # starts
            BY <2>3, <3>1, <3>2
        <3>3. CASE s = starts
            <4>1. rs \in Seq(Seq(Contents))
                BY <1>1 DEF Typing
            <4> QED
                BY <2>1, <2>3, <3>1, <3>3, <4>1, MorePackets
        <3> QED
            BY <3>2, <3>3
    <2>5. ASSUME InOrder PROVE InOrder'
        <3>1. InOrder /\ Taken' = Taken
            BY <2>2, <2>5 DEF Taken
        <3>2. PICK t \in 0 .. Len(a) : t = Taken
            BY <3>1 DEF InOrder
        <3>3. PICK f : Chain(f, t)
            BY <3>1, <3>2 DEF InOrder
        <3>4. PICK g : Chain(g, t)'
            BY <1>1, <1>3, <2>2, <3>2, <3>3, FillExtends
        <3>5. Chain(g, Taken)'
            BY <3>1, <3>2, <3>4 DEF Chain
        <3>6. Len(a) \in Nat
            BY <2>1
        <3>7. wpc[starts] = "write" => t \in 1 .. Len(a)
            <4>1. Len(records[starts]) \in Nat
                BY <1>1 DEF Typing
            <4> QED
                BY <3>2, <3>6, <4>1 DEF Taken
        <3>8. wpc'[starts'] = "read" =>
                 /\ t < Len(Append(a, p)) /\ wlen'[starts'] = Size[Append(a, p)[t + 1]]
            BY <2>2, <2>3, <3>1, <3>2, <3>6 DEF InOrder
        <3>9. wpc'[starts'] = "write" => wbuf'[starts'] = Payload(Append(a, p)[t])
            BY <2>2, <2>3, <3>1, <3>2, <3>7 DEF InOrder
        <3>10. t \in 0 .. Len(Append(a, p))
            BY <2>3, <3>6
        <3> QED
            BY <2>2, <2>3, <3>1, <3>2, <3>5, <3>8, <3>9, <3>10 DEF InOrder, Payload
    <2> QED
        BY <1>1, <2>2, <2>4, <2>5 DEF Whole
<1> QED
    BY <1>1, <1>2, <1>3, UsedCells DEF Put, Typing

LEMMA PeekWhole ==
    ASSUME Whole, Places', NEW w \in Starts, Peek(w)
    PROVE  Whole'
<1>1. Typing /\ wpc[w] = "loop" /\ Used > 0
    BY DEF Whole, Places, Peek
<1>2. UNCHANGED <<ring, buf, tail, head, starts, records, saved, failed,
                accepted, overlap, wbuf>>
    BY DEF Peek, ring, ghosts, disk
<1>3. Prefixes => Prefixes'
    BY <1>2, PrefixesKept
<1>4. ASSUME ~overlap, InOrder PROVE InOrder'
    <2>1. w = starts /\ starts # 0
        BY <1>1, <1>4 DEF Whole, Places, Alone, AlonePlaces, Stopped, Starts
    <2>2. Taken = Len(records[starts]) /\ Taken' = Taken /\ wpc'[starts'] = "read"
        BY <1>1, <1>2, <2>1 DEF Taken, Peek, Typing
    <2>3. InOrder
        BY <1>4
    <2>4. PICK t \in 0 .. Len(accepted[starts]) : t = Taken
        BY <2>3 DEF InOrder
    <2>5. PICK f : Chain(f, t)
        BY <2>3, <2>4 DEF InOrder
    <2>6. Chain(f, Taken)'
        <3>1. Chain(f, t)'
            <4>1. UNCHANGED <<buf, head, tail, starts, accepted>>
                BY <1>2
            <4> QED
                BY <2>5, <4>1, ChainKept
        <3>2. Taken' = t
            BY <2>2, <2>4
        <3> QED
            BY <3>1, <3>2 DEF Chain, ChainOf
    <2>7. Len(accepted[starts]) \in Nat /\ tail \in 0 .. N - 1
        BY <1>1, <2>1 DEF Typing, Cells
    <2>8. t < Len(accepted[starts])
        <3>1. f[t] = 0 /\ f[Len(accepted[starts])] = Used
            BY <2>5 DEF Chain, ChainOf
        <3>2. t # Len(accepted[starts])
            BY <1>1, <3>1
        <3> QED
            BY <2>7, <3>2
    <2>9. buf[tail] = <<accepted[starts][t + 1], 0>>
        <3>1. PICK k : k = t + 1
            OBVIOUS
        <3>2. k \in t + 1 .. Len(accepted[starts]) /\ k - 1 = t
            BY <2>7, <2>8, <3>1
        <3>3. accepted[starts][k] \in Packets
            BY <1>1, <2>1, <2>7, <3>1, <3>2 DEF Typing
        <3>4. f[t] = 0 /\ \A j \in 0 .. Size[accepted[starts][k]] :
                              buf[At(tail, f[k - 1] + j)] = <<accepted[starts][k], j>>
            BY <2>5, <3>2 DEF Chain, ChainOf
        <3>5. 0 \in 0 .. Size[accepted[starts][k]]
            BY <3>3
        <3>6. buf[At(tail, f[k - 1] + 0)] = <<accepted[starts][k], 0>>
            BY <3>4, <3>5
        <3>7. At(tail, f[k - 1] + 0) = tail
            BY <2>7, <3>2, <3>4 DEF At
        <3> QED
            BY <3>1, <3>6, <3>7
    <2>10. wlen'[starts'] = Size[accepted[starts][t + 1]]
        <3>1. PICK n \in 0 .. N - 1 :
                 /\ LET c == buf[tail] IN c[2] = 0 => n = Size[c[1]]
                 /\ wlen' = [wlen EXCEPT ![w] = n]
            BY DEF Peek
        <3> QED
            BY <1>1, <1>2, <2>1, <2>9, <3>1 DEF Typing
    <2> QED
        BY <1>2, <2>2, <2>3, <2>4, <2>6, <2>8, <2>10 DEF InOrder
<1> QED
    BY <1>2, <1>3, <1>4 DEF Whole

LEMMA ReadWhole ==
    ASSUME Whole, Places', NEW w \in Starts, Read(w)
    PROVE  Whole'
<1>1. Typing /\ wpc[w] = "read" /\ wlen[w] \in 1 .. N - 1
    <2>1. Typing /\ wpc[w] = "read" /\ wlen[w] > 0
        BY DEF Whole, Places, Read
    <2>2. wlen[w] \in 0 .. N - 1
        BY <2>1 DEF Typing
    <2> QED
        BY <2>1, <2>2
<1>2. UNCHANGED <<buf, head, starts, records, saved, failed, accepted, overlap>>
    BY DEF Read, ghosts, disk
<1>3. Prefixes => Prefixes'
    BY <1>2, PrefixesKept
<1>4. ASSUME ~overlap, InOrder PROVE InOrder'
    <2>1. w = starts /\ starts # 0
        BY <1>1, <1>4 DEF Whole, Places, Alone, AlonePlaces, Stopped, Starts
    <2>2. InOrder /\ Taken = Len(records[starts])
        BY <1>1, <1>4, <2>1 DEF Taken
    <2>3. PICK t \in 0 .. Len(accepted[starts]) - 1 : t = Taken
        <3>1. Len(accepted[starts]) \in Nat
            BY <1>1, <2>1 DEF Typing
        <3> QED
            BY <1>1, <2>1, <2>2, <3>1 DEF InOrder
    <2>4. PICK f : Chain(f, t)
        BY <2>2, <2>3 DEF InOrder
    <2>5. PICK z \in 1 .. N - 1 : z = wlen[w]
        BY <1>1
    <2>6. z = Size[accepted[starts][t + 1]]
        BY <1>1, <2>1, <2>2, <2>3, <2>5 DEF InOrder
    <2>7. CASE UNCHANGED <<tail, wbuf>> /\ wpc' = [wpc EXCEPT ![w] = "loop"]
        <3>1. wpc'[starts'] = "loop"
            BY <1>1, <1>2, <2>1, <2>7 DEF Typing
        <3>2. Taken' = Taken
            BY <1>2, <2>2, <3>1 DEF Taken
        <3>3. Chain(f, Taken)'
            <4>1. Chain(f, t)'
                BY <1>2, <2>4, <2>7, ChainKept
            <4>2. Taken' = t
                BY <2>3, <3>2
            <4> QED
                BY <4>1, <4>2 DEF Chain
        <3> QED
            BY <1>2, <2>2, <3>1, <3>2, <3>3 DEF InOrder
    <2>8. CASE /\ wbuf' = [wbuf EXCEPT ![w] =
                            [k \in 1 .. wlen[w] |-> buf[(tail + k) % N]]]
               /\ tail' = (tail + wlen[w] + 1) % N
               /\ wpc' = [wpc EXCEPT ![w] = "write"]
        <3>1. wpc'[starts'] = "write"
            BY <1>1, <1>2, <2>1, <2>8 DEF Typing
        <3>2. Taken' = t + 1
            BY <1>2, <2>2, <2>3, <3>1 DEF Taken
        <3>3. TakeEntry(t, z)
            BY <1>2, <2>5, <2>6, <2>8 DEF TakeEntry
        <3>4. /\ \A j \in 0 .. z : buf[(tail + j) % N] = <<accepted[starts][t + 1], j>>
              /\ \E g : Chain(g, t + 1)'
            BY <1>1, <2>1, <2>3, <2>4, <3>3, ReadShortens
        <3>5. PICK g : Chain(g, t + 1)'
            BY <3>4
        <3>6. Chain(g, Taken)'
            BY <3>2, <3>5 DEF Chain
        <3>7. wbuf'[starts'] = [k \in 1 .. z |-> buf[(tail + k) % N]]
            BY <1>1, <1>2, <2>1, <2>5, <2>8 DEF Typing
        <3>8. [k \in 1 .. z |-> buf[(tail + k) % N]]
                  = [k \in 1 .. z |-> <<accepted[starts][t + 1], k>>]
            BY <2>5, <3>4
        <3>9. wbuf'[starts'] = Payload(accepted[starts][t + 1])
            BY <2>6, <3>7, <3>8 DEF Payload
        <3>10. t + 1 \in 0 .. Len(accepted[starts])
            BY <1>1, <2>1 DEF Typing
        <3> QED
            BY <1>2, <3>1, <3>2, <3>6, <3>9, <3>10 DEF InOrder, Payload
    <2> QED
        BY <2>7, <2>8 DEF Read
<1> QED
    BY <1>2, <1>3, <1>4 DEF Whole

\* A record that is taken into the file, whole or cut short.
LEMMA TakenWhole ==
    ASSUME Whole, Places', NEW w \in Starts, wpc[w] = "write", wpc'[starts] # "write",
           wpc'[starts] # "read",
           UNCHANGED <<buf, head, tail, starts, accepted, saved, overlap, wlen>>,
           failed \subseteq failed',
           ~overlap => \/ records' = [records EXCEPT ![starts] = Append(@, wbuf[w])]
                       \/ /\ starts \in failed'
                          /\ \E k \in 0 .. Len(wbuf[w]) - 1 :
                                records' = [records EXCEPT ![starts] =
                                              Append(@, SubSeq(wbuf[w], 1, k))]
    PROVE  Whole'
<1>1. Typing
    BY DEF Whole, Places
<1>2. ASSUME ~overlap PROVE Prefixes' /\ InOrder'
    <2>1. w = starts /\ starts # 0 /\ starts \in Starts
        BY <1>1, <1>2 DEF Whole, Places, Alone, AlonePlaces, Stopped, Starts
    <2>2. starts \notin failed
        BY <1>2, <2>1 DEF Whole, Places, Alone, AloneFiles
    <2>3. Prefixes /\ InOrder /\ Taken = Len(records[starts]) + 1
        BY <1>2, <2>1 DEF Whole, Taken
    <2> DEFINE a == accepted[starts]
               rs == records[starts]
               n == Len(rs) + 1
    <2>4. /\ rs \in Seq(Seq(Contents)) /\ a \in Seq(Packets) /\ Len(rs) \in Nat
          /\ wbuf[w] \in Seq(Contents) /\ records \in [Starts -> Seq(Seq(Contents))]
        BY <1>1, <2>1 DEF Typing
    <2>5. FirstOf(rs, a) /\ wbuf[w] = Payload(a[n]) /\ n <= Len(a)
        <3>1. Recorded(rs, starts)
            BY <2>1, <2>3 DEF Prefixes
        <3>2. n \in 0 .. Len(a) /\ wbuf[w] = Payload(a[n])
            BY <2>1, <2>3 DEF InOrder
        <3> QED
            BY <2>2, <3>1, <3>2 DEF Recorded
    <2>6. PICK r \in Seq(Contents) :
             /\ records' = [records EXCEPT ![starts] = Append(@, r)]
             /\ \/ r = Payload(a[n])
                \/ /\ starts \in failed'
                   /\ \E k \in 0 .. Size[a[n]] - 1 : r = SubSeq(Payload(a[n]), 1, k)
        <3>1. CASE records' = [records EXCEPT ![starts] = Append(@, wbuf[w])]
            BY <2>4, <2>5, <3>1
        <3>2. ASSUME starts \in failed', NEW k \in 0 .. Len(wbuf[w]) - 1,
                     records' = [records EXCEPT ![starts] =
                                   Append(@, SubSeq(wbuf[w], 1, k))]
              PROVE  \E r \in Seq(Contents) :
                        /\ records' = [records EXCEPT ![starts] = Append(@, r)]
                        /\ \E m \in 0 .. Size[a[n]] - 1 : r = SubSeq(Payload(a[n]), 1, m)
            <4>1. SubSeq(wbuf[w], 1, k) \in Seq(Contents)
                BY <2>4, BeginningTypes
            <4>2. Len(wbuf[w]) = Size[a[n]]
                <5>1. a[n] \in Packets
                    BY <2>4, <2>5
                <5>2. 0 \in 0 .. Size[a[n]] - 1
                    BY <5>1
                <5> QED
                    BY <2>5, <5>1, <5>2, CutOfCut
            <4> QED
                BY <2>5, <3>2, <4>1, <4>2
        <3> QED
            BY <1>2, <3>1, <3>2
    <2>7. /\ records'[starts] = Append(rs, r)
          /\ \A s \in Starts \ {starts} : records'[s] = records[s]
        BY <2>1, <2>4, <2>6
    <2>8. /\ Len(Append(rs, r)) = n
          /\ \/ FirstOf(Append(rs, r), a)
             \/ starts \in failed' /\ CutShort(Append(rs, r), a)
        <3>1. PICK ps \in Seq(Packets) : ps = a
            BY <2>4
        <3> QED
            BY <2>4, <2>5, <2>6, <3>1, OneMore
    <2>9. Prefixes'
        <3> SUFFICES ASSUME NEW s \in Starts
                     PROVE  Recorded(records[s], s)' /\ Recorded(saved[s], s)'
            BY DEF Prefixes
        <3>1. Recorded(records[s], s) /\ Recorded(saved[s], s)
            BY <2>3 DEF Prefixes
        <3>2. Recorded(saved[s], s)'
            BY <3>1 DEF Recorded
        <3>3. CASE s # starts
            BY <2>7, <3>1, <3>2, <3>3 DEF Recorded
        <3>4. CASE s = starts
            BY <2>7, <2>8, <3>2, <3>4 DEF Recorded
        <3> QED
            BY <3>3, <3>4
    <2>10. InOrder'
        <3>1. Taken' = n
            BY <2>7, <2>8 DEF Taken
        <3>2. PICK t \in 0 .. Len(a) : t = Taken
            BY <2>3 DEF InOrder
        <3>3. PICK f : Chain(f, t)
            BY <2>3, <3>2 DEF InOrder
        <3>4. Chain(f, t)'
            BY <3>3, ChainKept
        <3>5. Taken' = t
            BY <2>3, <3>1, <3>2
        <3>6. Chain(f, Taken)'
            BY <3>4, <3>5 DEF Chain
        <3> QED
            BY <3>2, <3>5, <3>6 DEF InOrder
    <2> QED
        BY <2>9, <2>10
<1> QED
    BY <1>2 DEF Whole

LEMMA WriteWhole ==
    ASSUME Whole, Places', NEW w \in Starts, Write(w) \/ WriteFails(w)
    PROVE  Whole'
<1>1. /\ Typing /\ wpc[w] = "write"
      /\ UNCHANGED <<buf, head, tail, starts, accepted, saved, overlap, wlen>>
      /\ failed \subseteq failed'
    BY DEF Whole, Places, Write, WriteFails, ShortWrite, ring
<1>2. CASE overlap
    BY <1>1, <1>2 DEF Whole
<1>3. CASE ~overlap
    <2>1. w = starts /\ starts # 0
        BY <1>1, <1>3 DEF Whole, Places, Alone, AlonePlaces, Stopped, Starts
    <2>2. file = starts /\ file # NoFile
        BY <1>1, <1>3, <2>1 DEF Whole, Places, Alone, AlonePlaces, NoFile
    <2>3. wpc'[starts] \in {"loop", "close"}
        BY <1>1, <2>1 DEF Write, WriteFails, Typing
    <2>4. \/ records' = [records EXCEPT ![starts] = Append(@, wbuf[w])]
          \/ /\ starts \in failed'
             /\ \E k \in 0 .. Len(wbuf[w]) - 1 :
                   records' = [records EXCEPT ![starts] =
                                 Append(@, SubSeq(wbuf[w], 1, k))]
        BY <2>2 DEF Write, WriteFails, ShortWrite
    <2> QED
        BY <1>1, <2>3, <2>4, TakenWhole
<1> QED
    BY <1>2, <1>3

LEMMA ResyncWhole ==
    ASSUME Whole, Places', NEW w \in Starts, Resync(w)
    PROVE  Whole'
<1>1. Typing /\ wpc[w] = "read" /\ wlen[w] = 0 /\ overlap' = overlap
    BY DEF Whole, Places, Resync, ghosts, disk
<1>2. CASE overlap
    BY <1>1, <1>2 DEF Whole
<1>3. CASE ~overlap
    <2>1. w = starts /\ starts # 0 /\ InOrder
        BY <1>1, <1>3 DEF Whole, Places, Alone, AlonePlaces, Stopped, Starts
    <2>2. /\ Taken = Len(records[starts]) /\ Taken < Len(accepted[starts])
          /\ Size[accepted[starts][Taken + 1]] = 0
        BY <1>1, <2>1 DEF InOrder, Taken
    <2>3. /\ starts \in Starts /\ Len(records[starts]) \in Nat
          /\ accepted[starts] \in Seq(Packets)
        BY <1>1, <2>1 DEF Typing
    <2>4. Taken + 1 \in 1 .. Len(accepted[starts])
        BY <2>2, <2>3
    <2>5. accepted[starts][Taken + 1] \in Packets
        BY <2>3, <2>4
    <2> QED
        BY <2>2, <2>5
<1> QED
    BY <1>2, <1>3

LEMMA StartWhole ==
    ASSUME Whole, Places', StartReset
    PROVE  Whole'
<1>1. Typing /\ starts' = starts + 1 /\ starts' \in Starts
    <2>1. Typing /\ starts' = starts + 1 /\ starts < MaxStarts
        BY DEF Whole, Places, StartReset
    <2>2. starts \in 0 .. MaxStarts
        BY <2>1 DEF Typing
    <2> QED
        BY <2>1, <2>2 DEF Starts
<1>2. /\ wpc[starts'] = "none" /\ records[starts'] = <<>> /\ accepted[starts'] = <<>>
      /\ UNCHANGED <<wpc, records, saved, failed, accepted>> /\ head' = 0 /\ tail' = 0
      /\ (overlap => overlap')
    BY <1>1 DEF Typing, StartReset, writer, disk
<1>3. Prefixes => Prefixes'
    BY <1>2, PrefixesKept
<1>4. InOrder'
    <2>1. Taken' = 0 /\ wpc'[starts'] = "none" /\ accepted'[starts'] = <<>>
        BY <1>2 DEF Taken
    <2>2. PICK f : f = [k \in 0 .. 0 |-> 0]
        OBVIOUS
    <2>3. Used' = 0
        BY <1>2 DEF Used
    <2>4. Chain(f, Taken)'
        BY <2>1, <2>2, <2>3 DEF Chain
    <2> QED
        BY <2>1, <2>4 DEF InOrder
<1> QED
    BY <1>2, <1>3, <1>4 DEF Whole

LEMMA DeleteWhole ==
    ASSUME Whole, Places', Delete
    PROVE  Whole'
<1>1. /\ UNCHANGED <<buf, head, tail, starts, wpc, wlen, wbuf, records, saved, failed,
                     accepted>>
      /\ (overlap => overlap')
    BY DEF Delete, flags, ring, writer, disk
<1>2. Prefixes => Prefixes'
    BY <1>1, PrefixesKept
<1>3. InOrder => InOrder'
    BY <1>1, OrderKept
<1> QED
    BY <1>1, <1>2, <1>3 DEF Whole

LEMMA NextWhole == Whole /\ [Next]_vars => Whole'
<1> SUFFICES ASSUME Whole, [Next]_vars PROVE Whole'
    OBVIOUS
<1>1. Places' /\ Typing
    BY NextPlaces DEF Whole, Places
<1>2. ASSUME NEW p \in Packets, Submit(p) PROVE Whole'
    BY <1>1, <1>2, Keeps DEF Submit, ring, writer, ghosts, disk
<1>3. ASSUME NEW p \in Packets, Put(p) PROVE Whole'
    BY <1>1, <1>3, PutWhole
<1>4. ASSUME NEW w \in Starts, Quit(w) \/ Exit(w) PROVE Whole'
    <2>1. /\ UNCHANGED <<ring, starts, records, saved, failed, accepted, overlap>>
          /\ UNCHANGED wbuf /\ UNCHANGED wlen
          /\ wpc[w] \in {"loop", "exit"}
          /\ \E at \in {"close", "gone"} : wpc' = [wpc EXCEPT ![w] = at]
        BY <1>4 DEF Quit, Exit, ghosts, disk
    <2>2. starts # 0 => starts \in Starts
        BY <1>1, StartNumbers
    <2>3. starts # 0 => \/ wpc'[starts] = wpc[starts]
                        \/ /\ wpc[starts] # "write"
                           /\ wpc'[starts] \notin {"read", "write"}
        BY <1>1, <2>1, <2>2 DEF Typing
    <2> QED
        BY <1>1, <2>1, <2>3, Keeps
<1>5. ASSUME NEW w \in Starts, Writer(w) PROVE Whole'
    BY <1>1, <1>4, <1>5, PeekWhole, ReadWhole, WriteWhole, ResyncWhole, CloseWhole
    DEF Writer
<1>6. CASE StartOpen \/ StartFlags \/ StopBegin \/ StopEnd
    BY <1>1, <1>6, Keeps
    DEF StartOpen, StartFlags, StopBegin, StopEnd, writer, ghosts, disk
<1>7. CASE StartWriter
    <2>1. starts \in Starts /\ wpc[starts] = "none" /\ wpc'[starts] = "loop"
        <3>1. starts \in Starts /\ wpc[starts] = "none"
            BY <1>1, <1>7, StartNumbers DEF StartWriter
        <3> QED
            BY <1>1, <1>7, <3>1 DEF StartWriter, Typing
    <2> QED
        BY <1>1, <1>7, <2>1, Keeps DEF StartWriter, ghosts, disk
<1>8. CASE UNCHANGED vars
    BY <1>1, <1>8, Keeps DEF vars, ring, writer, ghosts, disk
<1>9. ASSUME NEW w \in Starts, Poll(w) PROVE UNCHANGED vars
    BY <1>9 DEF Poll
<1>10. Terminated => UNCHANGED vars
    BY DEF Terminated
<1>11. Server => Whole'
    BY <1>1, <1>6, <1>7, StartWhole, CloseWhole, DeleteWhole DEF Server
<1> QED
    BY <1>2, <1>3, <1>5, <1>8, <1>9, <1>10, <1>11 DEF Next, Producer

\* What the writer wrote in a capture, and what the closed file holds of it, are the
\* records of that capture's packets in order and without a gap; at most the last is
\* cut short, after an I/O error.  This as long as the writers of two captures have
\* not met.
THEOREM FilesAreWhole == Spec => []WholeRecords
<1>1. Whole => WholeRecords
    BY DEF Whole, Prefixes, Recorded, WholeRecords
<1> QED
    BY <1>1, InitWhole, NextWhole, PTL DEF Spec

\* When capture_stop has seen the writer exit and there was no I/O error, what is
\* missing in the file is still in the ring: none was lost in the writer's hands.
THEOREM HandsAreEmpty == Spec => []NoneLostInHand
<1>1. ASSUME Whole PROVE NoneLostInHand
    <2> SUFFICES ASSUME cpc = "stopping", task = NoTask, starts \notin failed, Used = 0,
                        ~overlap
                 PROVE  Len(saved[starts]) = Len(accepted[starts])
        BY DEF NoneLostInHand
    <2>1. Typing /\ starts # 0 /\ starts \in Starts
        <3>1. Typing
            BY <1>1 DEF Whole, Places
        <3>2. starts # 0
            BY <3>1 DEF Typing
        <3> QED
            BY <3>1, <3>2, StartNumbers
    <2>2. InOrder /\ Alone
        BY <1>1, <2>1 DEF Whole, Places
    <2>3. wpc[starts] \notin {"loop", "read", "write", "close"}
        BY <2>1, <2>2 DEF Alone, AlonePlaces, NoTask
    <2>4. saved[starts] = records[starts]
        BY <2>1, <2>2, <2>3 DEF Alone, AloneFiles, Typing
    <2>5. accepted[starts] \in Seq(Packets) /\ Len(accepted[starts]) \in Nat
        BY <2>1 DEF Typing
    <2>6. PICK t \in 0 .. Len(accepted[starts]) : t = Taken
        BY <2>2 DEF InOrder
    <2>7. PICK f : Chain(f, t)
        BY <2>2, <2>6 DEF InOrder
    <2>8. t = Len(accepted[starts])
        <3> SUFFICES ASSUME t < Len(accepted[starts]) PROVE FALSE
            BY <2>5
        <3>1. PICK k : k = t + 1
            OBVIOUS
        <3>2. /\ k \in t + 1 .. Len(accepted[starts]) /\ k - 1 = t
              /\ k \in t .. Len(accepted[starts])
              /\ Len(accepted[starts]) \in t .. Len(accepted[starts])
              /\ k <= Len(accepted[starts])
            BY <2>5, <3>1
        <3>3. f[k] = f[t] + Size[accepted[starts][k]] + 1 /\ f[k] <= 0 /\ f[t] = 0
            BY <2>7, <3>2 DEF Chain, ChainOf
        <3>4. accepted[starts][k] \in Packets
            BY <2>5, <3>1, <3>2
        <3>5. Size[accepted[starts][k]] \in 1 .. N - 1
            BY <3>4
        <3> QED
            BY <3>3, <3>5
    <2> QED
        BY <2>3, <2>4, <2>6, <2>8 DEF Taken
<1> QED
    BY <1>1, InitWhole, NextWhole, PTL DEF Spec
-------------------------------------------------------------------------------
(* Type correctness *)

Rest ==
    /\ present \in BOOLEAN /\ task \in 0 .. MaxStarts
    /\ passing \subseteq Packets \ fresh
    /\ \A w \in Starts : Len(wbuf[w]) < N

LEMMA NextRest == Typing /\ Rest /\ [Next]_vars => Rest'
<1> SUFFICES ASSUME Typing, Rest, [Next]_vars PROVE Rest'
    OBVIOUS
<1>1. ASSUME NEW p \in Packets, Submit(p) \/ Put(p) PROVE Rest'
    <2>1. UNCHANGED <<present, task, wbuf>>
        BY <1>1 DEF Submit, Put, flags, handle, writer
    <2>2. passing' \subseteq Packets \ fresh'
        BY <1>1 DEF Submit, Put, Rest
    <2> QED
        BY <2>1, <2>2 DEF Rest
<1>2. ASSUME NEW w \in Starts, Read(w) PROVE Rest'
    <2>1. UNCHANGED <<present, task, passing, fresh>>
        BY <1>2 DEF Read, flags, handle, source
    <2>2. wlen[w] \in 1 .. N - 1 /\ wbuf \in [Starts -> Seq(Contents)]
        BY <1>2 DEF Read, Typing
    <2>3. \A v \in Starts : Len(wbuf'[v]) < N
        <3>1. CASE UNCHANGED wbuf
            BY <3>1 DEF Rest
        <3>2. CASE wbuf' = [wbuf EXCEPT ![w] =
                              [k \in 1 .. wlen[w] |-> buf[(tail + k) % N]]]
            <4>1. Len([k \in 1 .. wlen[w] |-> buf[(tail + k) % N]]) = wlen[w]
                BY <2>2
            <4> QED
                BY <2>2, <3>2, <4>1 DEF Rest
        <3> QED
            BY <1>2, <3>1, <3>2 DEF Read
    <2> QED
        BY <2>1, <2>3 DEF Rest
<1>3. ASSUME NEW w \in Starts,
             \/ Peek(w) \/ Resync(w) \/ Write(w) \/ WriteFails(w)
             \/ Quit(w) \/ Close(w) \/ Exit(w)
      PROVE  Rest'
    <2>1. /\ UNCHANGED <<passing, fresh>>
          /\ UNCHANGED wbuf \/ wbuf' = [wbuf EXCEPT ![w] = <<>>]
        BY <1>3 DEF Peek, Resync, Write, WriteFails, Quit, Close, Exit, writer, source
    <2>2. task' \in {task, NoTask}
        BY <1>3 DEF Peek, Resync, Write, WriteFails, Quit, Close, Exit, handle
    <2>3. present' \in BOOLEAN
        BY <1>3 DEF Rest, Peek, Resync, Write, WriteFails, Quit, Close, Exit, flags
    <2>4. \A v \in Starts : Len(wbuf'[v]) < N
        <3>1. Len(<<>>) < N /\ wbuf \in [Starts -> Seq(Contents)]
            BY CaptureAssumption DEF Typing
        <3> QED
            BY <2>1, <3>1 DEF Rest
    <2> QED
        BY <2>1, <2>2, <2>3, <2>4 DEF Rest, NoTask
<1>4. CASE Server
    <2>1. UNCHANGED <<wbuf, passing, fresh>>
        BY <1>4 DEF Server, StartReset, StartOpen, StartFlags, StartFails, StartWriter,
                    StopBegin, StopEnd, Delete, writer, source
    <2>2. task' \in {task, starts}
        BY <1>4 DEF Server, StartReset, StartOpen, StartFlags, StartFails, StartWriter,
                    StopBegin, StopEnd, Delete, handle
    <2>3. present' \in BOOLEAN
        BY <1>4 DEF Rest, Server, StartReset, StartOpen, StartFlags, StartFails, StartWriter,
                    StopBegin, StopEnd, Delete, flags
    <2> QED
        BY <2>1, <2>2, <2>3 DEF Rest, Typing
<1>5. ASSUME UNCHANGED vars PROVE Rest'
    BY <1>5 DEF Rest, vars, flags, handle, writer, source
<1>6. ASSUME NEW w \in Starts, Poll(w) PROVE UNCHANGED vars
    BY <1>6 DEF Poll
<1>7. Terminated => UNCHANGED vars
    BY DEF Terminated
<1> QED
    BY <1>1, <1>2, <1>3, <1>4, <1>5, <1>6, <1>7 DEF Next, Producer, Writer

\* Types, if there is a packet at all; a record in hand is shorter than the ring.
THEOREM Typed == ASSUME Packets # {} PROVE Spec => []TypeOK
<1>1. Init => Rest
    BY DEF Init, Rest, NoTask
<1>2. Places => Typing
    BY DEF Places
<1>3. Spec => []Rest
    BY <1>1, <1>2, NextRest, PlacesHold, PTL DEF Spec
<1>4. Contents = Cell
    <2>1. PICK p \in Packets : TRUE
        OBVIOUS
    <2>2. <<p, 0>> \in Cell
        BY DEF Cell
    <2> QED
        BY <2>2 DEF Contents
<1>5. Typing /\ Rest => TypeOK
    <2> SUFFICES ASSUME Typing, Rest PROVE TypeOK
        OBVIOUS
    <2>1. file \in Starts \cup {NoFile} /\ named \in Starts \cup {NoFile}
        BY DEF Typing, Starts, NoFile
    <2>2. task \in Starts \cup {NoTask}
        BY DEF Rest, Starts, NoTask
    <2>3. \A w \in Starts : wbuf[w] \in Seq(Cell) /\ Len(wbuf[w]) < N
        BY <1>4 DEF Typing, Rest
    <2>4. /\ buf \in [Cells -> Cell] /\ records \in [Starts -> Seq(Seq(Cell))]
          /\ saved \in [Starts -> Seq(Seq(Cell))]
        BY <1>4 DEF Typing
    <2> QED
        BY <2>1, <2>2, <2>3, <2>4 DEF Typing, Rest, TypeOK
<1> QED
    BY <1>2, <1>3, <1>5, PlacesHold, PTL
===============================================================================
