-------------------------------- MODULE Capture --------------------------------
(***************************************************************************)
(* The packet capture: transfer engines put packets into a ring buffer, a   *)
(* writer task takes them out and writes them to the pcap file, and the     *)
(* HTTP server's task starts and stops captures and deletes files.          *)
(*                                                                          *)
(* The ring is counted in cells: an entry is a cell with its length and     *)
(* then the cells of its record.  A step is a critical section of the ring, *)
(* an operation on the file, or a store that another task reads.  Records   *)
(* are whole: CONFIG_CAPTURE_SNAPLEN is small enough for the writer's 512-  *)
(* byte buffer.  Time stamps, sizes in bytes, the header of a file and the   *)
(* 10000 file names are left out; a number stands for the file of each start. *)
(*                                                                          *)
(* fwrite puts a record into stdio's stream; what the file holds is settled  *)
(* when the stream is closed, and with an I/O error on the way it may be any *)
(* beginning of what the stream took.                                        *)
(*                                                                          *)
(* A definition X_Fault is X with one plausible mistake; the properties     *)
(* are validated by checking that they reject it.                           *)
(***************************************************************************)
EXTENDS Naturals, Sequences

CONSTANTS Packets,    \* packets that may be submitted, each once
          Size,       \* the number of cells of each packet's record
          N,          \* the number of cells of the ring
          MaxStarts   \* bound on calls of capture_start

ASSUME CaptureAssumption == /\ N \in Nat \ {0}
                            /\ Size \in [Packets -> 1 .. N - 1]
                            /\ MaxStarts \in Nat

VARIABLES
  capturing,  \* s_capturing
  running,    \* s_writer_running
  present,    \* s_card_present
  file,       \* s_pcap_file: the file that is open, or NoFile
  named,      \* s_filepath: the last file, or NoFile
  task,       \* s_writer_task: the writer of the start with that number
  count,      \* s_packet_count
  buf, head, tail,    \* s_ring
  starts,     \* the number of captures begun
  cpc,        \* where the HTTP task is
  wpc,        \* where the writer task of each start is
  wlen,       \* its entry_len
  wbuf,       \* the record in its entry_buf
  fresh,      \* packets not yet submitted
  passing,    \* packets in capture_submit_packet, past its first check
  accepted,   \* per start, the packets that got into the ring, oldest first
  records,    \* per start, what the stream of its file took: records, of which one may
              \* be cut short
  saved,      \* per start, what its file holds once it is closed
  opened,     \* the files that are open
  failed,     \* the files that met an I/O error
  overlap     \* a capture was started, or a file deleted, while the writer of an
              \* earlier capture was still there

flags  == <<capturing, running, present>>
handle == <<file, named, task>>
ring   == <<buf, head, tail>>
writer == <<wpc, wlen, wbuf>>
source == <<fresh, passing>>
disk   == <<records, saved, opened, failed>>
ghosts == <<accepted, disk, overlap>>
vars   == <<flags, handle, count, ring, starts, cpc, writer, source, ghosts>>

Starts == 1 .. MaxStarts
NoFile == 0
NoTask == 0
Cells  == 0 .. N - 1
Cell   == Packets \X (0 .. N)

Payload(p) == [k \in 1 .. Size[p] |-> <<p, k>>]

\* ring_used and ring_free
Used == IF head >= tail THEN head - tail ELSE N - tail + head
Room == N - Used - 1

Init == /\ capturing = FALSE /\ running = FALSE /\ present \in BOOLEAN
        /\ file = NoFile /\ named = NoFile /\ task = NoTask /\ count = 0
        /\ buf \in [Cells -> {CHOOSE c \in Cell : TRUE}]
        /\ head = 0 /\ tail = 0 /\ starts = 0
        /\ cpc = "idle"
        /\ wpc = [w \in Starts |-> "none"]
        /\ wlen = [w \in Starts |-> 0]
        /\ wbuf = [w \in Starts |-> <<>>]
        /\ fresh = Packets /\ passing = {}
        /\ accepted = [s \in Starts |-> <<>>]
        /\ records = [s \in Starts |-> <<>>]
        /\ saved = [s \in Starts |-> <<>>]
        /\ opened = {} /\ failed = {}
        /\ overlap = FALSE

Stopped(w) == wpc[w] \in {"none", "gone"}
AllGone == \A w \in Starts : Stopped(w)
-------------------------------------------------------------------------------
(* capture_submit_packet, in the task of a transfer engine *)

Submit(p) == /\ p \in fresh /\ capturing
             /\ fresh' = fresh \ {p}
             /\ passing' = passing \cup {p}
             /\ UNCHANGED <<flags, handle, count, ring, starts, cpc, writer,
                            ghosts>>

\* Fault: the head does not wrap.
Fill_NoWrap(p) ==
    /\ buf' = [i \in Cells |-> LET k == (i + N - head) % N
                               IN IF k <= Size[p] THEN <<p, k>> ELSE buf[i]]
    /\ head' = head + Size[p] + 1
    /\ accepted' = [accepted EXCEPT ![starts] = Append(@, p)]

\* ring_write of the length and the record, from head on
Fill(p) == /\ buf' = [i \in Cells |-> LET k == (i + N - head) % N
                                      IN IF k <= Size[p] THEN <<p, k>> ELSE buf[i]]
           /\ head' = (head + Size[p] + 1) % N
           /\ accepted' = [accepted EXCEPT ![starts] = Append(@, p)]

\* Fault: no cell is kept free, and a full ring looks empty.
Put_FillsRing(p) == /\ p \in passing
                    /\ passing' = passing \ {p}
                    /\ \/ Room + 1 < Size[p] + 1 /\ UNCHANGED <<buf, head, accepted>>
                       \/ Room + 1 >= Size[p] + 1 /\ Fill(p)
                    /\ UNCHANGED <<flags, handle, count, tail, starts, cpc,
                                   writer, fresh, disk, overlap>>

\* The entry goes in whole, or the packet is dropped.
Put(p) == /\ p \in passing
          /\ passing' = passing \ {p}
          /\ \/ Room < Size[p] + 1 /\ UNCHANGED <<buf, head, accepted>>
             \/ Room >= Size[p] + 1 /\ Fill(p)
          /\ UNCHANGED <<flags, handle, count, tail, starts, cpc, writer, fresh,
                         disk, overlap>>
-------------------------------------------------------------------------------
(* capture_writer_task *)

\* The ring is empty: the writer sleeps.
Poll(w) == /\ wpc[w] = "loop" /\ running /\ Used = 0
           /\ UNCHANGED vars

\* The loop's test, and the length of the next entry is read without consuming it.
\* What is not the length cell of an entry reads as any number.
Peek(w) == /\ wpc[w] = "loop" /\ running /\ Used > 0
           /\ \E n \in 0 .. N - 1 :
                 /\ LET c == buf[tail] IN c[2] = 0 => n = Size[c[1]]
                 /\ wlen' = [wlen EXCEPT ![w] = n]
           /\ wpc' = [wpc EXCEPT ![w] = "read"]
           /\ UNCHANGED <<flags, handle, count, ring, starts, cpc, wbuf, source,
                          ghosts>>

\* An invalid length empties the ring.
Resync(w) == /\ wpc[w] = "read" /\ wlen[w] = 0
             /\ head' = 0 /\ tail' = 0
             /\ wpc' = [wpc EXCEPT ![w] = "loop"]
             /\ UNCHANGED <<flags, handle, count, buf, starts, cpc, wlen, wbuf,
                            source, ghosts>>

\* Fault: the last entry is taken for an incomplete one.
Read_OffByOne(w) ==
    /\ wpc[w] = "read" /\ wlen[w] > 0
    /\ \/ /\ Used <= wlen[w] + 1
          /\ wpc' = [wpc EXCEPT ![w] = "loop"]
          /\ UNCHANGED <<tail, wbuf>>
       \/ /\ Used > wlen[w] + 1
          /\ wbuf' = [wbuf EXCEPT ![w] =
                        [k \in 1 .. wlen[w] |-> buf[(tail + k) % N]]]
          /\ tail' = (tail + wlen[w] + 1) % N
          /\ wpc' = [wpc EXCEPT ![w] = "write"]
    /\ UNCHANGED <<flags, handle, count, buf, head, starts, cpc, wlen, source,
                   ghosts>>

\* The entry is consumed once all of it is there.
Read(w) ==
    /\ wpc[w] = "read" /\ wlen[w] > 0
    /\ \/ /\ Used < wlen[w] + 1
          /\ wpc' = [wpc EXCEPT ![w] = "loop"]
          /\ UNCHANGED <<tail, wbuf>>
       \/ /\ Used >= wlen[w] + 1
          /\ wbuf' = [wbuf EXCEPT ![w] =
                        [k \in 1 .. wlen[w] |-> buf[(tail + k) % N]]]
          /\ tail' = (tail + wlen[w] + 1) % N
          /\ wpc' = [wpc EXCEPT ![w] = "write"]
    /\ UNCHANGED <<flags, handle, count, buf, head, starts, cpc, wlen, source,
                   ghosts>>

\* fwrite to whatever file is open now; without one the entry is lost.
Write(w) ==
    /\ wpc[w] = "write"
    /\ \/ /\ file # NoFile
          /\ records' = [records EXCEPT ![file] = Append(@, wbuf[w])]
          /\ count' = count + 1
       \/ /\ file = NoFile
          /\ UNCHANGED <<records, count>>
    /\ wbuf' = [wbuf EXCEPT ![w] = <<>>]
    /\ wpc' = [wpc EXCEPT ![w] = "loop"]
    /\ UNCHANGED <<flags, handle, ring, starts, cpc, wlen, source, accepted,
                   saved, opened, failed, overlap>>

\* fwrite comes back short: the stream took the first cells of the record only.
ShortWrite(w) ==
    /\ \E k \in 0 .. Len(wbuf[w]) - 1 :
          records' = [records EXCEPT ![file] = Append(@, SubSeq(wbuf[w], 1, k))]
    /\ failed' = failed \cup {file}

\* Fault: the record is given up, and the capture goes on.
WriteFails_GoesOn(w) ==
    /\ wpc[w] = "write" /\ file # NoFile
    /\ ShortWrite(w)
    /\ wpc' = [wpc EXCEPT ![w] = "loop"]
    /\ UNCHANGED <<flags, handle, count, ring, starts, cpc, wlen, wbuf, source,
                   accepted, saved, opened, overlap>>

\* Fault: the error path returns at once.
WriteFails_NoClose(w) ==
    /\ wpc[w] = "write" /\ file # NoFile
    /\ ShortWrite(w)
    /\ capturing' = FALSE /\ running' = FALSE /\ present' = FALSE
    /\ wpc' = [wpc EXCEPT ![w] = "exit"]
    /\ UNCHANGED <<handle, count, ring, starts, cpc, wlen, wbuf, source, accepted,
                   saved, opened, overlap>>

\* A write error ends the capture.
WriteFails(w) ==
    /\ wpc[w] = "write" /\ file # NoFile
    /\ ShortWrite(w)
    /\ capturing' = FALSE /\ running' = FALSE /\ present' = FALSE
    /\ wbuf' = [wbuf EXCEPT ![w] = <<>>]
    /\ wpc' = [wpc EXCEPT ![w] = "close"]
    /\ UNCHANGED <<handle, count, ring, starts, cpc, wlen, source, accepted,
                   saved, opened, overlap>>

\* Fault: the test is made once more between the ring and the file.
Quit_BeforeWrite(w) == /\ wpc[w] \in {"loop", "write"} /\ ~running
                       /\ wpc' = [wpc EXCEPT ![w] = "close"]
                       /\ UNCHANGED <<flags, handle, count, ring, starts, cpc, wlen,
                                      wbuf, source, ghosts>>

\* The loop is left as soon as s_writer_running is false, whatever is in the ring.
Quit(w) == /\ wpc[w] = "loop" /\ ~running
           /\ wpc' = [wpc EXCEPT ![w] = "close"]
           /\ UNCHANGED <<flags, handle, count, ring, starts, cpc, wlen, wbuf,
                          source, ghosts>>

\* fflush and fclose of the file that is open now, whose results nobody looks at: the
\* file has all that its stream took, or with an error loses its end, and the record
\* where the loss begins is cut short.
CloseFile ==
    /\ file' = NoFile
    /\ \/ file = NoFile /\ UNCHANGED <<saved, opened, failed>>
       \/ /\ file # NoFile
          /\ opened' = opened \ {file}
          /\ \/ /\ saved' = [saved EXCEPT ![file] = records[file]]
                /\ UNCHANGED failed
             \/ /\ \E n \in DOMAIN records[file] :
                     \E k \in 0 .. Len(records[file][n]) - 1 :
                        saved' = [saved EXCEPT ![file] =
                                    Append(SubSeq(records[file], 1, n - 1),
                                           SubSeq(records[file][n], 1, k))]
                /\ failed' = failed \cup {file}

Close(w) == /\ wpc[w] = "close"
            /\ CloseFile
            /\ wpc' = [wpc EXCEPT ![w] = "exit"]
            /\ UNCHANGED <<flags, named, task, count, ring, starts, cpc, wlen,
                           wbuf, source, accepted, records, overlap>>

Exit(w) == /\ wpc[w] = "exit"
           /\ task' = NoTask
           /\ wpc' = [wpc EXCEPT ![w] = "gone"]
           /\ UNCHANGED <<flags, file, named, count, ring, starts, cpc, wlen, wbuf,
                          source, ghosts>>
-------------------------------------------------------------------------------
(* The HTTP server's task: one request at a time *)

\* Fault: the counters keep the values of the last capture.
StartReset_KeepsCount ==
    /\ cpc = "idle" /\ ~capturing /\ starts < MaxStarts
    /\ overlap' = (overlap \/ ~AllGone)
    /\ present' = TRUE
    /\ head' = 0 /\ tail' = 0
    /\ starts' = starts + 1
    /\ cpc' = "open"
    /\ UNCHANGED <<capturing, running, handle, count, buf, writer, source,
                   accepted, disk>>

\* capture_start, once the card is there: counters and ring are reset.
StartReset ==
    /\ cpc = "idle" /\ ~capturing /\ starts < MaxStarts
    /\ overlap' = (overlap \/ ~AllGone)
    /\ present' = TRUE
    /\ count' = 0
    /\ head' = 0 /\ tail' = 0
    /\ starts' = starts + 1
    /\ cpc' = "open"
    /\ UNCHANGED <<capturing, running, handle, buf, writer, source, accepted,
                   disk>>

\* The new file is opened and given its header, or not.
StartOpen ==
    /\ cpc = "open"
    /\ named' = starts
    /\ \/ file' = starts /\ opened' = opened \cup {starts} /\ cpc' = "create"
       \/ file' = NoFile /\ cpc' = "idle" /\ UNCHANGED opened
    /\ UNCHANGED <<flags, task, count, ring, starts, writer, source, accepted,
                   records, saved, failed, overlap>>

\* The capture is on before it has a writer.
StartFlags ==
    /\ cpc = "create"
    /\ capturing' = TRUE /\ running' = TRUE
    /\ cpc' = "spawn"
    /\ UNCHANGED <<present, handle, count, ring, starts, writer, source, ghosts>>

StartWriter ==
    /\ cpc = "spawn"
    /\ task' = starts
    /\ wpc' = [wpc EXCEPT ![starts] = "loop"]
    /\ cpc' = "idle"
    /\ UNCHANGED <<flags, file, named, count, ring, starts, wlen, wbuf, source,
                   ghosts>>

\* Fault: s_capturing is left set although there is no writer.
StartFails_KeepsCapturing ==
    /\ cpc = "spawn"
    /\ running' = FALSE
    /\ CloseFile
    /\ cpc' = "idle"
    /\ UNCHANGED <<capturing, present, named, task, count, ring, starts, writer,
                   source, accepted, records, overlap>>

\* The writer task cannot be created.
StartFails ==
    /\ cpc = "spawn"
    /\ capturing' = FALSE /\ running' = FALSE
    /\ CloseFile
    /\ cpc' = "idle"
    /\ UNCHANGED <<present, named, task, count, ring, starts, writer, source,
                   accepted, records, overlap>>

\* capture_stop
StopBegin == /\ cpc = "idle" /\ capturing
             /\ capturing' = FALSE /\ running' = FALSE
             /\ cpc' = IF task = NoTask THEN "idle" ELSE "stopping"
             /\ UNCHANGED <<present, handle, count, ring, starts, writer, source,
                            ghosts>>

\* It returns when the writer is gone, or after a second.
StopEnd == /\ cpc = "stopping"
           /\ cpc' = "idle"
           /\ UNCHANGED <<flags, handle, count, ring, starts, writer, source,
                          ghosts>>

\* capture_delete_file
Delete == /\ cpc = "idle" /\ ~capturing /\ named # NoFile
          /\ overlap' = (overlap \/ ~AllGone)
          /\ named' = NoFile /\ count' = 0
          /\ UNCHANGED <<flags, file, task, ring, starts, cpc, writer, source,
                         accepted, disk>>

Terminated == /\ cpc = "idle" /\ ~capturing /\ AllGone
              /\ UNCHANGED vars
-------------------------------------------------------------------------------
Producer == \E p \in Packets : Submit(p) \/ Put(p)

Writer(w) == \/ Peek(w) \/ Resync(w) \/ Read(w) \/ Write(w) \/ WriteFails(w)
             \/ Quit(w) \/ Close(w) \/ Exit(w)

Server == \/ StartReset \/ StartOpen \/ StartFlags \/ StartWriter \/ StartFails
          \/ StopBegin \/ StopEnd \/ Delete

Next == \/ Producer \/ Server \/ Terminated
        \/ \E w \in Starts : Writer(w) \/ Poll(w)

\* The writer and a request in progress get to run; nobody has to ask for more.
Fairness == /\ \A w \in Starts : WF_vars(Writer(w))
            /\ WF_vars(cpc # "idle" /\ Server)

Spec == Init /\ [][Next]_vars /\ Fairness
-------------------------------------------------------------------------------
(* Properties *)

\* Types; a record in hand is never longer than the ring.
TypeOK ==
    /\ capturing \in BOOLEAN /\ running \in BOOLEAN /\ present \in BOOLEAN
    /\ file \in Starts \cup {NoFile} /\ named \in Starts \cup {NoFile}
    /\ task \in Starts \cup {NoTask} /\ count \in Nat
    /\ buf \in [Cells -> Cell] /\ head \in Cells /\ tail \in Cells
    /\ starts \in 0 .. MaxStarts
    /\ cpc \in {"idle", "open", "create", "spawn", "stopping"}
    /\ wpc \in [Starts -> {"none", "loop", "read", "write", "close", "exit",
                           "gone"}]
    /\ wlen \in [Starts -> 0 .. N - 1]
    /\ \A w \in Starts : wbuf[w] \in Seq(Cell) /\ Len(wbuf[w]) < N
    /\ fresh \subseteq Packets /\ passing \subseteq Packets \ fresh
    /\ accepted \in [Starts -> Seq(Packets)]
    /\ records \in [Starts -> Seq(Seq(Cell))]
    /\ saved \in [Starts -> Seq(Seq(Cell))]
    /\ opened \subseteq Starts /\ failed \subseteq Starts
    /\ overlap \in BOOLEAN

\* rs are the records of the first packets of ps, in their order and without a gap.
FirstOf(rs, ps) == /\ Len(rs) <= Len(ps)
                   /\ \A k \in DOMAIN rs : rs[k] = Payload(ps[k])

\* ... and the last of them is cut short.
CutShort(rs, ps) ==
    /\ Len(rs) \in 1 .. Len(ps)
    /\ \A k \in 1 .. Len(rs) - 1 : rs[k] = Payload(ps[k])
    /\ \E n \in 0 .. Size[ps[Len(rs)]] - 1 :
          rs[Len(rs)] = SubSeq(Payload(ps[Len(rs)]), 1, n)

\* What the writer wrote during a capture, and what the closed file holds of it, are
\* the records of the packets that got into the ring during that capture from the
\* first one on, each of them whole, but for the last one after an I/O error, unless
\* the writers of two captures met.
WholeRecords ==
    overlap \/ \A s \in Starts : \A rs \in {records[s], saved[s]} :
        \/ FirstOf(rs, accepted[s])
        \/ s \in failed /\ CutShort(rs, accepted[s])

\* packet_count is the "number of PCAP records written": as long as no I/O error is
\* met, what the writer wrote to the file it is reported with, and the number of
\* records in that file once it is closed.
CountsMatch ==
    \/ overlap \/ named \in failed \cup {NoFile} \/ cpc = "open"
    \/ count = Len(IF named \in opened THEN records[named] ELSE saved[named])

\* "Start capturing to a new .pcap file": while a capture is on, its own file is
\* open, and once capture_start is through its own writer serves it.
RecordingHasFile == capturing => /\ file = starts /\ named = starts
                                 /\ file \in opened
                                 /\ cpc = "spawn" \/ ~Stopped(starts)

\* ... which the code keeps to as long as no two writers meet.
AloneRecordingHasFile == overlap \/ RecordingHasFile

\* What is in the ring of a running capture gets written.
RingDrains == running /\ Used > 0 ~> Used = 0 \/ ~running \/ overlap

\* However a capture ends, every file it opened gets closed, unless the writers of two
\* captures met.
FileCloses == cpc = "idle" /\ ~running ~> opened = {} \/ running \/ overlap

\* "Stop capturing and flush remaining data": when capture_stop has seen the
\* writer exit and no I/O error was met, a packet that was put into the ring and is
\* missing in the file is still in the ring: none was lost in the writer's hands.
\* (That the ring itself is flushed does not hold.)
NoneLostInHand == cpc = "stopping" /\ task = NoTask /\ starts \notin failed /\ Used = 0
                  => overlap \/ Len(saved[starts]) = Len(accepted[starts])
===============================================================================
