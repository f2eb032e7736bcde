------------------------------ MODULE Sharding ------------------------------
(***************************************************************************)
(* How the entries of a section are cut into files: the streaming writer   *)
(* (_generate_streaming) and the buffered one (_generate_buffered), as     *)
(* functions of the sizes of the rendered entries.  The limits they get    *)
(* are a record: the URLs and the bytes a file may have, and the sizes of  *)
(* its header and footer.                                                  *)
(***************************************************************************)
EXTENDS Integers, Sequences

Limits == [urls: Nat \ {0}, bytes: Nat, header: Nat, footer: Nat]

-----------------------------------------------------------------------------
(* The streaming writer: files written so far and the open one *)

NewWriter(lim) == [sizes |-> <<>>, written |-> lim.header]

\* Mutant: the footer is forgotten.
WouldExceed_NoFooter(writer, size, lim) == writer.written + size > lim.bytes

WouldExceed(writer, size, lim) == writer.written + size + lim.footer > lim.bytes

StreamCuts(writer, size, lim) ==
    \/ Len(writer.sizes) >= lim.urls
    \/ Len(writer.sizes) > 0 /\ WouldExceed(writer, size, lim)

WriteRendered(writer, size) ==
    [sizes |-> Append(writer.sizes, size), written |-> writer.written + size]

\* Streamed(sizes, lim)[i]: after the first i entries.
Streamed(sizes, lim) ==
    LET state[i \in 0..Len(sizes)] ==
            IF i = 0 THEN [files |-> <<>>, writer |-> NewWriter(lim)]
            ELSE LET s == state[i-1] IN
                 IF StreamCuts(s.writer, sizes[i], lim)
                 THEN [files |-> Append(s.files, s.writer.sizes),
                       writer |-> WriteRendered(NewWriter(lim), sizes[i])]
                 ELSE [s EXCEPT !.writer = WriteRendered(@, sizes[i])]
    IN state

\* The last file is published only if it has an entry.
StreamedFiles(sizes, lim) ==
    LET s == Streamed(sizes, lim)[Len(sizes)] IN
    IF Len(s.writer.sizes) > 0 THEN Append(s.files, s.writer.sizes) ELSE s.files

-----------------------------------------------------------------------------
(* The buffered writer: files flushed so far and the entries in hand *)

NewBuffer(lim) == [sizes |-> <<>>, size |-> lim.header + lim.footer]

BufferCuts(buffer, size, lim) ==
    /\ buffer.sizes # <<>>
    /\ Len(buffer.sizes) >= lim.urls \/ buffer.size + size > lim.bytes

Keep(buffer, size) == [sizes |-> Append(buffer.sizes, size), size |-> buffer.size + size]

Flush(files, buffer) == IF buffer.sizes = <<>> THEN files ELSE Append(files, buffer.sizes)

BufferedFiles(sizes, lim) ==
    LET state[i \in 0..Len(sizes)] ==
            IF i = 0 THEN [files |-> <<>>, buffer |-> NewBuffer(lim)]
            ELSE LET s == state[i-1] IN
                 IF BufferCuts(s.buffer, sizes[i], lim)
                 THEN [files |-> Flush(s.files, s.buffer), buffer |-> Keep(NewBuffer(lim), sizes[i])]
                 ELSE [s EXCEPT !.buffer = Keep(@, sizes[i])]
    IN Flush(state[Len(sizes)].files, state[Len(sizes)].buffer)

-----------------------------------------------------------------------------
(* What the files should be *)

\* The bytes of a file; sizes sums from the front.
FileBytes(file, lim) ==
    LET sum[i \in 0..Len(file)] == IF i = 0 THEN lim.header + lim.footer ELSE sum[i-1] + file[i]
    IN sum[Len(file)]

\* Within the limits, but for one entry that alone is over the bytes.
WithinLimits(file, lim) ==
    /\ Len(file) \in 1..lim.urls
    /\ FileBytes(file, lim) <= lim.bytes \/ Len(file) = 1

\* The files have these entries, in this order.
Together(files) ==
    LET all[i \in 0..Len(files)] == IF i = 0 THEN <<>> ELSE all[i-1] \o files[i]
    IN all[Len(files)]

\* The first entry of a file would not have fitted into the one before it.
CutsNeeded(files, lim) ==
    \A i \in 1..Len(files)-1 : ~WithinLimits(Append(files[i], files[i+1][1]), lim)

\* For these entries both writers make the same files, with every entry in one,
\* every file within the limits, and none cut early.
WellCut(sizes, lim) ==
    LET files == StreamedFiles(sizes, lim) IN
    /\ BufferedFiles(sizes, lim) = files
    /\ Together(files) = sizes
    /\ \A i \in 1..Len(files) : WithinLimits(files[i], lim)
    /\ CutsNeeded(files, lim)
=============================================================================
