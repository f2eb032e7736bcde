--------------------------- MODULE ShardingProofs ---------------------------
(***************************************************************************)
(* For any entries and any limits, both writers cut the entries of a       *)
(* section well; and the shards of every run are the files they cut.       *)
(***************************************************************************)
EXTENDS SitemapSharding, SitemapGenerationProofs, NaturalLemmas, SequenceTheorems

File  == Seq(Nat)
Files == Seq(File)

-----------------------------------------------------------------------------
(* The sums *)

IsSum(sum, file, lim) ==
    sum = [i \in 0..Len(file) |-> IF i = 0 THEN lim.header + lim.footer ELSE sum[i-1] + file[i]]

LEMMA SumExists ==
    ASSUME NEW file \in File, NEW lim \in Limits
    PROVE  \E sum \in [0..Len(file) -> Nat] : IsSum(sum, file, lim)
<1> DEFINE n    == Len(file)
           base == lim.header + lim.footer
           next == [x \in (1..n) \X Nat |-> x[2] + file[x[1]]]
<1>1. n \in Nat /\ \A i \in 1..n : file[i] \in Nat
  BY DEF File
<1>2. next \in Steps(n, Nat) /\ base \in Nat
  BY <1>1 DEF Limits, Steps
<1>3. \A i \in 1..n, k \in Nat : next[<<i, k>>] = k + file[i]
  OBVIOUS
<1> HIDE DEF n, base, next
<1>4. PICK sum \in [0..n -> Nat] : Follows(sum, n, base, next)
  BY <1>1, <1>2, RecursionExists
<1>5. \A i \in 0..n : i # 0 => i \in 1..n /\ i - 1 \in 0..n
  BY <1>1
<1>6. \A i \in 0..n : sum[i] = IF i = 0 THEN base ELSE sum[i-1] + file[i]
  BY <1>3, <1>4, <1>5 DEF Follows
<1> QED
  BY <1>6 DEF n, base, IsSum

LEMMA FileBytesIsSum ==
    ASSUME NEW file \in File, NEW lim \in Limits
    PROVE  \E sum \in [0..Len(file) -> Nat] : IsSum(sum, file, lim) /\ FileBytes(file, lim) = sum[Len(file)]
<1> DEFINE sum == CHOOSE s : IsSum(s, file, lim)
<1>1. IsSum(sum, file, lim)
  BY SumExists
<1>2. FileBytes(file, lim) = sum[Len(file)]
  BY DEF FileBytes, IsSum
<1>3. PICK g \in [0..Len(file) -> Nat] : IsSum(g, file, lim)
  BY SumExists
<1>4. Len(file) \in Nat /\ \A i \in 1..Len(file) : i \in 0..Len(file) /\ i # 0
  BY DEF File
<1>5. GoesOnLike(sum, Len(file), g)
  <2> HIDE DEF sum
  <2> QED
    BY <1>1, <1>3, <1>4 DEF IsSum, GoesOnLike
<1>6. \A i \in 0..Len(file) : sum[i] = g[i]
  <2> HIDE DEF sum
  <2> QED
    BY <1>4, <1>5, RecursionAgrees
<1> QED
  BY <1>2, <1>3, <1>4, <1>6

\* A file grows by its next entry.
LEMMA FileBytesAppend ==
    ASSUME NEW file \in File, NEW size \in Nat, NEW lim \in Limits
    PROVE  /\ FileBytes(file, lim) \in Nat
           /\ FileBytes(Append(file, size), lim) = FileBytes(file, lim) + size
<1> DEFINE more == Append(file, size)
<1>1. more \in File /\ Len(more) = Len(file) + 1 /\ Len(file) \in Nat
      /\ more[Len(file) + 1] = size /\ \A i \in 1..Len(file) : more[i] = file[i]
  BY AppendProperties DEF File
<1> HIDE DEF more
<1>2. PICK f \in [0..Len(file) -> Nat] : IsSum(f, file, lim) /\ FileBytes(file, lim) = f[Len(file)]
  BY FileBytesIsSum
<1>3. PICK g \in [0..Len(more) -> Nat] : IsSum(g, more, lim) /\ FileBytes(more, lim) = g[Len(more)]
  BY <1>1, FileBytesIsSum
<1>4. GoesOnLike(f, Len(file), g)
  <2>1. \A i \in 0..Len(file) : f[i] = IF i = 0 THEN lim.header + lim.footer ELSE f[i-1] + file[i]
    BY <1>2 DEF IsSum
  <2>2. \A i \in 0..Len(more) : g[i] = IF i = 0 THEN lim.header + lim.footer ELSE g[i-1] + more[i]
    BY <1>3 DEF IsSum
  <2>3. 0 \in 0..Len(file) /\ 0 \in 0..Len(more)
    BY <1>1
  <2>4. \A i \in 1..Len(file) : i \in 0..Len(file) /\ i \in 0..Len(more) /\ i # 0
    BY <1>1
  <2> QED
    BY <1>1, <2>1, <2>2, <2>3, <2>4 DEF GoesOnLike
<1>5. \A i \in 0..Len(file) : f[i] = g[i]
  BY <1>1, <1>4, RecursionAgrees
<1>6. g[Len(more)] = g[Len(file)] + size
  <2>1. Len(more) \in 0..Len(more) /\ Len(more) # 0 /\ Len(more) - 1 = Len(file)
    BY <1>1
  <2>2. g[Len(more)] = g[Len(more) - 1] + more[Len(more)]
    BY <1>3, <2>1 DEF IsSum
  <2> QED
    BY <1>1, <2>1, <2>2
<1> QED
  BY <1>1, <1>2, <1>3, <1>5, <1>6 DEF more

LEMMA FileBytesEmpty ==
    ASSUME NEW lim \in Limits
    PROVE  FileBytes(<<>>, lim) = lim.header + lim.footer
<1>1. <<>> \in File /\ Len(<<>>) = 0
  BY EmptySeq DEF File
<1>2. PICK f \in [0..0 -> Nat] : IsSum(f, <<>>, lim) /\ FileBytes(<<>>, lim) = f[0]
  BY <1>1, FileBytesIsSum
<1> QED
  BY <1>1, <1>2 DEF IsSum

IsJoin(all, files) ==
    all = [i \in 0..Len(files) |-> IF i = 0 THEN <<>> ELSE all[i-1] \o files[i]]

LEMMA JoinExists ==
    ASSUME NEW T, NEW files \in Seq(Seq(T))
    PROVE  \E all \in [0..Len(files) -> Seq(T)] : IsJoin(all, files)
<1> DEFINE n    == Len(files)
           Q    == Seq(T)
           next == [x \in (1..n) \X Q |-> x[2] \o files[x[1]]]
<1>1. n \in Nat /\ \A i \in 1..n : files[i] \in Q
  OBVIOUS
<1>2. \A i \in 1..n, q \in Q : q \o files[i] \in Q
  BY <1>1, ConcatProperties
<1>5. <<>> \in Q
  BY EmptySeq
<1> HIDE DEF Q
<1>3. next \in Steps(n, Q)
  <2>1. \A x \in (1..n) \X Q : x[2] \o files[x[1]] \in Q
    BY <1>2
  <2> QED
    BY <2>1 DEF Steps
<1>4. \A i \in 1..n, q \in Q : next[<<i, q>>] = q \o files[i]
  OBVIOUS
<1> HIDE DEF n, next
<1>6. PICK all \in [0..n -> Q] : Follows(all, n, <<>>, next)
  BY <1>1, <1>3, <1>5, RecursionExists
<1>7. \A i \in 0..n : i # 0 => i \in 1..n /\ i - 1 \in 0..n
  BY <1>1
<1>8. \A i \in 0..n : all[i] = IF i = 0 THEN <<>> ELSE all[i-1] \o files[i]
  BY <1>4, <1>6, <1>7 DEF Follows
<1> QED
  BY <1>8 DEF n, Q, IsJoin

LEMMA TogetherIsJoin ==
    ASSUME NEW T, NEW files \in Seq(Seq(T))
    PROVE  \E all \in [0..Len(files) -> Seq(T)] :
              IsJoin(all, files) /\ Together(files) = all[Len(files)]
<1> DEFINE all == CHOOSE q : IsJoin(q, files)
           Q   == Seq(T)
<1>1. IsJoin(all, files)
  BY JoinExists
<1>2. Together(files) = all[Len(files)]
  BY DEF Together, IsJoin
<1>3. PICK g \in [0..Len(files) -> Q] : IsJoin(g, files)
  BY JoinExists
<1>4. Len(files) \in Nat /\ \A i \in 1..Len(files) : i \in 0..Len(files) /\ i # 0
  OBVIOUS
<1> HIDE DEF all, Q
<1>5. GoesOnLike(all, Len(files), g)
  <2>1. \A i \in 0..Len(files) : all[i] = IF i = 0 THEN <<>> ELSE all[i-1] \o files[i]
    BY <1>1 DEF IsJoin
  <2>2. \A i \in 0..Len(files) : g[i] = IF i = 0 THEN <<>> ELSE g[i-1] \o files[i]
    BY <1>3 DEF IsJoin
  <2>3. 0 \in 0..Len(files)
    BY <1>4
  <2> QED
    BY <1>4, <2>1, <2>2, <2>3 DEF GoesOnLike
<1>6. \A i \in 0..Len(files) : all[i] = g[i]
  BY <1>4, <1>5, RecursionAgrees
<1> QED
  BY <1>2, <1>3, <1>4, <1>6 DEF Q

\* One more file brings its entries.
LEMMA TogetherAppend ==
    ASSUME NEW files \in Files, NEW file \in File
    PROVE  /\ Together(files) \in File
           /\ Together(Append(files, file)) = Together(files) \o file
<1> DEFINE more == Append(files, file)
<1>1. more \in Files /\ Len(more) = Len(files) + 1 /\ Len(files) \in Nat
      /\ more[Len(files) + 1] = file /\ \A i \in 1..Len(files) : more[i] = files[i]
  BY AppendProperties DEF Files
<1> HIDE DEF more
<1>2. PICK f \in [0..Len(files) -> File] : IsJoin(f, files) /\ Together(files) = f[Len(files)]
  BY TogetherIsJoin DEF Files, File
<1>3. PICK g \in [0..Len(more) -> File] : IsJoin(g, more) /\ Together(more) = g[Len(more)]
  BY <1>1, TogetherIsJoin DEF Files, File
<1>4. GoesOnLike(f, Len(files), g)
  <2>1. \A i \in 0..Len(files) : f[i] = IF i = 0 THEN <<>> ELSE f[i-1] \o files[i]
    BY <1>2 DEF IsJoin
  <2>2. \A i \in 0..Len(more) : g[i] = IF i = 0 THEN <<>> ELSE g[i-1] \o more[i]
    BY <1>3 DEF IsJoin
  <2>3. 0 \in 0..Len(files) /\ 0 \in 0..Len(more)
    BY <1>1
  <2>4. \A i \in 1..Len(files) : i \in 0..Len(files) /\ i \in 0..Len(more) /\ i # 0
    BY <1>1
  <2> QED
    BY <1>1, <2>1, <2>2, <2>3, <2>4 DEF GoesOnLike
<1>5. \A i \in 0..Len(files) : f[i] = g[i]
  BY <1>1, <1>4, RecursionAgrees
<1>6. g[Len(more)] = g[Len(files)] \o file
  <2>1. Len(more) \in 0..Len(more) /\ Len(more) # 0 /\ Len(more) - 1 = Len(files)
    BY <1>1
  <2>2. g[Len(more)] = g[Len(more) - 1] \o more[Len(more)]
    BY <1>3, <2>1 DEF IsJoin
  <2> QED
    BY <1>1, <2>1, <2>2
<1>7. f[Len(files)] = g[Len(files)] /\ f[Len(files)] \in File
  BY <1>1, <1>5
<1>8. Together(files) \in File /\ Together(more) = Together(files) \o file
  BY <1>2, <1>3, <1>6, <1>7
<1> QED
  BY <1>8 DEF more

LEMMA TogetherEmpty == Together(<<>>) = <<>>
<1>1. <<>> \in Files /\ Len(<<>>) = 0
  BY EmptySeq DEF Files
<1>2. PICK f \in [0..0 -> File] : IsJoin(f, <<>>) /\ Together(<<>>) = f[0]
  BY <1>1, TogetherIsJoin DEF Files, File
<1> QED
  BY <1>1, <1>2 DEF IsJoin

-----------------------------------------------------------------------------
(* The writers, entry by entry *)

Writers == [files: Files, writer: [sizes: File, written: Nat]]
Buffers == [files: Files, buffer: [sizes: File, size: Nat]]

StreamStart(lim) == [files |-> <<>>, writer |-> NewWriter(lim)]
BufferStart(lim) == [files |-> <<>>, buffer |-> NewBuffer(lim)]

StreamNext(s, size, lim) ==
    IF StreamCuts(s.writer, size, lim)
    THEN [files |-> Append(s.files, s.writer.sizes), writer |-> WriteRendered(NewWriter(lim), size)]
    ELSE [s EXCEPT !.writer = WriteRendered(@, size)]

BufferNext(s, size, lim) ==
    IF BufferCuts(s.buffer, size, lim)
    THEN [files |-> Flush(s.files, s.buffer), buffer |-> Keep(NewBuffer(lim), size)]
    ELSE [s EXCEPT !.buffer = Keep(@, size)]

LEMMA StreamTyped ==
    ASSUME NEW lim \in Limits
    PROVE  /\ StreamStart(lim) \in Writers
           /\ \A s \in Writers, size \in Nat : StreamNext(s, size, lim) \in Writers
<1>1. <<>> \in File /\ <<>> \in Files
  BY EmptySeq DEF File, Files
<1>2. lim.header \in Nat
  BY DEF Limits
<1>3. ASSUME NEW s \in Writers, NEW size \in Nat PROVE StreamNext(s, size, lim) \in Writers
  <2>1. s.files \in Files /\ s.writer.sizes \in File /\ s.writer.written \in Nat
    BY DEF Writers
  <2>2. /\ Append(s.files, s.writer.sizes) \in Files /\ Append(s.writer.sizes, size) \in File
        /\ Append(<<>>, size) \in File
    BY <1>1, <2>1, AppendProperties DEF File, Files
  <2>3. /\ WriteRendered(NewWriter(lim), size) \in [sizes: File, written: Nat]
        /\ WriteRendered(s.writer, size) \in [sizes: File, written: Nat]
    BY <1>2, <2>1, <2>2 DEF WriteRendered, NewWriter
  <2>4. [s EXCEPT !.writer = WriteRendered(s.writer, size)] \in Writers
    BY <2>3 DEF Writers
  <2>5. [files |-> Append(s.files, s.writer.sizes), writer |-> WriteRendered(NewWriter(lim), size)] \in Writers
    BY <2>2, <2>3 DEF Writers
  <2> QED
    BY <2>4, <2>5 DEF StreamNext, Writers
<1> QED
  BY <1>1, <1>2, <1>3 DEF StreamStart, NewWriter, Writers

LEMMA BufferTyped ==
    ASSUME NEW lim \in Limits
    PROVE  /\ BufferStart(lim) \in Buffers
           /\ \A s \in Buffers, size \in Nat : BufferNext(s, size, lim) \in Buffers
<1>1. <<>> \in File /\ <<>> \in Files
  BY EmptySeq DEF File, Files
<1>2. lim.header + lim.footer \in Nat
  BY DEF Limits
<1>3. ASSUME NEW s \in Buffers, NEW size \in Nat PROVE BufferNext(s, size, lim) \in Buffers
  <2>1. s.files \in Files /\ s.buffer.sizes \in File /\ s.buffer.size \in Nat
    BY DEF Buffers
  <2>2. /\ Append(s.files, s.buffer.sizes) \in Files /\ Append(s.buffer.sizes, size) \in File
        /\ Append(<<>>, size) \in File
    BY <1>1, <2>1, AppendProperties DEF File, Files
  <2>3. Flush(s.files, s.buffer) \in Files
    BY <2>1, <2>2 DEF Flush
  <2>4. /\ Keep(NewBuffer(lim), size) \in [sizes: File, size: Nat]
        /\ Keep(s.buffer, size) \in [sizes: File, size: Nat]
    BY <1>2, <2>1, <2>2 DEF Keep, NewBuffer
  <2>5. [s EXCEPT !.buffer = Keep(s.buffer, size)] \in Buffers
    BY <2>4 DEF Buffers
  <2>6. [files |-> Flush(s.files, s.buffer), buffer |-> Keep(NewBuffer(lim), size)] \in Buffers
    BY <2>3, <2>4 DEF Buffers
  <2> QED
    BY <2>5, <2>6 DEF BufferNext, Buffers
<1> QED
  BY <1>1, <1>2, <1>3 DEF BufferStart, NewBuffer, Buffers

IsStream(f, sizes, lim) ==
    f = [i \in 0..Len(sizes) |-> IF i = 0 THEN StreamStart(lim) ELSE StreamNext(f[i-1], sizes[i], lim)]

IsBuffering(f, sizes, lim) ==
    f = [i \in 0..Len(sizes) |-> IF i = 0 THEN BufferStart(lim) ELSE BufferNext(f[i-1], sizes[i], lim)]

LEMMA StreamExists ==
    ASSUME NEW sizes \in File, NEW lim \in Limits
    PROVE  \E f \in [0..Len(sizes) -> Writers] : IsStream(f, sizes, lim)
<1> DEFINE n    == Len(sizes)
           next == [x \in (1..n) \X Writers |-> StreamNext(x[2], sizes[x[1]], lim)]
<1>1. n \in Nat /\ \A i \in 1..n : sizes[i] \in Nat
  BY DEF File
<1>2. next \in Steps(n, Writers)
  <2>1. \A x \in (1..n) \X Writers : StreamNext(x[2], sizes[x[1]], lim) \in Writers
    BY <1>1, StreamTyped
  <2> QED
    BY <2>1 DEF Steps
<1>3. \A i \in 1..n, s \in Writers : next[<<i, s>>] = StreamNext(s, sizes[i], lim)
  OBVIOUS
<1>4. StreamStart(lim) \in Writers
  BY StreamTyped
<1> HIDE DEF n, next
<1>5. PICK f \in [0..n -> Writers] : Follows(f, n, StreamStart(lim), next)
  BY <1>1, <1>2, <1>4, RecursionExists
<1>6. \A i \in 0..n : i # 0 => i \in 1..n /\ i - 1 \in 0..n
  BY <1>1
<1>7. \A i \in 0..n : f[i] = IF i = 0 THEN StreamStart(lim) ELSE StreamNext(f[i-1], sizes[i], lim)
  BY <1>3, <1>5, <1>6 DEF Follows
<1> QED
  BY <1>7 DEF n, IsStream

LEMMA BufferingExists ==
    ASSUME NEW sizes \in File, NEW lim \in Limits
    PROVE  \E f \in [0..Len(sizes) -> Buffers] : IsBuffering(f, sizes, lim)
<1> DEFINE n    == Len(sizes)
           next == [x \in (1..n) \X Buffers |-> BufferNext(x[2], sizes[x[1]], lim)]
<1>1. n \in Nat /\ \A i \in 1..n : sizes[i] \in Nat
  BY DEF File
<1>2. next \in Steps(n, Buffers)
  <2>1. \A x \in (1..n) \X Buffers : BufferNext(x[2], sizes[x[1]], lim) \in Buffers
    BY <1>1, BufferTyped
  <2> QED
    BY <2>1 DEF Steps
<1>3. \A i \in 1..n, s \in Buffers : next[<<i, s>>] = BufferNext(s, sizes[i], lim)
  OBVIOUS
<1>4. BufferStart(lim) \in Buffers
  BY BufferTyped
<1> HIDE DEF n, next
<1>5. PICK f \in [0..n -> Buffers] : Follows(f, n, BufferStart(lim), next)
  BY <1>1, <1>2, <1>4, RecursionExists
<1>6. \A i \in 0..n : i # 0 => i \in 1..n /\ i - 1 \in 0..n
  BY <1>1
<1>7. \A i \in 0..n : f[i] = IF i = 0 THEN BufferStart(lim) ELSE BufferNext(f[i-1], sizes[i], lim)
  BY <1>3, <1>5, <1>6 DEF Follows
<1> QED
  BY <1>7 DEF n, IsBuffering

\* What the streaming writer has after each entry.
LEMMA StreamedSteps ==
    ASSUME NEW sizes \in File, NEW lim \in Limits
    PROVE  \E f \in [0..Len(sizes) -> Writers] :
              /\ f[0] = StreamStart(lim)
              /\ \A i \in 1..Len(sizes) : f[i] = StreamNext(f[i-1], sizes[i], lim)
              /\ StreamedFiles(sizes, lim) =
                    LET s == f[Len(sizes)] IN
                    IF Len(s.writer.sizes) > 0 THEN Append(s.files, s.writer.sizes) ELSE s.files
<1> DEFINE f == CHOOSE q : IsStream(q, sizes, lim)
<1>1. IsStream(f, sizes, lim)
  BY StreamExists
<1>2. Streamed(sizes, lim) = f
  BY DEF Streamed, IsStream, StreamStart, StreamNext
<1>3. PICK g \in [0..Len(sizes) -> Writers] : IsStream(g, sizes, lim)
  BY StreamExists
<1>4. Len(sizes) \in Nat /\ 0 \in 0..Len(sizes) /\ \A i \in 1..Len(sizes) : i \in 0..Len(sizes) /\ i # 0
  BY DEF File
<1> HIDE DEF f
<1>5. GoesOnLike(f, Len(sizes), g)
  BY <1>1, <1>3, <1>4 DEF IsStream, GoesOnLike
<1>6. \A i \in 0..Len(sizes) : f[i] = g[i]
  BY <1>4, <1>5, RecursionAgrees
<1>7. g[0] = StreamStart(lim) /\ \A i \in 1..Len(sizes) : g[i] = StreamNext(g[i-1], sizes[i], lim)
  BY <1>3, <1>4 DEF IsStream
<1>8. Streamed(sizes, lim)[Len(sizes)] = g[Len(sizes)]
  BY <1>2, <1>4, <1>6
<1> QED
  BY <1>7, <1>8 DEF StreamedFiles

\* What the buffered writer has after each entry.
LEMMA BufferedSteps ==
    ASSUME NEW sizes \in File, NEW lim \in Limits
    PROVE  \E f \in [0..Len(sizes) -> Buffers] :
              /\ f[0] = BufferStart(lim)
              /\ \A i \in 1..Len(sizes) : f[i] = BufferNext(f[i-1], sizes[i], lim)
              /\ BufferedFiles(sizes, lim) = Flush(f[Len(sizes)].files, f[Len(sizes)].buffer)
<1> DEFINE f == CHOOSE q : IsBuffering(q, sizes, lim)
<1>1. IsBuffering(f, sizes, lim)
  BY BufferingExists
<1>2. BufferedFiles(sizes, lim) = Flush(f[Len(sizes)].files, f[Len(sizes)].buffer)
  BY DEF BufferedFiles, IsBuffering, BufferStart, BufferNext
<1>3. PICK g \in [0..Len(sizes) -> Buffers] : IsBuffering(g, sizes, lim)
  BY BufferingExists
<1>4. Len(sizes) \in Nat /\ 0 \in 0..Len(sizes) /\ \A i \in 1..Len(sizes) : i \in 0..Len(sizes) /\ i # 0
  BY DEF File
<1> HIDE DEF f
<1>5. GoesOnLike(f, Len(sizes), g)
  BY <1>1, <1>3, <1>4 DEF IsBuffering, GoesOnLike
<1>6. \A i \in 0..Len(sizes) : f[i] = g[i]
  BY <1>4, <1>5, RecursionAgrees
<1>7. g[0] = BufferStart(lim) /\ \A i \in 1..Len(sizes) : g[i] = BufferNext(g[i-1], sizes[i], lim)
  BY <1>3, <1>4 DEF IsBuffering
<1> QED
  BY <1>2, <1>4, <1>6, <1>7

-----------------------------------------------------------------------------
(* Every entry keeps the files well cut *)

\* The entry that opened the file at hand did not fit into the last one written.
CutNeeded(s, lim) == s.files # <<>> =>
    /\ s.writer.sizes # <<>>
    /\ ~WithinLimits(Append(s.files[Len(s.files)], s.writer.sizes[1]), lim)

WriterInv(s, lim) ==
    /\ s.writer.written + lim.footer = FileBytes(s.writer.sizes, lim)
    /\ s.writer.sizes # <<>> => WithinLimits(s.writer.sizes, lim)
    /\ \A i \in 1..Len(s.files) : WithinLimits(s.files[i], lim)
    /\ CutsNeeded(s.files, lim)
    /\ CutNeeded(s, lim)

\* All entries so far, in order.
Written(s) == Together(s.files) \o s.writer.sizes

\* The two writers at the same entry.
SameCut(s, b, lim) ==
    /\ b.files = s.files /\ b.buffer.sizes = s.writer.sizes
    /\ b.buffer.size = s.writer.written + lim.footer

LEMMA FilesAssociate ==
    ASSUME NEW q \in File, NEW r \in File, NEW t \in File
    PROVE  (q \o r) \o t = q \o (r \o t)
<1>1. ASSUME NEW S, NEW x \in Seq(S), NEW y \in Seq(S), NEW z \in Seq(S)
      PROVE  (x \o y) \o z = x \o (y \o z)
  BY ConcatAssociative
<1>2. q \in Seq(Nat) /\ r \in Seq(Nat) /\ t \in Seq(Nat)
  BY DEF File
<1> QED
  BY <1>1, <1>2

LEMMA FileFacts ==
    ASSUME NEW file \in File, NEW size \in Nat
    PROVE  /\ Len(file) \in Nat /\ (file # <<>> <=> Len(file) > 0)
           /\ Append(file, size) \in File /\ Append(file, size) # <<>>
           /\ Len(Append(file, size)) = Len(file) + 1
           /\ file # <<>> => Append(file, size)[1] = file[1]
           /\ file = <<>> => Append(file, size)[1] = size
<1>1. Len(file) \in Nat /\ (file # <<>> <=> Len(file) > 0)
  BY EmptySeq, LenProperties DEF File
<1>2. /\ Append(file, size) \in File /\ Append(file, size) # <<>>
      /\ Len(Append(file, size)) = Len(file) + 1
      /\ \A i \in 1..Len(file) : Append(file, size)[i] = file[i]
      /\ Append(file, size)[Len(file) + 1] = size
  BY AppendProperties DEF File
<1>3. Len(<<>>) = 0
  OBVIOUS
<1>4. file # <<>> => 1 \in 1..Len(file)
  BY <1>1
<1> QED
  BY <1>1, <1>2, <1>3, <1>4

LEMMA StateTyped ==
    ASSUME NEW s \in Writers
    PROVE  /\ s.files \in Files /\ s.writer.sizes \in File /\ s.writer.written \in Nat
           /\ Len(s.files) \in Nat /\ (s.files # <<>> => Len(s.files) > 0)
           /\ \A i \in 1..Len(s.files) : s.files[i] \in File
           /\ Together(s.files) \in File
  BY TogetherAppend, EmptySeq DEF Writers, Files

LEMMA StartWell ==
    ASSUME NEW lim \in Limits
    PROVE  /\ WriterInv(StreamStart(lim), lim) /\ Written(StreamStart(lim)) = <<>>
           /\ SameCut(StreamStart(lim), BufferStart(lim), lim)
<1>1. <<>> \in File /\ Len(<<>>) = 0 /\ <<>> \o <<>> = <<>>
  BY EmptySeq, ConcatEmptySeq DEF File
<1>2. lim.header \in Nat /\ lim.footer \in Nat
  BY DEF Limits
<1>3. StreamStart(lim).files = <<>> /\ StreamStart(lim).writer.sizes = <<>>
      /\ StreamStart(lim).writer.written = lim.header
  BY DEF StreamStart, NewWriter
<1>4. WriterInv(StreamStart(lim), lim)
  BY <1>1, <1>3, FileBytesEmpty DEF WriterInv, CutsNeeded, CutNeeded
<1>5. Written(StreamStart(lim)) = <<>>
  BY <1>1, <1>3, TogetherEmpty DEF Written
<1>6. SameCut(StreamStart(lim), BufferStart(lim), lim)
  BY <1>2, <1>3 DEF SameCut, BufferStart, NewBuffer
<1> QED
  BY <1>4, <1>5, <1>6

LEMMA StepWell ==
    ASSUME NEW lim \in Limits, NEW s \in Writers, NEW size \in Nat, WriterInv(s, lim)
    PROVE  /\ WriterInv(StreamNext(s, size, lim), lim)
           /\ Written(StreamNext(s, size, lim)) = Append(Written(s), size)
<1> DEFINE t    == StreamNext(s, size, lim)
           ws   == s.writer.sizes
           top  == Len(s.files)
<1>0. lim.urls \in Nat \ {0} /\ lim.bytes \in Nat /\ lim.header \in Nat /\ lim.footer \in Nat
  BY DEF Limits
<1>1. /\ s.files \in Files /\ ws \in File /\ s.writer.written \in Nat /\ top \in Nat
      /\ (s.files # <<>> => top > 0) /\ \A i \in 1..top : s.files[i] \in File
      /\ Together(s.files) \in File
  BY StateTyped
<1>2. /\ Len(ws) \in Nat /\ (ws # <<>> <=> Len(ws) > 0)
      /\ Append(ws, size) \in File /\ Append(ws, size) # <<>>
      /\ Len(Append(ws, size)) = Len(ws) + 1
      /\ ws # <<>> => Append(ws, size)[1] = ws[1]
  BY <1>1, FileFacts
<1>3. FileBytes(Append(ws, size), lim) = s.writer.written + lim.footer + size
      /\ FileBytes(ws, lim) = s.writer.written + lim.footer
  BY <1>0, <1>1, FileBytesAppend DEF WriterInv
<1>4. Written(s) \in File /\ Append(Written(s), size) = Written(s) \o <<size>>
  BY <1>1, ConcatProperties, AppendIsConcat DEF Written, File
<1>5. CASE StreamCuts(s.writer, size, lim)
  <2>1. t.files = Append(s.files, ws) /\ t.writer.sizes = Append(<<>>, size)
        /\ t.writer.written = lim.header + size
    BY <1>5 DEF StreamNext, WriteRendered, NewWriter
  <2>2. ws # <<>> /\ WithinLimits(ws, lim)
    BY <1>0, <1>2, <1>5 DEF StreamCuts, WriterInv
  <2>3. /\ <<>> \in File /\ Append(<<>>, size) \in File /\ Append(<<>>, size) # <<>>
        /\ Len(Append(<<>>, size)) = 1 /\ Append(<<>>, size)[1] = size
    BY FileFacts, EmptySeq DEF File
  <2>4. FileBytes(t.writer.sizes, lim) = t.writer.written + lim.footer
    <3>1. FileBytes(Append(<<>>, size), lim) = FileBytes(<<>>, lim) + size
      BY <2>3, FileBytesAppend
    <3> QED
      BY <1>0, <2>1, <3>1, FileBytesEmpty
  <2>5. WithinLimits(t.writer.sizes, lim)
    BY <1>0, <2>1, <2>3 DEF WithinLimits
  <2>6. /\ Append(s.files, ws) \in Files /\ Len(Append(s.files, ws)) = top + 1
        /\ Append(s.files, ws) # <<>>
        /\ \A i \in 1..top : Append(s.files, ws)[i] = s.files[i]
        /\ Append(s.files, ws)[top + 1] = ws
    BY <1>1, AppendProperties DEF Files
  <2>7. \A i \in 1..Len(t.files) : WithinLimits(t.files[i], lim)
    <3> SUFFICES ASSUME NEW i \in 1..(top + 1) PROVE WithinLimits(Append(s.files, ws)[i], lim)
      BY <2>1, <2>6
    <3>1. CASE i = top + 1
      BY <2>2, <2>6, <3>1
    <3>2. CASE i # top + 1
      <4>1. i \in 1..top
        BY <1>1, <3>2
      <4> QED
        BY <2>6, <4>1 DEF WriterInv
    <3> QED
      BY <3>1, <3>2
  <2>8. CutsNeeded(t.files, lim)
    <3> SUFFICES ASSUME NEW i \in 1..top
                 PROVE  ~WithinLimits(Append(t.files[i], t.files[i+1][1]), lim)
      BY <1>1, <2>1, <2>6 DEF CutsNeeded
    <3>1. CASE i = top
      <4>1. s.files # <<>> /\ t.files[i] = s.files[top] /\ t.files[i+1] = ws
        BY <1>1, <2>1, <2>6, <3>1
      <4> QED
        BY <4>1 DEF WriterInv, CutNeeded
    <3>2. CASE i # top
      <4>1. i \in 1..top-1 /\ i + 1 \in 1..top
        BY <1>1, <3>2
      <4>2. t.files[i] = s.files[i] /\ t.files[i+1] = s.files[i+1]
        BY <2>1, <2>6, <4>1
      <4> QED
        BY <4>1, <4>2 DEF WriterInv, CutsNeeded
    <3> QED
      BY <3>1, <3>2
  <2>9. CutNeeded(t, lim)
    <3>1. ~WithinLimits(Append(ws, size), lim)
      <4>1. CASE Len(ws) >= lim.urls
        BY <1>0, <1>2, <4>1 DEF WithinLimits
      <4>2. CASE Len(ws) > 0 /\ WouldExceed(s.writer, size, lim)
        BY <1>0, <1>1, <1>2, <1>3, <4>2 DEF WithinLimits, WouldExceed
      <4> QED
        BY <1>5, <4>1, <4>2 DEF StreamCuts
    <3>2. t.files[Len(t.files)] = ws /\ t.writer.sizes[1] = size /\ t.writer.sizes # <<>>
      BY <2>1, <2>3, <2>6
    <3> HIDE DEF t
    <3> QED
      BY <3>1, <3>2 DEF CutNeeded
  <2>10. Written(t) = Append(Written(s), size)
    <3>1. Together(t.files) = Written(s)
      BY <1>1, <2>1, TogetherAppend DEF Written
    <3>2. Append(<<>>, size) = <<size>>
      OBVIOUS
    <3> QED
      BY <1>4, <2>1, <3>1, <3>2 DEF Written
  <2>11. WriterInv(t, lim)
    <3> HIDE DEF t
    <3> QED
      BY <2>4, <2>5, <2>7, <2>8, <2>9 DEF WriterInv
  <2> QED
    BY <2>10, <2>11
<1>6. CASE ~StreamCuts(s.writer, size, lim)
  <2>1. t.files = s.files /\ t.writer.sizes = Append(ws, size)
        /\ t.writer.written = s.writer.written + size
    BY <1>6 DEF StreamNext, WriteRendered, Writers
  <2>2. FileBytes(t.writer.sizes, lim) = t.writer.written + lim.footer
    BY <1>0, <1>1, <1>3, <2>1
  <2>3. WithinLimits(t.writer.sizes, lim)
    <3>1. Len(ws) < lim.urls /\ (Len(ws) = 0 \/ s.writer.written + size + lim.footer <= lim.bytes)
      BY <1>0, <1>1, <1>2, <1>6 DEF StreamCuts, WouldExceed
    <3> HIDE DEF t
    <3> QED
      BY <1>0, <1>1, <1>2, <1>3, <2>1, <3>1 DEF WithinLimits
  <2>4. CutNeeded(t, lim)
    <3>1. ASSUME s.files # <<>>
          PROVE  ~WithinLimits(Append(s.files[top], Append(ws, size)[1]), lim)
      BY <1>2, <3>1 DEF WriterInv, CutNeeded
    <3> HIDE DEF t
    <3> QED
      BY <1>2, <2>1, <3>1 DEF CutNeeded
  <2>5. Written(t) = Append(Written(s), size)
    <3>1. Append(ws, size) = ws \o <<size>>
      BY <1>1, AppendIsConcat DEF File
    <3>2. <<size>> \in File
      BY DEF File
    <3>3. (Together(s.files) \o ws) \o <<size>> = Together(s.files) \o (ws \o <<size>>)
      BY <1>1, <3>2, FilesAssociate
    <3> QED
      BY <1>4, <2>1, <3>1, <3>3 DEF Written
  <2>6. WriterInv(t, lim)
    <3> HIDE DEF t
    <3> QED
      BY <2>1, <2>2, <2>3, <2>4 DEF WriterInv
  <2> QED
    BY <2>5, <2>6
<1> QED
  BY <1>5, <1>6

LEMMA StepSame ==
    ASSUME NEW lim \in Limits, NEW s \in Writers, NEW b \in Buffers, NEW size \in Nat,
           SameCut(s, b, lim)
    PROVE  SameCut(StreamNext(s, size, lim), BufferNext(b, size, lim), lim)
<1>0. lim.urls \in Nat \ {0} /\ lim.bytes \in Nat /\ lim.header \in Nat /\ lim.footer \in Nat
  BY DEF Limits
<1>1. /\ s.writer.sizes \in File /\ s.writer.written \in Nat
      /\ Len(s.writer.sizes) \in Nat /\ (s.writer.sizes # <<>> <=> Len(s.writer.sizes) > 0)
  BY StateTyped, FileFacts
<1>2. BufferCuts(b.buffer, size, lim) <=> StreamCuts(s.writer, size, lim)
  BY <1>0, <1>1 DEF SameCut, BufferCuts, StreamCuts, WouldExceed
<1>3. CASE StreamCuts(s.writer, size, lim)
  <2>1. s.writer.sizes # <<>>
    BY <1>0, <1>1, <1>3 DEF StreamCuts
  <2>2. Flush(b.files, b.buffer) = Append(s.files, s.writer.sizes)
    BY <2>1 DEF Flush, SameCut
  <2> QED
    BY <1>0, <1>2, <1>3, <2>2
    DEF SameCut, StreamNext, BufferNext, WriteRendered, NewWriter, Keep, NewBuffer
<1>4. CASE ~StreamCuts(s.writer, size, lim)
  <2>1. /\ StreamNext(s, size, lim).files = s.files
        /\ StreamNext(s, size, lim).writer = WriteRendered(s.writer, size)
    BY <1>4 DEF StreamNext, Writers
  <2>2. /\ BufferNext(b, size, lim).files = b.files
        /\ BufferNext(b, size, lim).buffer = Keep(b.buffer, size)
    BY <1>2, <1>4 DEF BufferNext, Buffers
  <2> QED
    BY <1>0, <1>1, <2>1, <2>2 DEF SameCut, WriteRendered, Keep
<1> QED
  BY <1>3, <1>4

\* For all entries, of any sizes, and all limits: the two writers make the same
\* files; these hold every entry, are within the limits, and none ends early.
THEOREM WritersCutWell == \A sizes \in Seq(Nat), lim \in Limits : WellCut(sizes, lim)
<1> SUFFICES ASSUME NEW sizes \in File, NEW lim \in Limits PROVE WellCut(sizes, lim)
  BY DEF File
<1> DEFINE n == Len(sizes)
           files == StreamedFiles(sizes, lim)
<1>0. n \in Nat /\ \A i \in 1..n : sizes[i] \in Nat
  BY DEF File
<1>1. PICK f \in [0..n -> Writers] :
          /\ f[0] = StreamStart(lim)
          /\ \A i \in 1..n : f[i] = StreamNext(f[i-1], sizes[i], lim)
          /\ files = LET s == f[n] IN
                     IF Len(s.writer.sizes) > 0 THEN Append(s.files, s.writer.sizes) ELSE s.files
  BY StreamedSteps
<1>2. PICK g \in [0..n -> Buffers] :
          /\ g[0] = BufferStart(lim)
          /\ \A i \in 1..n : g[i] = BufferNext(g[i-1], sizes[i], lim)
          /\ BufferedFiles(sizes, lim) = Flush(g[n].files, g[n].buffer)
  BY BufferedSteps
<1> DEFINE Good(i) == /\ WriterInv(f[i], lim) /\ Written(f[i]) = SubSeq(sizes, 1, i)
                      /\ SameCut(f[i], g[i], lim)
           S == {i \in Nat : i <= n => Good(i)}
<1>3. 0 \in S
  <2>1. SubSeq(sizes, 1, 0) = <<>>
    BY SubSeqEmpty
  <2> QED
    BY <1>1, <1>2, <2>1, StartWell
<1>4. ASSUME NEW i \in Nat, i \in S PROVE i + 1 \in S
  <2> SUFFICES ASSUME i + 1 <= n PROVE Good(i + 1)
    OBVIOUS
  <2>1. i + 1 \in 1..n /\ (i + 1) - 1 = i /\ i \in 0..n /\ sizes[i+1] \in Nat
    BY <1>0
  <2>2. f[i] \in Writers /\ g[i] \in Buffers /\ Good(i)
    BY <1>4, <2>1
  <2>3. f[i+1] = StreamNext(f[i], sizes[i+1], lim) /\ g[i+1] = BufferNext(g[i], sizes[i+1], lim)
    BY <1>1, <1>2, <2>1
  <2>4. SubSeq(sizes, 1, i + 1) = Append(SubSeq(sizes, 1, i), sizes[i+1])
    <3>1. 1 \in 1..Len(sizes) /\ i + 1 \in 1..Len(sizes)
      BY <2>1, <1>0
    <3>2. SubSeq(sizes, 1, i + 1) = SubSeq(sizes, 1, (i + 1) - 1) \o <<sizes[i+1]>>
      BY <3>1, SubSeqRecursiveSecond DEF File
    <3>3. SubSeq(sizes, 1, i) \in File
      BY <1>0, <2>1, SubSeqProperties DEF File
    <3>4. Append(SubSeq(sizes, 1, i), sizes[i+1]) = SubSeq(sizes, 1, i) \o <<sizes[i+1]>>
      BY <2>1, <3>3, AppendIsConcat DEF File
    <3> QED
      BY <2>1, <3>2, <3>4
  <2> QED
    BY <2>1, <2>2, <2>3, <2>4, StepWell, StepSame
<1>5. n \in S
  <2> HIDE DEF S
  <2> QED
    BY <1>0, <1>3, <1>4, Induction
<1> DEFINE s == f[n]
           ws == s.writer.sizes
<1>6. /\ s \in Writers /\ WriterInv(s, lim) /\ Written(s) = sizes /\ SameCut(s, g[n], lim)
  BY <1>0, <1>5, SubSeqFull DEF File
<1>7. /\ s.files \in Files /\ ws \in File /\ Len(s.files) \in Nat
      /\ (s.files # <<>> => Len(s.files) > 0) /\ Together(s.files) \in File
      /\ Len(ws) \in Nat /\ (ws # <<>> <=> Len(ws) > 0)
  BY <1>6, StateTyped, FileFacts
<1> HIDE DEF s
<1>8. BufferedFiles(sizes, lim) = files
  BY <1>1, <1>2, <1>6, <1>7 DEF Flush, SameCut, s
<1>9. CASE ws = <<>>
  <2>1. s.files = <<>> /\ files = <<>>
    BY <1>1, <1>6, <1>7, <1>9 DEF WriterInv, CutNeeded, s
  <2>2. Together(files) = sizes
    BY <1>6, <1>7, <1>9, <2>1, TogetherEmpty, ConcatEmptySeq DEF Written, File
  <2> HIDE DEF files
  <2> QED
    BY <1>8, <2>1, <2>2 DEF WellCut, CutsNeeded, files
<1>10. CASE ws # <<>>
  <2>1. files = Append(s.files, ws)
    BY <1>1, <1>7, <1>10 DEF s
  <2>2. Together(files) = sizes
    BY <1>6, <1>7, <2>1, TogetherAppend DEF Written
  <2>3. /\ Len(files) = Len(s.files) + 1
        /\ \A i \in 1..Len(s.files) : files[i] = s.files[i]
        /\ files[Len(s.files) + 1] = ws
    BY <1>7, <2>1, AppendProperties DEF Files
  <2> HIDE DEF files
  <2>4. \A i \in 1..Len(files) : WithinLimits(files[i], lim)
    <3> SUFFICES ASSUME NEW i \in 1..(Len(s.files) + 1) PROVE WithinLimits(files[i], lim)
      BY <2>3
    <3>1. CASE i = Len(s.files) + 1
      BY <1>6, <1>10, <2>3, <3>1 DEF WriterInv
    <3>2. CASE i # Len(s.files) + 1
      <4>1. i \in 1..Len(s.files)
        BY <1>7, <3>2
      <4> QED
        BY <1>6, <2>3, <4>1 DEF WriterInv
    <3> QED
      BY <3>1, <3>2
  <2>5. CutsNeeded(files, lim)
    <3> SUFFICES ASSUME NEW i \in 1..Len(s.files)
                 PROVE  ~WithinLimits(Append(files[i], files[i+1][1]), lim)
      BY <1>7, <2>3 DEF CutsNeeded
    <3>1. CASE i = Len(s.files)
      <4>1. s.files # <<>> /\ files[i] = s.files[Len(s.files)] /\ files[i+1] = ws
        BY <1>7, <2>3, <3>1
      <4> QED
        BY <1>6, <4>1 DEF WriterInv, CutNeeded
    <3>2. CASE i # Len(s.files)
      <4>1. i \in 1..Len(s.files)-1 /\ i + 1 \in 1..Len(s.files)
        BY <1>7, <3>2
      <4>2. files[i] = s.files[i] /\ files[i+1] = s.files[i+1]
        BY <2>3, <4>1
      <4> QED
        BY <1>6, <4>1, <4>2 DEF WriterInv, CutsNeeded
    <3> QED
      BY <3>1, <3>2
  <2> QED
    BY <1>8, <2>2, <2>4, <2>5 DEF WellCut, files
<1> QED
  BY <1>9, <1>10

-----------------------------------------------------------------------------
(* The shards of a run *)

\* Every file is full, but for the last, which is not empty; n entries in all.
FilledUp(files, n) ==
    LET k == Len(files) IN
    /\ k \in Nat \ {0} /\ DOMAIN files = 1..k
    /\ \A i \in 1..k-1 : Len(files[i]) = MaxUrls
    /\ Len(files[k]) \in 1..MaxUrls
    /\ n = MaxUrls * (k - 1) + Len(files[k])

LEMMA Products ==
    ASSUME NEW u \in Nat, NEW k \in Nat
    PROVE  u * k \in Nat /\ u * (k + 1) = u * k + u /\ u * 0 = 0
OBVIOUS

LEMMA DivisionUnique ==
    ASSUME NEW u \in Nat \ {0}, NEW a \in Nat, NEW b \in Nat, NEW r \in 1..u, NEW t \in 1..u,
           u * a + r = u * b + t
    PROVE  a = b /\ r = t
<1>1. ASSUME NEW x \in Nat, NEW y \in Nat, NEW p \in 1..u, NEW q \in 1..u,
             u * x + p = u * y + q
      PROVE  ~(x < y)
  <2> SUFFICES ASSUME x < y PROVE FALSE
    OBVIOUS
  <2>1. PICK d \in Nat : y = x + 1 + d
    <3>1. y - x - 1 \in Nat /\ y = x + 1 + (y - x - 1)
      OBVIOUS
    <3> QED BY <3>1
  <2>2. u * y = u * x + u + u * d /\ u * d \in Nat /\ u * x \in Nat
    BY <2>1
  <2> QED BY <1>1, <2>2
<1>2. ~(a < b) /\ ~(b < a)
  BY <1>1
<1> QED BY <1>2

\* Files filled up with as many entries are as long as each other.
LEMMA SameLengths ==
    ASSUME NEW files, NEW more, NEW n, FilledUp(files, n), FilledUp(more, n)
    PROVE  Lengths(files) = Lengths(more)
<1> DEFINE k == Len(files)
           m == Len(more)
<1>1. /\ k \in Nat \ {0} /\ Len(files[k]) \in 1..MaxUrls /\ n = MaxUrls * (k - 1) + Len(files[k])
      /\ m \in Nat \ {0} /\ Len(more[m]) \in 1..MaxUrls /\ n = MaxUrls * (m - 1) + Len(more[m])
      /\ DOMAIN files = 1..k /\ DOMAIN more = 1..m
      /\ \A i \in 1..k-1 : Len(files[i]) = MaxUrls
      /\ \A i \in 1..m-1 : Len(more[i]) = MaxUrls
  BY DEF FilledUp
<1> HIDE DEF k, m
<1>2. k - 1 = m - 1 /\ Len(files[k]) = Len(more[m])
  <2>1. k - 1 \in Nat /\ m - 1 \in Nat /\ MaxUrls \in Nat \ {0}
    BY <1>1, GenerationAssumption
  <2>2. MaxUrls * (k - 1) + Len(files[k]) = MaxUrls * (m - 1) + Len(more[m])
    BY <1>1
  <2> DEFINE a == k - 1
             b == m - 1
  <2>3. a \in Nat /\ b \in Nat /\ MaxUrls * a + Len(files[k]) = MaxUrls * b + Len(more[m])
    BY <2>1, <2>2
  <2> HIDE DEF a, b
  <2>4. /\ MaxUrls \in Nat \ {0} /\ a \in Nat /\ b \in Nat
        /\ Len(files[k]) \in 1..MaxUrls /\ Len(more[m]) \in 1..MaxUrls
        /\ MaxUrls * a + Len(files[k]) = MaxUrls * b + Len(more[m])
    BY <1>1, <2>1, <2>3
  <2>5. a = b /\ Len(files[k]) = Len(more[m])
    <3>1. \A u \in Nat \ {0} : \A x, y \in Nat : \A p, q \in 1..u :
              u * x + p = u * y + q => x = y /\ p = q
      BY DivisionUnique
    <3>2. \A x, y \in Nat : \A p, q \in 1..MaxUrls :
              MaxUrls * x + p = MaxUrls * y + q => x = y /\ p = q
      BY <2>4, <3>1, Zenon
    <3>3. \A p, q \in 1..MaxUrls :
              MaxUrls * a + p = MaxUrls * b + q => a = b /\ p = q
      BY <2>4, <3>2, Zenon
    <3> QED BY <2>4, <3>3, Zenon
  <2> QED BY <2>5 DEF a, b
<1>3. k = m
  BY <1>1, <1>2
<1>4. \A i \in 1..k : Len(files[i]) = Len(more[i])
  <2> SUFFICES ASSUME NEW i \in 1..k PROVE Len(files[i]) = Len(more[i])
    OBVIOUS
  <2>1. i = k \/ i \in 1..k-1
    BY <1>1
  <2> QED BY <1>1, <1>2, <1>3, <2>1
<1> QED BY <1>1, <1>3, <1>4 DEF Lengths

\* The entries of files that are filled up.
LEMMA FilledTogether ==
    ASSUME NEW T, NEW files \in Seq(Seq(T)), files # <<>>,
           \A i \in 1..Len(files)-1 : Len(files[i]) = MaxUrls
    PROVE  Len(Together(files)) = MaxUrls * (Len(files) - 1) + Len(files[Len(files)])
<1> DEFINE k == Len(files)
<1>0. /\ k \in Nat \ {0} /\ \A i \in 1..k : files[i] \in Seq(T) /\ Len(files[i]) \in Nat
      /\ MaxUrls \in Nat
  <2>1. k \in Nat \ {0} /\ \A i \in 1..k : files[i] \in Seq(T)
    BY EmptySeq
  <2> QED BY <2>1, GenerationAssumption
<1>1. PICK all \in [0..k -> Seq(T)] : IsJoin(all, files) /\ Together(files) = all[k]
  BY TogetherIsJoin
<1> HIDE DEF k
<1>2. all[0] = <<>> /\ \A i \in 1..k : all[i] = all[i-1] \o files[i]
  <2>1. 0 \in 0..k /\ \A i \in 1..k : i \in 0..k /\ i # 0
    BY <1>0
  <2> QED BY <1>1, <2>1 DEF IsJoin, k
<1>3. \A i \in 1..k : Len(all[i]) = Len(all[i-1]) + Len(files[i])
  <2> SUFFICES ASSUME NEW i \in 1..k PROVE Len(all[i]) = Len(all[i-1]) + Len(files[i])
    OBVIOUS
  <2>1. all[i-1] \in Seq(T) /\ files[i] \in Seq(T)
    BY <1>0
  <2>2. \A x, y \in Seq(T) : Len(x \o y) = Len(x) + Len(y)
    BY ConcatProperties
  <2> QED BY <1>2, <2>1, <2>2
<1> DEFINE S == {i \in Nat : i < k => Len(all[i]) = MaxUrls * i}
<1>4. 0 \in S
  BY <1>0, <1>2
<1>5. ASSUME NEW i \in Nat, i \in S PROVE i + 1 \in S
  <2> SUFFICES ASSUME i + 1 < k PROVE Len(all[i + 1]) = MaxUrls * (i + 1)
    OBVIOUS
  <2>1. i + 1 \in 1..k /\ i + 1 \in 1..k-1 /\ (i + 1) - 1 = i
    BY <1>0
  <2>2. Len(all[i + 1]) = Len(all[i]) + MaxUrls /\ Len(all[i]) = MaxUrls * i
    <3>1. Len(all[i + 1]) = Len(all[i]) + Len(files[i + 1])
      BY <1>3, <2>1
    <3>2. Len(files[i + 1]) = MaxUrls
      BY <2>1 DEF k
    <3>3. i < k
      BY <1>0
    <3> QED BY <1>5, <3>1, <3>2, <3>3
  <2> QED BY <1>0, <2>2, Products
<1>6. k - 1 \in S
  <2> HIDE DEF S
  <2>1. k - 1 \in Nat
    BY <1>0
  <2> QED BY <1>4, <1>5, <2>1, Induction
<1>7. k - 1 \in Nat /\ k - 1 < k /\ k \in 1..k
  BY <1>0
<1>8. Len(all[k - 1]) = MaxUrls * (k - 1)
  BY <1>6, <1>7
<1> QED BY <1>1, <1>3, <1>7, <1>8 DEF k

\* The streaming writer after i entries of which none is too large.
OnesInv(s, i) ==
    /\ \A j \in 1..Len(s.files) : Len(s.files[j]) = MaxUrls
    /\ s.writer.written = Len(s.writer.sizes)
    /\ Len(s.writer.sizes) <= MaxUrls
    /\ i > 0 => Len(s.writer.sizes) > 0
    /\ i = MaxUrls * Len(s.files) + Len(s.writer.sizes)

LEMMA OnesStep ==
    ASSUME NEW n \in Nat, NEW i \in Nat, i < n, NEW s \in Writers, OnesInv(s, i)
    PROVE  OnesInv(StreamNext(s, 1, UrlLimits(n)), i + 1)
<1> DEFINE lim == UrlLimits(n)
           t   == StreamNext(s, 1, lim)
<1>1. PICK fs, ws, wr, k :
          fs = s.files /\ ws = s.writer.sizes /\ wr = s.writer.written /\ k = Len(fs)
  OBVIOUS
<1>2. /\ MaxUrls \in Nat \ {0} /\ lim.urls = MaxUrls /\ lim.bytes = n
      /\ lim.header = 0 /\ lim.footer = 0
  BY GenerationAssumption DEF UrlLimits
<1>3. /\ fs \in Files /\ ws \in File /\ k \in Nat /\ Len(ws) \in Nat
  BY <1>1, StateTyped, FileFacts
<1>4. MaxUrls * k \in Nat /\ MaxUrls * (k + 1) = MaxUrls * k + MaxUrls
  BY <1>2, <1>3, Products
<1>5. /\ \A j \in 1..k : Len(fs[j]) = MaxUrls
      /\ wr = Len(ws) /\ Len(ws) <= MaxUrls /\ i = MaxUrls * k + Len(ws)
  BY <1>1 DEF OnesInv
<1> HIDE DEF lim
<1>6. ~WouldExceed(s.writer, 1, lim)
  <2>1. wr + 1 + 0 <= n
    BY <1>3, <1>4, <1>5
  <2>2. ~(wr + 1 + 0 > n)
    BY <1>3, <1>5, <2>1
  <2> QED BY <1>1, <1>2, <2>2 DEF WouldExceed
<1>7. CASE Len(ws) >= MaxUrls
  <2>1. /\ t.files = Append(fs, ws) /\ t.writer.sizes = Append(<<>>, 1)
        /\ t.writer.written = 0 + 1
    BY <1>1, <1>2, <1>7 DEF StreamNext, StreamCuts, WriteRendered, NewWriter
  <2>2. /\ Len(t.files) = k + 1 /\ \A j \in 1..k : t.files[j] = fs[j]
        /\ t.files[k + 1] = ws
    BY <1>1, <1>3, <2>1, AppendProperties DEF Files
  <2>3. Len(t.writer.sizes) = 1
    <3>1. Append(<<>>, 1) = <<1>>
      OBVIOUS
    <3> HIDE DEF t
    <3> QED BY <2>1, <3>1
  <2>4. Len(ws) = MaxUrls
    BY <1>2, <1>3, <1>5, <1>7
  <2>5. \A j \in 1..(k + 1) : Len(t.files[j]) = MaxUrls
    <3> SUFFICES ASSUME NEW j \in 1..(k + 1) PROVE Len(t.files[j]) = MaxUrls
      OBVIOUS
    <3>1. j = k + 1 \/ j \in 1..k
      BY <1>3
    <3> QED BY <1>5, <2>2, <2>4, <3>1
  <2>6. i + 1 = MaxUrls * (k + 1) + 1
    BY <1>4, <1>5, <2>4
  <2>7. 1 <= MaxUrls
    BY <1>2
  <2> HIDE DEF t
  <2>8. OnesInv(t, i + 1)
    BY <2>1, <2>2, <2>3, <2>5, <2>6, <2>7 DEF OnesInv
  <2> QED BY <2>8 DEF t, lim
<1>8. CASE ~(Len(ws) >= MaxUrls)
  <2>1. ~StreamCuts(s.writer, 1, lim)
    BY <1>1, <1>2, <1>6, <1>8 DEF StreamCuts
  <2>2. t = [s EXCEPT !.writer = WriteRendered(s.writer, 1)]
    BY <2>1 DEF StreamNext
  <2>3. /\ t.files = fs /\ t.writer.sizes = Append(ws, 1) /\ t.writer.written = wr + 1
    BY <1>1, <2>2 DEF WriteRendered, Writers
  <2>4. Len(t.writer.sizes) = Len(ws) + 1
    <3>1. Len(Append(ws, 1)) = Len(ws) + 1
      BY <1>3, FileFacts
    <3> HIDE DEF t
    <3> QED BY <2>3, <3>1
  <2>5. Len(ws) + 1 <= MaxUrls /\ i + 1 = MaxUrls * k + (Len(ws) + 1) /\ Len(ws) + 1 > 0
    BY <1>2, <1>3, <1>4, <1>5, <1>8
  <2> HIDE DEF t
  <2>6. OnesInv(t, i + 1)
    BY <1>1, <1>5, <2>3, <2>4, <2>5 DEF OnesInv
  <2> QED BY <2>6 DEF t, lim
<1> QED BY <1>7, <1>8

LEMMA OnesFilledUp ==
    ASSUME NEW n \in Nat \ {0}
    PROVE  FilledUp(StreamedFiles(Ones(n), UrlLimits(n)), n)
<1> DEFINE sizes == Ones(n)
           lim   == UrlLimits(n)
           files == StreamedFiles(sizes, lim)
<1>1. sizes \in File /\ Len(sizes) = n /\ \A i \in 1..n : sizes[i] = 1
  <2>1. sizes = [i \in 1..n |-> 1]
    BY DEF Ones
  <2> QED BY <2>1 DEF File
<1>2. lim \in Limits /\ lim.header = 0 /\ MaxUrls \in Nat \ {0}
  BY GenerationAssumption DEF UrlLimits, Limits
<1>3. PICK f \in [0..Len(sizes) -> Writers] :
          /\ f[0] = StreamStart(lim)
          /\ \A i \in 1..Len(sizes) : f[i] = StreamNext(f[i-1], sizes[i], lim)
          /\ files = LET s == f[Len(sizes)] IN
                     IF Len(s.writer.sizes) > 0 THEN Append(s.files, s.writer.sizes) ELSE s.files
  BY <1>1, <1>2, StreamedSteps
<1> HIDE DEF sizes
<1> DEFINE S == {i \in Nat : i <= n => OnesInv(f[i], i)}
<1>4. 0 \in S
  <2>1. Len(<<>>) = 0
    BY EmptySeq
  <2>2. OnesInv(f[0], 0)
    BY <1>2, <1>3, <2>1 DEF OnesInv, StreamStart, NewWriter
  <2> QED BY <2>2
<1>5. ASSUME NEW i \in Nat, i \in S PROVE i + 1 \in S
  <2> SUFFICES ASSUME i + 1 <= n PROVE OnesInv(f[i + 1], i + 1)
    OBVIOUS
  <2>1. i + 1 \in 1..n /\ (i + 1) - 1 = i /\ i \in 0..n /\ i < n
    OBVIOUS
  <2>2. f[i] \in Writers /\ OnesInv(f[i], i) /\ f[i + 1] = StreamNext(f[i], 1, lim)
    BY <1>1, <1>3, <1>5, <2>1
  <2> QED BY <2>1, <2>2, OnesStep
<1>6. n \in S
  <2> HIDE DEF S
  <2> QED BY <1>4, <1>5, Induction
<1> DEFINE s == f[n]
<1>7. /\ s \in Writers /\ OnesInv(s, n) /\ Len(s.writer.sizes) > 0
      /\ s.files \in Files /\ s.writer.sizes \in File /\ Len(s.files) \in Nat
      /\ Len(s.writer.sizes) \in Nat
  <2>1. s \in Writers /\ OnesInv(s, n)
    BY <1>1, <1>3, <1>6
  <2> HIDE DEF s
  <2>2. /\ s.files \in Files /\ s.writer.sizes \in File /\ Len(s.files) \in Nat
        /\ Len(s.writer.sizes) \in Nat
    BY <2>1, StateTyped, FileFacts
  <2>3. Len(s.writer.sizes) > 0
    BY <2>1 DEF OnesInv
  <2> QED BY <2>1, <2>2, <2>3
<1>8. files = Append(s.files, s.writer.sizes)
  BY <1>1, <1>3, <1>7
<1> HIDE DEF s
<1>9. /\ Len(files) = Len(s.files) + 1 /\ DOMAIN files = 1..(Len(s.files) + 1)
      /\ \A j \in 1..Len(s.files) : files[j] = s.files[j]
      /\ files[Len(s.files) + 1] = s.writer.sizes
  BY <1>7, <1>8, AppendFacts DEF Files
<1> HIDE DEF files
<1>10. FilledUp(files, n)
  BY <1>7, <1>9 DEF FilledUp, OnesInv
<1> QED BY <1>10 DEF files, sizes

\* A run that has read everything has filled up its shards, or made the empty one.
LEMMA MadeFilledUp ==
    ASSUME TypeOK, CoverInv, NEW w \in Workers, pc[w] = "rows"
    PROVE  CutByTheWriter(w)
<1> DEFINE n == Len(Together(made[w]))
           k == Len(made[w])
<1>1. /\ made[w] \in Seq(Seq(Entries)) /\ made[w] # <<>> /\ k \in Nat \ {0}
      /\ DOMAIN made[w] = 1..k /\ \A i \in 1..k : made[w][i] \in Seq(Entries)
  BY DEF TypeOK, Contents, CoverInv, NothingLeft
<1>2. /\ \A i \in 1..k : Len(made[w][i]) <= MaxUrls /\ Len(made[w][i]) \in Nat
      /\ \A i \in 1..k-1 : Len(made[w][i]) = MaxUrls
      /\ \A i \in 1..k : made[w][i] = <<>> => k = 1
  BY <1>1 DEF CoverInv, ShardInv, ShardsFilled, Generating
<1>3. MaxUrls \in Nat \ {0}
  BY GenerationAssumption
<1>4. n = MaxUrls * (k - 1) + Len(made[w][k])
  BY <1>1, <1>2, FilledTogether
<1>5. CASE made[w][k] = <<>>
  <2>1. k = 1 /\ Len(made[w][1]) = 0 /\ n = 0
    BY <1>1, <1>2, <1>3, <1>4, <1>5
  <2>2. Lengths(made[w]) = <<0>>
    BY <1>1, <2>1 DEF Lengths
  <2> QED BY <2>1, <2>2 DEF CutByTheWriter
<1>6. CASE made[w][k] # <<>>
  <2>1. Len(made[w][k]) \in 1..MaxUrls
    BY <1>1, <1>2, <1>6
  <2>2. FilledUp(made[w], n)
    BY <1>1, <1>2, <1>4, <2>1 DEF FilledUp
  <2>3. n \in Nat \ {0}
    <3> DEFINE full == MaxUrls * (k - 1)
    <3>1. k - 1 \in Nat
      BY <1>1
    <3>2. full \in Nat
      BY <1>3, <3>1
    <3>3. n = full + Len(made[w][k])
      BY <1>4
    <3> HIDE DEF n, k, full
    <3> QED BY <1>3, <2>1, <3>2, <3>3
  <2> HIDE DEF n
  <2>4. Lengths(made[w]) = Lengths(StreamedFiles(Ones(n), UrlLimits(n)))
    BY <2>2, <2>3, OnesFilledUp, SameLengths
  <2> QED BY <2>3, <2>4 DEF CutByTheWriter, n
<1> QED BY <1>5, <1>6

\* The writers cut every sample well, and however many entries a run reads, its shards
\* are the files the streaming writer cuts of as many.
THEOREM RunsCutWell == Spec => []EntriesWellCut
<1>1. SamplesWellCut
  <2> SUFFICES ASSUME NEW k \in 0..5, NEW sizes \in [1..k -> 1..3], NEW most \in 1..3,
                      NEW bytes \in 2..9
               PROVE  WellCut(sizes, [urls |-> most, bytes |-> bytes, header |-> 1, footer |-> 1])
    BY DEF SamplesWellCut
  <2>1. [urls |-> most, bytes |-> bytes, header |-> 1, footer |-> 1] \in Limits
    BY DEF Limits
  <2>2. sizes \in Seq(Nat)
    OBVIOUS
  <2> QED BY <2>1, <2>2, WritersCutWell
<1>2. TypeOK /\ CoverInv => EntriesWellCut
  BY <1>1, MadeFilledUp DEF EntriesWellCut
<1> QED
  BY <1>2, TypeCorrect, CoverInvariant, PTL
=============================================================================
