-------------------------- MODULE JobJournalProofs --------------------------
(***************************************************************************)
(* What the journal promises when one process writes it, for any number of *)
(* jobs, any retention, any writes that fail and any death of the process. *)
(* With two processes only the types are left (run journal_emptied).       *)
(***************************************************************************)
EXTENDS JobJournal, SequenceTheorems, TLAPS

\* A new file can always be made.
EnoughInodes == \A a, b, c : \E n \in Inode : n \notin {a, b, c}

Status == {"running", "done", "failed"}
Writer == [at : {"free", "open", "write", "rename"}, job : Job \cup {None}, status : Status,
           lines : Seq(Record), fd : Inode \cup {None}]

Types ==
  /\ phase \in [Job -> Phase]
  /\ writer \in [Process -> Writer]
  /\ path \in Inode \cup {None} /\ temp \in Inode \cup {None}
  /\ content \in [Inode -> Seq(Record)]
  /\ accepted \in Seq(Record)

\* The record that a write in progress adds.
Adds(p) == [job |-> writer[p].job, status |-> writer[p].status]

\* The inductive invariant about the files: a write in progress knows the whole journal,
\* and the file it fills is the temporary one, which is never the journal.
FilesInv(p) ==
  /\ KeepsAccepted
  /\ temp = path => path = None
  /\ writer[p].at # "free" =>
       /\ writer[p].job \in Job
       /\ writer[p].lines = Newest(Append(Lines, Adds(p)))
  /\ writer[p].at \in {"write", "rename"} => writer[p].fd = temp /\ temp # None
  /\ writer[p].at = "write" => content[temp] = <<>>
  /\ writer[p].at = "rename" => content[temp] = writer[p].lines

\* The inductive invariant about the order: a job's records follow its phase, and a write
\* in progress writes the one that its phase calls for.
OrderInv(p) ==
  /\ \A a, b \in 1 .. Len(accepted) :
       a < b /\ accepted[a].job = accepted[b].job =>
         accepted[a].status = "running" /\ accepted[b].status # "running"
  /\ \A a \in 1 .. Len(accepted) :
       /\ phase[accepted[a].job] \notin {"new", "starting"}
       /\ phase[accepted[a].job] \in {"working", "done", "failed"} =>
            accepted[a].status = "running"
  /\ writer[p].at # "free" =>
       Pending(writer[p].job) /\ writer[p].status = StatusOf(writer[p].job)

JournalInv(p) == Types /\ FilesInv(p) /\ OrderInv(p)

-----------------------------------------------------------------------------
LEMMA NoneIsNoInode == None \notin Inode /\ None \notin Job
  BY NoneAssumption

\* What Newest returns, for every retention.
LEMMA NewestType ==
  ASSUME NEW s \in Seq(Record)
  PROVE  /\ Newest(s) \in Seq(Record)
         /\ Len(Newest(s)) = IF Retain > 0 /\ Len(s) > Retain THEN Retain ELSE Len(s)
         /\ \A a \in 1 .. Len(Newest(s)) : Newest(s)[a] = s[a + Len(s) - Len(Newest(s))]
<1>1. CASE Retain > 0 /\ Len(s) > Retain
  <2>1. Newest(s) = SubSeq(s, Len(s) - Retain + 1, Len(s))
    BY <1>1 DEF Newest, Log!Newest
  <2>2. Len(s) \in Nat /\ Retain \in Nat /\ Len(s) - Retain + 1 \in 1 .. Len(s)
    BY <1>1, RetainAssumption
  <2>3. QED
    BY <1>1, <2>1, <2>2
<1>2. CASE ~(Retain > 0 /\ Len(s) > Retain)
  BY <1>2 DEF Newest, Log!Newest
<1>3. QED
  BY <1>1, <1>2

\* To cut, append and cut again is to append and cut.
LEMMA NewestAgain ==
  ASSUME NEW s \in Seq(Record), NEW r \in Record
  PROVE  Newest(Append(Newest(s), r)) = Newest(Append(s, r))
<1>1. CASE Retain > 0 /\ Len(s) > Retain
  <2>1. Newest(s) = SubSeq(s, Len(s) - Retain + 1, Len(s)) /\ Newest(s) \in Seq(Record)
        /\ Len(Newest(s)) = Retain
    BY <1>1, NewestType DEF Newest, Log!Newest
  <2> DEFINE u == Append(Newest(s), r)
             v == Append(s, r)
  <2>7. /\ u \in Seq(Record) /\ Len(u) = Retain + 1
        /\ v \in Seq(Record) /\ Len(v) = Len(s) + 1 /\ Len(s) \in Nat /\ Retain \in Nat
    BY <1>1, <2>1, RetainAssumption
  <2> HIDE DEF u, v
  <2>2. Newest(u) \in Seq(Record) /\ Newest(v) \in Seq(Record)
        /\ Len(Newest(u)) = Retain /\ Len(Newest(v)) = Retain
    BY <1>1, <2>7, NewestType
  <2>3. ASSUME NEW a \in 1 .. Retain
        PROVE  Newest(u)[a] = Newest(v)[a]
    <3>1. Newest(u)[a] = u[a + 1] /\ Newest(v)[a] = v[a + Len(s) + 1 - Retain]
      <4>1. Newest(u)[a] = u[a + Len(u) - Len(Newest(u))]
        BY <2>7, <2>2, NewestType
      <4>2. Newest(v)[a] = v[a + Len(v) - Len(Newest(v))]
        BY <2>7, <2>2, NewestType
      <4>3. a + Len(u) - Retain = a + 1 /\ a + Len(v) - Retain = a + Len(s) + 1 - Retain
        BY <2>7
      <4>4. QED
        BY <4>1, <4>2, <4>3, <2>2
    <3>2. CASE a = Retain
      BY <3>1, <3>2, <2>1, <2>7 DEF u, v
    <3>3. CASE a < Retain
      <4>1. u[a + 1] = Newest(s)[a + 1]
        BY <3>3, <2>1, <2>7 DEF u
      <4>2. Newest(s)[a + 1] = s[a + 1 + Len(s) - Retain]
        BY <3>3, <2>1, <2>7, NewestType
      <4>3. v[a + Len(s) + 1 - Retain] = s[a + Len(s) + 1 - Retain]
        BY <3>3, <1>1, <2>7 DEF v
      <4>4. QED
        BY <3>1, <4>1, <4>2, <4>3, RetainAssumption
    <3>4. QED
      BY <3>2, <3>3, RetainAssumption
  <2>4. Newest(u) = Newest(v)
    BY <2>2, <2>3, SeqEqual
  <2>5. QED
    BY <2>4 DEF u, v
<1>2. CASE ~(Retain > 0 /\ Len(s) > Retain)
  BY <1>2 DEF Newest, Log!Newest
<1>3. QED
  BY <1>1, <1>2

\* Writing into an empty file leaves what was written.
LEMMA OverwriteEmpty ==
  ASSUME NEW s \in Seq(Record)
  PROVE  Overwrite(<<>>, s) = {s}
  BY DEF Overwrite

-----------------------------------------------------------------------------
\* A write in progress, edited.
LEMMA WriterEdits ==
  ASSUME NEW p, Process = {p}, Types,
         NEW at \in {"free", "open", "write", "rename"}, NEW i \in Inode \cup {None}
  PROVE  /\ writer[p] \in Writer
         /\ [writer EXCEPT ![p] = NoWriter] \in [Process -> Writer]
         /\ [writer EXCEPT ![p].at = at] \in [Process -> Writer]
         /\ [writer EXCEPT ![p].at = at, ![p].fd = i] \in [Process -> Writer]
<1>1. writer \in [Process -> Writer] /\ writer[p] \in Writer
  BY DEF Types
<1>2. NoWriter \in Writer
  BY EmptySeq DEF NoWriter, Writer, Status
<1>3. ASSUME NEW w \in Writer
      PROVE  [w EXCEPT !.at = at] \in Writer /\ [w EXCEPT !.at = at, !.fd = i] \in Writer
  BY DEF Writer
<1>4. QED
  BY <1>1, <1>2, <1>3

\* What a process leaves that stops in a write.
LEMMA PartWrittenFiles ==
  ASSUME NEW p, Process = {p}, JournalInv(p), PartWritten(p)
  PROVE  content' \in [Inode -> Seq(Record)] /\ (path # None => content'[path] = content[path])
<1>1. CASE writer[p].at = "write"
  <2>1. /\ writer[p].lines \in Seq(Record) /\ writer[p].fd = temp
        /\ temp \in Inode /\ temp # path /\ content[temp] = <<>>
    BY <1>1 DEF JournalInv, FilesInv, Types, Writer
  <2>2. PICK n \in 0 .. Len(writer[p].lines) :
          \E after \in Overwrite(<<>>, SubSeq(writer[p].lines, 1, n)) :
            content' = [content EXCEPT ![temp] = after]
    BY <1>1, <2>1 DEF PartWritten
  <2>3. SubSeq(writer[p].lines, 1, n) \in Seq(Record)
    BY <2>1
  <2>4. content' = [content EXCEPT ![temp] = SubSeq(writer[p].lines, 1, n)]
    BY <2>2, <2>3, OverwriteEmpty
  <2>5. QED
    BY <2>1, <2>3, <2>4 DEF JournalInv, Types
<1>2. CASE writer[p].at # "write"
  BY <1>2 DEF PartWritten, JournalInv, Types
<1>3. QED
  BY <1>1, <1>2

\* Submit goes on after a write.
LEMMA ProceedTypes ==
  ASSUME NEW j \in Job, phase \in [Job -> Phase], Proceed(j)
  PROVE  phase' \in [Job -> Phase]
  BY DEF Proceed, Phase

-----------------------------------------------------------------------------
(* One lemma per action; p is the only process. *)

LEMMA AdmitInv ==
  ASSUME NEW p, Process = {p}, JournalInv(p), NEW j \in Job, Admit(p, j)
  PROVE  JournalInv(p)'
<1>1. Types'
  BY DEF Admit, JournalInv, Types, files, Phase
<1>2. FilesInv(p)'
  BY DEF Admit, JournalInv, FilesInv, files, Lines, KeepsAccepted, Adds
<1>3. OrderInv(p)'
  BY DEF Admit, JournalInv, Types, OrderInv, files, Pending, StatusOf, Phase
<1>4. QED
  BY <1>1, <1>2, <1>3 DEF JournalInv

LEMMA FinishInv ==
  ASSUME NEW p, Process = {p}, JournalInv(p), NEW j \in Job, Finish(j)
  PROVE  JournalInv(p)'
<1>1. Types'
  BY DEF Finish, JournalInv, Types, files, Phase
<1>2. FilesInv(p)'
  BY DEF Finish, JournalInv, FilesInv, files, Lines, KeepsAccepted, Adds
<1>3. OrderInv(p)'
  BY DEF Finish, JournalInv, Types, OrderInv, files, Pending, StatusOf, Phase
<1>4. QED
  BY <1>1, <1>2, <1>3 DEF JournalInv

LEMMA ReadInv ==
  ASSUME NEW p, Process = {p}, JournalInv(p), NEW j \in Job, ReadJournal(p, j)
  PROVE  JournalInv(p)'
<1> DEFINE r == [job |-> j, status |-> StatusOf(j)]
           w == [at |-> "open", job |-> j, status |-> StatusOf(j),
                 lines |-> Newest(Append(Lines, r)), fd |-> None]
<1>1. StatusOf(j) \in Status /\ r \in Record
  BY DEF ReadJournal, Pending, StatusOf, Status, Record
<1>2. Lines \in Seq(Record)
  BY DEF Lines, JournalInv, Types
<1> HIDE DEF r
<1>3. Newest(Append(Lines, r)) \in Seq(Record)
  <2>1. Append(Lines, r) \in Seq(Record)
    BY <1>1, <1>2
  <2>2. QED
    BY <2>1, NewestType
<1> USE DEF r
<1>4. w \in Writer /\ writer' = [writer EXCEPT ![p] = w]
  BY <1>1, <1>3 DEF Writer, ReadJournal
<1>5. writer'[p] = w
  BY <1>4 DEF JournalInv, Types
<1>6. Types'
  BY <1>4 DEF ReadJournal, JournalInv, Types, files
<1>7. FilesInv(p)'
  BY <1>5 DEF ReadJournal, JournalInv, FilesInv, files, Lines, KeepsAccepted, Adds
<1>8. OrderInv(p)'
  BY <1>5 DEF ReadJournal, JournalInv, OrderInv, files, Pending, StatusOf
<1>9. QED
  BY <1>6, <1>7, <1>8 DEF JournalInv

LEMMA OpenInv ==
  ASSUME NEW p, Process = {p}, EnoughInodes, JournalInv(p), OpenTemp(p)
  PROVE  JournalInv(p)' /\ Lines' = Lines
<1>1. PICK i \in Inode : /\ i # path /\ temp' = i
                         /\ content' = [content EXCEPT ![i] = <<>>]
                         /\ writer' = [writer EXCEPT ![p].at = "write", ![p].fd = i]
  <2>1. CASE temp # None
    BY <2>1, NoneIsNoInode DEF OpenTemp, JournalInv, FilesInv, Types
  <2>2. CASE temp = None
    <3> DEFINE i == CHOOSE n \in Inode : n \notin InUse
    <3>1. InUse = {path, temp, writer[p].fd}
      BY DEF InUse
    <3>2. i \in Inode /\ i # path
      BY <3>1 DEF EnoughInodes
    <3>3. /\ temp' = i /\ content' = [content EXCEPT ![i] = <<>>]
          /\ writer' = [writer EXCEPT ![p].at = "write", ![p].fd = i]
      BY <2>2 DEF OpenTemp
    <3> HIDE DEF i
    <3>4. QED
      BY <3>2, <3>3
  <2>3. QED
    BY <2>1, <2>2
<1>2. /\ writer[p] \in Writer /\ writer' \in [Process -> Writer]
      /\ writer[p].at = "open" /\ UNCHANGED <<phase, path, accepted>>
  <2>1. Types /\ i \in Inode \cup {None} /\ "write" \in {"free", "open", "write", "rename"}
    BY DEF JournalInv
  <2>2. writer[p] \in Writer /\ [writer EXCEPT ![p].at = "write", ![p].fd = i] \in [Process -> Writer]
    BY <2>1, WriterEdits
  <2>3. QED
    BY <1>1, <2>2 DEF OpenTemp
<1>3. /\ writer'[p].at = "write" /\ writer'[p].fd = i /\ writer'[p].lines = writer[p].lines
      /\ writer'[p].job = writer[p].job /\ writer'[p].status = writer[p].status
  BY <1>1, <1>2 DEF JournalInv, Types, Writer
<1>4. Types'
  BY <1>1, <1>2, EmptySeq DEF JournalInv, Types
<1>5. Lines' = Lines
  BY <1>1, <1>2, NoneIsNoInode DEF Lines, JournalInv, Types
<1>6. FilesInv(p)'
  BY <1>1, <1>2, <1>3, <1>5, NoneIsNoInode DEF JournalInv, Types, FilesInv, KeepsAccepted, Adds
<1>7. OrderInv(p)'
  BY <1>2, <1>3 DEF JournalInv, OrderInv, Pending, StatusOf
<1>8. QED
  BY <1>4, <1>5, <1>6, <1>7 DEF JournalInv

LEMMA WriteInv ==
  ASSUME NEW p, Process = {p}, JournalInv(p), WriteTemp(p)
  PROVE  JournalInv(p)' /\ Lines' = Lines
<1>1. /\ writer[p] \in Writer /\ writer' \in [Process -> Writer]
      /\ writer[p].at = "write" /\ UNCHANGED <<phase, path, temp, accepted>>
  BY WriterEdits DEF WriteTemp, JournalInv
<1>2. /\ temp \in Inode /\ temp # path /\ writer[p].fd = temp
      /\ writer[p].lines \in Seq(Record) /\ content[temp] = <<>>
  BY <1>1 DEF JournalInv, FilesInv, Types, Writer
<1>3. content' = [content EXCEPT ![temp] = writer[p].lines]
  BY <1>2, OverwriteEmpty DEF WriteTemp
<1>4. /\ writer'[p].at = "rename" /\ writer'[p].fd = temp
      /\ writer'[p].lines = writer[p].lines
      /\ writer'[p].job = writer[p].job /\ writer'[p].status = writer[p].status
  BY <1>1, <1>2 DEF WriteTemp, JournalInv, Types, Writer
<1>5. Types'
  BY <1>1, <1>2, <1>3 DEF JournalInv, Types
<1>6. Lines' = Lines
  BY <1>1, <1>2, <1>3, NoneIsNoInode DEF Lines, JournalInv, Types
<1>7. FilesInv(p)'
  BY <1>1, <1>2, <1>3, <1>4, <1>6 DEF JournalInv, Types, FilesInv, KeepsAccepted, Adds
<1>8. OrderInv(p)'
  BY <1>1, <1>4 DEF JournalInv, OrderInv, Pending, StatusOf
<1>9. QED
  BY <1>5, <1>6, <1>7, <1>8 DEF JournalInv

\* The record of a write in progress is one that a job can write.
LEMMA AddsRecord ==
  ASSUME NEW p, Process = {p}, JournalInv(p), writer[p].at # "free"
  PROVE  /\ Adds(p) \in Record /\ writer[p].job \in Job
         /\ writer[p].lines = Newest(Append(Lines, Adds(p)))
  BY DEF JournalInv, FilesInv, Types, Writer, Adds, Record, Status

LEMMA RenameInv ==
  ASSUME NEW p, Process = {p}, JournalInv(p), RenameTemp(p)
  PROVE  JournalInv(p)' /\ Lines' = Newest(Append(Lines, Adds(p)))
<1> DEFINE j == writer[p].job
           r == Adds(p)
<1>1. /\ r \in Record /\ r.job = j /\ r.status = writer[p].status /\ j \in Job
      /\ writer[p].lines = Newest(Append(Lines, r))
  BY AddsRecord DEF RenameTemp, Adds
<1>2. temp \in Inode /\ temp # path /\ content[temp] = writer[p].lines
  BY DEF RenameTemp, JournalInv, FilesInv, Types
<1>3. /\ path' = temp /\ temp' = None /\ content' = content
      /\ accepted' = Append(accepted, r) /\ Proceed(j)
      /\ writer' = [writer EXCEPT ![p] = NoWriter]
  BY DEF RenameTemp, Adds
<1>4. writer'[p] = NoWriter /\ writer' \in [Process -> Writer]
  BY <1>3, WriterEdits DEF JournalInv, Types
<1>5. Lines' = Newest(Append(Lines, r))
  BY <1>1, <1>2, <1>3, NoneIsNoInode DEF Lines
<1>6. accepted \in Seq(Record) /\ Lines = Newest(accepted)
  BY DEF JournalInv, Types, FilesInv, KeepsAccepted
<1> HIDE DEF r
<1>7. accepted' \in Seq(Record)
  BY <1>1, <1>3, <1>6
<1>8. KeepsAccepted'
  <2>1. Newest(Append(Newest(accepted), r)) = Newest(Append(accepted, r))
    BY <1>1, <1>6, NewestAgain
  <2>2. Newest(accepted)' = Newest(accepted')
    BY DEF Newest, Log!Newest
  <2>3. QED
    BY <1>3, <1>5, <1>6, <2>1, <2>2 DEF KeepsAccepted
<1>9. Types'
  BY <1>1, <1>2, <1>3, <1>4, <1>7, ProceedTypes DEF JournalInv, Types
<1>10. FilesInv(p)'
  BY <1>2, <1>3, <1>4, <1>8, NoneIsNoInode DEF FilesInv, NoWriter
<1>11. OrderInv(p)'
  <2>1. Pending(j) /\ r.status = StatusOf(j) /\ phase \in [Job -> Phase]
    BY <1>1 DEF RenameTemp, JournalInv, OrderInv, Types
  <2>2. phase' = [phase EXCEPT ![j] = IF phase[j] = "starting" THEN "working" ELSE "closed"]
    BY <1>3 DEF Proceed
  <2>3. /\ Len(accepted') = Len(accepted) + 1 /\ Len(accepted) \in Nat
        /\ accepted'[Len(accepted) + 1] = r
        /\ \A a \in 1 .. Len(accepted) : accepted'[a] = accepted[a]
    BY <1>1, <1>3, <1>6
  <2>8. ASSUME NEW a \in 1 .. Len(accepted)
        PROVE  accepted[a].job \in Job
    <3>1. accepted[a] \in Record
      BY <1>6, ElementOfSeq
    <3>2. QED
      BY <3>1 DEF Record
  <2>4. ASSUME NEW a \in 1 .. Len(accepted), accepted[a].job = j
        PROVE  phase[j] # "starting" /\ accepted[a].status = "running" /\ r.status # "running"
    BY <2>1, <2>4 DEF JournalInv, OrderInv, Pending, StatusOf
  <2>5. ASSUME NEW a \in 1 .. Len(accepted'), NEW b \in 1 .. Len(accepted'),
               a < b, accepted'[a].job = accepted'[b].job
        PROVE  accepted'[a].status = "running" /\ accepted'[b].status # "running"
    BY <2>3, <2>4, <2>5, <1>1 DEF JournalInv, OrderInv
  <2>6. ASSUME NEW a \in 1 .. Len(accepted')
        PROVE  /\ phase'[accepted'[a].job] \notin {"new", "starting"}
               /\ phase'[accepted'[a].job] \in {"working", "done", "failed"} =>
                    accepted'[a].status = "running"
    <3>1. CASE a \in 1 .. Len(accepted)
      BY <3>1, <2>1, <2>2, <2>3, <2>4, <2>8, <1>1 DEF JournalInv, OrderInv
    <3>2. CASE a = Len(accepted) + 1
      BY <3>2, <2>1, <2>2, <2>3, <1>1 DEF Pending, StatusOf
    <3>3. QED
      BY <2>3, <3>1, <3>2
  <2>7. QED
    BY <2>5, <2>6, <1>4 DEF OrderInv, NoWriter
<1>12. QED
  BY <1>5, <1>9, <1>10, <1>11 DEF JournalInv, r

\* A write that fails leaves the journal as it was.
LEMMA FailInv ==
  ASSUME NEW p, Process = {p}, JournalInv(p), FailWrite(p)
  PROVE  JournalInv(p)' /\ Lines' = Lines
<1> DEFINE j == writer[p].job
<1>1. /\ j \in Job /\ Proceed(j) /\ PartWritten(p) /\ UNCHANGED <<path, accepted>>
      /\ temp' \in {temp, None} /\ writer' = [writer EXCEPT ![p] = NoWriter]
  BY AddsRecord DEF FailWrite
<1>2. writer'[p] = NoWriter /\ writer' \in [Process -> Writer]
  BY <1>1, WriterEdits DEF JournalInv, Types
<1>3. content' \in [Inode -> Seq(Record)] /\ (path # None => content'[path] = content[path])
  BY <1>1, PartWrittenFiles
<1>4. Types'
  BY <1>1, <1>2, <1>3, ProceedTypes DEF JournalInv, Types
<1>5. Lines' = Lines
  BY <1>1, <1>3 DEF Lines
<1>6. FilesInv(p)'
  BY <1>1, <1>2, <1>5 DEF JournalInv, FilesInv, KeepsAccepted, NoWriter
<1>7. OrderInv(p)'
  <2>1. Pending(j) /\ phase \in [Job -> Phase]
    BY DEF FailWrite, JournalInv, OrderInv, Types
  <2>2. phase' = [phase EXCEPT ![j] = IF phase[j] = "starting" THEN "working" ELSE "closed"]
    BY <1>1 DEF Proceed
  <2>3. ASSUME NEW a \in 1 .. Len(accepted)
        PROVE  /\ phase'[accepted[a].job] \notin {"new", "starting"}
               /\ phase'[accepted[a].job] \in {"working", "done", "failed"} =>
                    accepted[a].status = "running"
    <3>1. accepted[a] \in Record
      BY ElementOfSeq DEF JournalInv, Types
    <3>2. accepted[a].job \in Job
      BY <3>1 DEF Record
    <3>3. QED
      BY <2>1, <2>2, <3>2, <1>1 DEF JournalInv, OrderInv
  <2>4. QED
    BY <1>1, <1>2, <2>3 DEF JournalInv, OrderInv, NoWriter
<1>8. QED
  BY <1>4, <1>5, <1>6, <1>7 DEF JournalInv

\* A process that dies leaves the journal as it was.
LEMMA DieInv ==
  ASSUME NEW p, Process = {p}, JournalInv(p), Die(p)
  PROVE  JournalInv(p)' /\ Lines' = Lines
<1>1. /\ PartWritten(p) /\ UNCHANGED <<path, temp, accepted>>
      /\ writer' = [writer EXCEPT ![p] = NoWriter]
  BY DEF Die
<1>2. writer'[p] = NoWriter /\ writer' \in [Process -> Writer]
  BY <1>1, WriterEdits DEF JournalInv, Types
<1>3. content' \in [Inode -> Seq(Record)] /\ (path # None => content'[path] = content[path])
  BY <1>1, PartWrittenFiles
<1>4. phase' \in [Job -> Phase] /\ \A j \in Job : phase'[j] \in {phase[j], "dead"}
  BY DEF Die, JournalInv, Types, Phase
<1>5. Types'
  BY <1>1, <1>2, <1>3, <1>4 DEF JournalInv, Types
<1>6. Lines' = Lines
  BY <1>1, <1>3 DEF Lines
<1>7. FilesInv(p)'
  BY <1>1, <1>2, <1>6 DEF JournalInv, FilesInv, KeepsAccepted, NoWriter
<1>8. OrderInv(p)'
  <2>1. ASSUME NEW a \in 1 .. Len(accepted)
        PROVE  accepted[a].job \in Job
    <3>1. accepted[a] \in Record
      BY ElementOfSeq DEF JournalInv, Types
    <3>2. QED
      BY <3>1 DEF Record
  <2>2. QED
    BY <1>1, <1>2, <1>4, <2>1 DEF JournalInv, OrderInv, NoWriter
<1>9. QED
  BY <1>5, <1>6, <1>7, <1>8 DEF JournalInv

-----------------------------------------------------------------------------
LEMMA JournalInitInv ==
  ASSUME NEW p, Process = {p}
  PROVE  JournalInit => JournalInv(p)
<1> SUFFICES ASSUME JournalInit PROVE JournalInv(p)
  OBVIOUS
<1>1. <<>> \in Seq(Record) /\ Len(<<>>) = 0
  BY EmptySeq
<1>2. NoWriter \in Writer
  BY <1>1 DEF NoWriter, Writer, Status
<1>3. Types
  BY <1>1, <1>2 DEF JournalInit, Types, Phase
<1>4. Newest(<<>>) = <<>>
  BY <1>1 DEF Newest, Log!Newest
<1>5. QED
  BY <1>1, <1>3, <1>4 DEF JournalInit, JournalInv, FilesInv, OrderInv, KeepsAccepted, Lines, NoWriter

\* Every step keeps the invariant, and the journal as it was or with one record more.
LEMMA JournalStep ==
  ASSUME NEW p, Process = {p}, EnoughInodes
  PROVE  JournalInv(p) /\ [JournalNext]_journalVars =>
           JournalInv(p)' /\ (Lines' = Lines \/ \E r \in Record : Log!Write(r))
<1> SUFFICES ASSUME JournalInv(p), [JournalNext]_journalVars
             PROVE  JournalInv(p)' /\ (Lines' = Lines \/ \E r \in Record : Log!Write(r))
  OBVIOUS
<1>1. ASSUME NEW j \in Job, Admit(p, j)
      PROVE  JournalInv(p)' /\ Lines' = Lines
  BY <1>1, AdmitInv DEF Admit, files, Lines
<1>2. ASSUME NEW j \in Job, Finish(j)
      PROVE  JournalInv(p)' /\ Lines' = Lines
  BY <1>2, FinishInv DEF Finish, files, Lines
<1>3. ASSUME NEW j \in Job, ReadJournal(p, j)
      PROVE  JournalInv(p)' /\ Lines' = Lines
  BY <1>3, ReadInv DEF ReadJournal, files, Lines
<1>4. CASE OpenTemp(p)
  BY <1>4, OpenInv
<1>5. CASE WriteTemp(p)
  BY <1>5, WriteInv
<1>6. CASE RenameTemp(p)
  <2>1. Adds(p) \in Record
    BY <1>6, AddsRecord DEF RenameTemp
  <2>2. JournalInv(p)' /\ Lines' = Newest(Append(Lines, Adds(p)))
    BY <1>6, RenameInv
  <2>3. QED
    BY <2>1, <2>2 DEF Log!Write, Newest
<1>7. CASE FailWrite(p)
  BY <1>7, FailInv
<1>8. CASE Die(p)
  BY <1>8, DieInv
<1>9. CASE UNCHANGED journalVars
  BY <1>9 DEF journalVars, files, JournalInv, Types, FilesInv, OrderInv, KeepsAccepted, Lines,
              Adds, Pending, StatusOf
<1>10. QED
  BY <1>1, <1>2, <1>3, <1>4, <1>5, <1>6, <1>7, <1>8, <1>9 DEF JournalNext

\* A suffix of a list in order is in order.
LEMMA NewestInOrder ==
  ASSUME NEW p, JournalInv(p)
  PROVE  RecordsInOrder
<1> DEFINE gap == Len(accepted) - Len(Lines)
<1>1. Lines = Newest(accepted) /\ accepted \in Seq(Record)
  BY DEF JournalInv, FilesInv, KeepsAccepted, Types
<1>2. /\ Len(accepted) \in Nat /\ Len(Lines) \in Nat /\ gap \in Nat
      /\ \A a \in 1 .. Len(Lines) : Lines[a] = accepted[a + Len(accepted) - Len(Lines)]
  <2>1. Len(Lines) = IF Retain > 0 /\ Len(accepted) > Retain THEN Retain ELSE Len(accepted)
    BY <1>1, NewestType
  <2>2. \A a \in 1 .. Len(Lines) : Lines[a] = accepted[a + Len(accepted) - Len(Lines)]
    BY <1>1, NewestType
  <2>3. Len(accepted) \in Nat
    BY <1>1
  <2>4. Len(Lines) \in Nat /\ Len(Lines) <= Len(accepted)
    BY <2>1, <2>3, RetainAssumption
  <2>5. QED
    BY <2>2, <2>3, <2>4
<1>3. ASSUME NEW a \in 1 .. Len(Lines)
      PROVE  a + gap \in 1 .. Len(accepted) /\ Lines[a] = accepted[a + gap]
  BY <1>2
<1>4. ASSUME NEW a \in 1 .. Len(Lines), NEW b \in 1 .. Len(Lines), a < b,
             Lines[a].job = Lines[b].job
      PROVE  Lines[a].status = "running" /\ Lines[b].status # "running"
  <2>1. a + gap \in 1 .. Len(accepted) /\ b + gap \in 1 .. Len(accepted) /\ a + gap < b + gap
    BY <1>2, <1>3, <1>4
  <2>2. accepted[a + gap].job = accepted[b + gap].job
    BY <1>3, <1>4
  <2> HIDE DEF gap
  <2>3. QED
    BY <1>3, <2>1, <2>2 DEF JournalInv, OrderInv
<1>5. QED
  BY <1>4 DEF RecordsInOrder

\* With one process the journal holds exactly the newest records whose Write succeeded, and
\* the records of a job are in order, whichever writes fail and whenever it dies
\* (KeepsAccepted, RecordsInOrder).
THEOREM JournalIsComplete ==
  ASSUME NEW p, Process = {p}, EnoughInodes
  PROVE  JournalSpec => [](KeepsAccepted /\ RecordsInOrder)
<1>1. JournalInit => JournalInv(p)
  BY JournalInitInv
<1>2. JournalInv(p) /\ [JournalNext]_journalVars => JournalInv(p)'
  BY JournalStep
<1>3. JournalInv(p) => KeepsAccepted /\ RecordsInOrder
  BY NewestInOrder DEF JournalInv, FilesInv
<1>4. QED
  BY <1>1, <1>2, <1>3, PTL DEF JournalSpec

\* With one process FileLog implements RetainedLog: a step of the code leaves the journal as
\* it was or adds one record and cuts (LogSpec).
THEOREM FileLogImplementsLog ==
  ASSUME NEW p, Process = {p}, EnoughInodes
  PROVE  JournalSpec => LogSpec
<1>1. JournalInit => JournalInv(p) /\ Log!Init
  BY JournalInitInv DEF JournalInit, Log!Init, Lines
<1>2. JournalInv(p) /\ [JournalNext]_journalVars => JournalInv(p)' /\ [Log!Next]_Lines
  BY JournalStep DEF Log!Next
<1>3. QED
  BY <1>1, <1>2, PTL DEF JournalSpec, LogSpec, Log!Spec
-----------------------------------------------------------------------------
(* The types, for any number of processes: here they are no bookkeeping,   *)
(* since a process writes to files that another one renames or removes.    *)

\* A new file can be made whatever the processes hold open.
SpareInode == \A fd \in [Process -> Inode \cup {None}] : \A i \in Inode \cup {None} :
                \E n \in Inode : n # i /\ \A p \in Process : fd[p] # n

\* A write in progress is of a job, and has a file from the time it has opened one.
WriterHolds(p) ==
  /\ writer[p].at # "free" => writer[p].job \in Job
  /\ writer[p].at \in {"write", "rename"} => writer[p].fd \in Inode
WritesHold == \A p \in Process : WriterHolds(p)

LEMMA RewriteType ==
  ASSUME NEW old \in Seq(Record), NEW new \in Seq(Record)
  PROVE  Overwrite(old, new) \subseteq Seq(Record)
<1> DEFINE rest == SubSeq(old, Len(new) + 1, Len(old))
<1>1. rest \in Seq(Record)
  OBVIOUS
<1>2. rest # <<>> => Tail(rest) \in Seq(Record)
  BY <1>1
<1> HIDE DEF rest
<1>3. /\ new \o rest \in Seq(Record)
      /\ new \o (IF rest = <<>> THEN rest ELSE Tail(rest)) \in Seq(Record)
  BY <1>1, <1>2
<1>4. Overwrite(old, new) = {new \o rest, new \o (IF rest = <<>> THEN rest ELSE Tail(rest))}
  BY DEF Overwrite, rest
<1>5. QED
  BY <1>3, <1>4

LEMMA PartType ==
  ASSUME JournalTypeOK, WritesHold, NEW p \in Process, PartWritten(p)
  PROVE  content' \in [Inode -> Seq(Record)]
<1>1. CASE writer[p].at = "write"
  <2>1. PICK n \in 0 .. Len(writer[p].lines) :
          \E after \in Overwrite(content[writer[p].fd], SubSeq(writer[p].lines, 1, n)) :
            content' = [content EXCEPT ![writer[p].fd] = after]
    BY <1>1 DEF PartWritten
  <2>2. /\ content[writer[p].fd] \in Seq(Record) /\ writer[p].fd \in Inode
        /\ SubSeq(writer[p].lines, 1, n) \in Seq(Record)
    BY <1>1 DEF JournalTypeOK, WritesHold, WriterHolds
  <2>3. PICK after \in Overwrite(content[writer[p].fd], SubSeq(writer[p].lines, 1, n)) :
          content' = [content EXCEPT ![writer[p].fd] = after]
    BY <2>1
  <2>4. after \in Seq(Record)
    BY <2>2, <2>3, RewriteType
  <2>5. QED
    BY <2>2, <2>3, <2>4 DEF JournalTypeOK
<1>2. CASE writer[p].at # "write"
  BY <1>2 DEF PartWritten, JournalTypeOK
<1>3. QED
  BY <1>1, <1>2

LEMMA TypesInit == JournalInit => JournalTypeOK /\ WritesHold
  BY DEF JournalInit, JournalTypeOK, WritesHold, WriterHolds, NoWriter, Phase

LEMMA TypesStep ==
  ASSUME SpareInode, JournalTypeOK, WritesHold, [JournalNext]_journalVars
  PROVE  JournalTypeOK' /\ WritesHold'
<1> USE DEF JournalTypeOK, WritesHold, WriterHolds
<1>1. ASSUME NEW p \in Process, NEW j \in Job, Admit(p, j)
      PROVE  JournalTypeOK' /\ WritesHold'
  BY <1>1 DEF Admit, files, Phase
<1>2. ASSUME NEW j \in Job, Finish(j)
      PROVE  JournalTypeOK' /\ WritesHold'
  BY <1>2 DEF Finish, files, Phase
<1>3. ASSUME NEW p \in Process, NEW j \in Job, ReadJournal(p, j)
      PROVE  JournalTypeOK' /\ WritesHold'
  <2> DEFINE r == [job |-> j, status |-> StatusOf(j)]
  <2>1. r \in Record /\ r.status \in {"running", "done", "failed"}
    BY <1>3 DEF ReadJournal, Pending, StatusOf, Record
  <2>2. Lines \in Seq(Record)
    <3>1. <<>> \in Seq(Record)
      OBVIOUS
    <3>2. QED
      BY <3>1 DEF Lines
  <2>3. Append(Lines, r) \in Seq(Record)
    BY <2>2, <2>1
  <2>4. Newest(Append(Lines, r)) \in Seq(Record)
    BY <2>3, NewestType
  <2>5. writer' = [writer EXCEPT ![p] = [at |-> "open", job |-> j, status |-> r.status,
                                         lines |-> Newest(Append(Lines, r)), fd |-> None]]
    BY <1>3 DEF ReadJournal
  <2> HIDE DEF r
  <2>6. QED
    BY <1>3, <2>1, <2>4, <2>5 DEF ReadJournal, files
<1>4. ASSUME NEW p \in Process, OpenTemp(p)
      PROVE  JournalTypeOK' /\ WritesHold'
  <2> DEFINE i == IF temp # None THEN temp ELSE CHOOSE n \in Inode : n \notin InUse
  <2>1. i \in Inode
    <3>1. CASE temp # None
      BY <3>1
    <3>2. CASE temp = None
      <4> DEFINE fd == [q \in Process |-> writer[q].fd]
      <4>1. fd \in [Process -> Inode \cup {None}]
        OBVIOUS
      <4>2. PICK n \in Inode : n # path /\ \A q \in Process : fd[q] # n
        BY <4>1 DEF SpareInode
      <4>3. n \notin InUse
        BY <4>2, <3>2, NoneIsNoInode DEF InUse
      <4>4. QED
        BY <4>3, <3>2
    <3>3. QED
      BY <3>1, <3>2
  <2>2. /\ temp' = i /\ content' = [content EXCEPT ![i] = <<>>]
        /\ writer' = [writer EXCEPT ![p].at = "write", ![p].fd = i]
        /\ writer[p].at = "open"
        /\ UNCHANGED <<phase, home, path, accepted>>
    BY <1>4 DEF OpenTemp
  <2> HIDE DEF i
  <2>3. <<>> \in Seq(Record)
    OBVIOUS
  <2>4. content' \in [Inode -> Seq(Record)]
    BY <2>1, <2>2, <2>3
  <2>5. writer' \in [Process -> Writer]
    <3>1. writer \in [Process -> Writer]
      BY Zenon DEF Writer, Status
    <3>2. [writer[p] EXCEPT !.at = "write", !.fd = i] \in Writer
      BY <2>1, <3>1 DEF Writer
    <3>3. writer' = [writer EXCEPT ![p] = [writer[p] EXCEPT !.at = "write", !.fd = i]]
      BY <2>2, <3>1 DEF Writer
    <3>4. QED
      BY <3>1, <3>2, <3>3
  <2>6. WritesHold'
    BY <2>1, <2>2
  <2>7. JournalTypeOK'
    BY <2>1, <2>2, <2>4, <2>5 DEF Writer, Status
  <2>8. QED
    BY <2>6, <2>7
<1>5. ASSUME NEW p \in Process, WriteTemp(p)
      PROVE  JournalTypeOK' /\ WritesHold'
  <2>1. /\ content[writer[p].fd] \in Seq(Record) /\ writer[p].lines \in Seq(Record)
        /\ writer[p].fd \in Inode
    BY <1>5 DEF WriteTemp
  <2>2. PICK after \in Overwrite(content[writer[p].fd], writer[p].lines) :
          content' = [content EXCEPT ![writer[p].fd] = after]
    BY <1>5 DEF WriteTemp
  <2>3. after \in Seq(Record)
    BY <2>1, <2>2, RewriteType
  <2>4. content' \in [Inode -> Seq(Record)]
    BY <2>1, <2>2, <2>3
  <2>5. /\ writer' = [writer EXCEPT ![p].at = "rename"] /\ writer[p].at = "write"
        /\ UNCHANGED <<phase, home, path, temp, accepted>>
    BY <1>5 DEF WriteTemp
  <2>6. writer' \in [Process -> Writer]
    <3>1. writer \in [Process -> Writer]
      BY Zenon DEF Writer, Status
    <3>2. [writer[p] EXCEPT !.at = "rename"] \in Writer
      BY <3>1 DEF Writer
    <3>3. writer' = [writer EXCEPT ![p] = [writer[p] EXCEPT !.at = "rename"]]
      BY <2>5, <3>1
    <3>4. QED
      BY <3>1, <3>2, <3>3
  <2>7. WritesHold'
    BY <2>5
  <2>8. JournalTypeOK'
    BY <2>4, <2>5, <2>6 DEF Writer, Status
  <2>9. QED
    BY <2>7, <2>8
<1>6. ASSUME NEW p \in Process, RenameTemp(p)
      PROVE  JournalTypeOK' /\ WritesHold'
  <2>1. Adds(p) \in Record
    BY <1>6 DEF RenameTemp, Adds, Record
  <2>2. accepted' \in Seq(Record)
    BY <1>6, <2>1 DEF RenameTemp, Adds
  <2>3. QED
    BY <1>6, <2>2 DEF RenameTemp, Proceed, Phase, NoWriter
<1>7. ASSUME NEW p \in Process, FailWrite(p)
      PROVE  JournalTypeOK' /\ WritesHold'
  <2>1. content' \in [Inode -> Seq(Record)]
    BY <1>7, PartType DEF FailWrite
  <2>2. QED
    BY <1>7, <2>1 DEF FailWrite, Proceed, Phase, NoWriter
<1>8. ASSUME NEW p \in Process, Die(p)
      PROVE  JournalTypeOK' /\ WritesHold'
  <2>1. content' \in [Inode -> Seq(Record)]
    BY <1>8, PartType DEF Die
  <2>2. QED
    BY <1>8, <2>1 DEF Die, Phase, NoWriter
<1>9. CASE UNCHANGED journalVars
  BY <1>9 DEF journalVars
<1>10. QED
  BY <1>1, <1>2, <1>3, <1>4, <1>5, <1>6, <1>7, <1>8, <1>9 DEF JournalNext

\* For any number of processes, whichever of their writes fail and whichever of them die, every
\* file holds records and nothing else, and a write in progress has a job and, once it has
\* opened one, a file, although another process may have renamed or removed it.
THEOREM JournalTypes == SpareInode /\ JournalSpec => [](JournalTypeOK /\ WritesHold)
<1> SUFFICES ASSUME SpareInode PROVE JournalSpec => [](JournalTypeOK /\ WritesHold)
  OBVIOUS
<1>1. JournalTypeOK /\ WritesHold /\ [JournalNext]_journalVars => (JournalTypeOK /\ WritesHold)'
  BY TypesStep
<1>2. QED
  BY <1>1, TypesInit, PTL DEF JournalSpec
=============================================================================
