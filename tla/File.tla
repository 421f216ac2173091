-------------------------------- MODULE File --------------------------------
(***************************************************************************)
(* Files and byte streams: File (futures/fs.rs), AsyncReader and           *)
(* AsyncWriter (futures/read.rs, write.rs), which TcpStream uses too.      *)
(*                                                                         *)
(* A queue entry names its file by descriptor number; the kernel looks the *)
(* number up when react() submits the entry.  A future borrows its File,   *)
(* so the number is valid while the future lives; a dropped future leaves  *)
(* its entry behind and the File may be closed and the number taken by     *)
(* another descriptor before the entry is submitted.                       *)
(*                                                                         *)
(* One path, `node`, stands for the file system.  A future is created and  *)
(* first polled in one step: before that it has no effect.  Contents are   *)
(* lengths and offsets.                                                    *)
(***************************************************************************)
EXTENDS Integers, Sequences, FiniteSetsExt, FileParams

VARIABLES
  node, size,       \* what the path leads to, and how long it is
  fdtab,            \* the descriptor table: the open description of each number
  desc,             \* per open description: kind and position
  file,             \* the number each File or stream owns, or NoFd
  told,             \* history: the position of each that its results imply
  req,              \* the operation of each future
  fut, op, ans, out \* their handles

port == <<fut, op, ans, out>>
vars == <<node, size, fdtab, desc, file, told, req, port>>

Handles == Opens \cup Rws
Descs == Opens \cup Socks

\* The answer of an operation that fails, whatever the reason.
Failed == -1

Io == INSTANCE IoPort WITH Answers <- {Failed} \cup Fds \cup 0..MaxSize

NoFd == -1
NoDesc == "none"         \* a free number; an entry whose number was free
Kinds == {"open", "create", "mkdir", "read", "write"}

\* want: length of the buffer; len: length passed to the kernel; target: the
\* description the kernel found; eof: it had nothing more to read.
Request(kind, of, num, want, len, seekable) ==
  [kind |-> kind, of |-> of, num |-> num, want |-> want, len |-> len,
   seekable |-> seekable, target |-> NoDesc, eof |-> FALSE]
NoRequest(h) == Request("open", h, NoFd, 0, 0, FALSE)

TypeOK ==
  /\ Io!TypeOK
  /\ node \in {"none", "file", "dir"} /\ size \in 0..MaxSize
  /\ fdtab \in [Fds -> Descs \cup {NoDesc}]
  /\ desc \in [Descs -> [kind : {"none", "file", "stream"}, pos : 0..MaxSize]]
  /\ file \in [Descs -> Fds \cup {NoFd}]
  /\ told \in [Descs -> 0..MaxSize]
  /\ \A h \in Handles : req[h].kind \in Kinds /\ req[h].target \in Descs \cup {NoDesc}

Init ==
  /\ node \in {"none", "file", "dir"}
  /\ size \in IF node = "file" THEN 0..MaxSize ELSE {0}
  /\ fdtab = [n \in Fds |-> NoDesc]
  /\ desc = [f \in Descs |-> [kind |-> "none", pos |-> 0]]
  /\ file = [f \in Descs |-> NoFd]
  /\ told = [f \in Descs |-> 0]
  /\ req = [h \in Handles |-> NoRequest(h)]
  /\ Io!Init

-----------------------------------------------------------------------------
(***************************************************************************)
(* The program.                                                            *)
(***************************************************************************)
\* File::open, File::create, File::mkdir and the first poll.
StartOpen(h, kind) ==
  /\ Io!Submit(h)
  /\ req' = [req EXCEPT ![h].kind = kind]
  /\ UNCHANGED <<node, size, fdtab, desc, file, told>>

\* A future holds the borrow of File f.
Borrowed(f) == \E r \in Rws : req[r].of = f /\ fut[r] = "Submitted"
Idle(f) == file[f] # NoFd /\ ~Borrowed(f)

\* Mutant: files are read and written at the offset given for streams.
StartRw_AtZero(r, kind, f, len) ==
  /\ Idle(f)
  /\ Io!Submit(r)
  /\ req' = [req EXCEPT ![r] = Request(kind, f, file[f], len, len % LenMod, FALSE)]
  /\ UNCHANGED <<node, size, fdtab, desc, file, told>>

\* Mutant: the length is cut to half the width.
StartRw_CutShort(r, kind, f, len) ==
  /\ Idle(f)
  /\ Io!Submit(r)
  /\ req' = [req EXCEPT ![r] =
               Request(kind, f, file[f], len, len % (LenMod \div 2), desc[f].kind = "file")]
  /\ UNCHANGED <<node, size, fdtab, desc, file, told>>

\* read() and write() and the first poll: the length is cut to 32 bits, and a
\* file asks for its own position (offset u64::MAX).
StartRw(r, kind, f, len) ==
  /\ Idle(f)
  /\ Io!Submit(r)
  /\ req' = [req EXCEPT ![r] =
               Request(kind, f, file[f], len, len % LenMod, desc[f].kind = "file")]
  /\ UNCHANGED <<node, size, fdtab, desc, file, told>>

\* A poll of FileOpen or Mkdir is Ready: a descriptor becomes a File.
TakeOpen(h) ==
  /\ Io!Take(h)
  /\ file' = [file EXCEPT ![h] = IF req[h].kind # "mkdir" /\ ans[h][1] >= 0
                                 THEN ans[h][1] ELSE NoFd]
  /\ UNCHANGED <<node, size, fdtab, desc, told, req>>

\* Mutant: an error is counted as a number of bytes.
TakeRw_Unchecked(r) ==
  /\ Io!Take(r)
  /\ told' = [told EXCEPT ![req[r].of] = @ + ans[r][1]]
  /\ UNCHANGED <<node, size, fdtab, desc, file, req>>

TakeRw(r) ==
  /\ Io!Take(r)
  /\ told' = [told EXCEPT ![req[r].of] =
                IF ans[r][1] >= 0 THEN @ + ans[r][1] ELSE @]
  /\ UNCHANGED <<node, size, fdtab, desc, file, req>>

DropFuture(h) ==
  /\ fut[h] = "Submitted"
  /\ Io!Drop(h)
  /\ UNCHANGED <<node, size, fdtab, desc, file, told, req>>

\* Seek for File: lseek() on the number, with an offset from the start, the end
\* or the current position.  An unsigned Start offset above i64::MAX is cast to a
\* negative one.
seek(f, base, off) ==
  /\ Idle(f) /\ desc[f].kind = "file"
  /\ LET from == CASE base = "Start" -> 0 [] base = "End" -> size
                   [] base = "Current" -> desc[fdtab[file[f]]].pos
     IN  IF from + off \in 0..MaxSize
         THEN /\ desc' = [desc EXCEPT ![fdtab[file[f]]].pos = from + off]
              /\ told' = [told EXCEPT ![f] = from + off]
         ELSE /\ from + off < 0        \* lseek() returns -1
              /\ UNCHANGED <<desc, told>>
  /\ UNCHANGED <<node, size, fdtab, file, req, port>>

\* Mutant: the File may go while a future on it lives.
Close_Borrowed(f) ==
  /\ file[f] # NoFd
  /\ fdtab' = [fdtab EXCEPT ![file[f]] = NoDesc]
  /\ file' = [file EXCEPT ![f] = NoFd]
  /\ UNCHANGED <<node, size, desc, told, req, port>>

\* Mutant: the number is forgotten instead of closed.
Close_Leaks(f) ==
  /\ Idle(f)
  /\ file' = [file EXCEPT ![f] = NoFd]
  /\ UNCHANGED <<node, size, fdtab, desc, told, req, port>>

\* Drop of a File: OwnedFd closes the number.
Close(f) ==
  /\ Idle(f)
  /\ fdtab' = [fdtab EXCEPT ![file[f]] = NoDesc]
  /\ file' = [file EXCEPT ![f] = NoFd]
  /\ UNCHANGED <<node, size, desc, told, req, port>>

\* The kernel gives out the lowest free number.
Free == {n \in Fds : fdtab[n] = NoDesc}
Install(f, kind) ==
  /\ fdtab' = [fdtab EXCEPT ![Min(Free)] = f]
  /\ desc' = [desc EXCEPT ![f] = [kind |-> kind, pos |-> 0]]

\* Another call of the thread makes a descriptor at once, without the ring: a
\* socket, whose stream is then read and written like a File.
Socket(f) ==
  /\ desc[f].kind = "none" /\ Free # {}
  /\ Install(f, "stream")
  /\ file' = [file EXCEPT ![f] = Min(Free)]
  /\ UNCHANGED <<node, size, told, req, port>>

-----------------------------------------------------------------------------
(***************************************************************************)
(* The kernel.                                                             *)
(***************************************************************************)
\* react() submits the queue: numbers become open descriptions.
Enter ==
  /\ Io!Queued # {}
  /\ Io!Enter
  /\ req' = [h \in Handles |->
               IF op[h] = "queued" /\ h \in Rws /\ fdtab[req[h].num] # NoDesc
               THEN [req[h] EXCEPT !.target = fdtab[req[h].num]] ELSE req[h]]
  /\ UNCHANGED <<node, size, fdtab, desc, file, told>>

\* O_RDWR opens a file that exists, with O_CREAT also one that does not, and no
\* directory.  Any open may fail: numbers are scarce and permissions denied.
KernelOpen(h) ==
  /\ req[h].kind \in {"open", "create"}
  /\ \/ /\ node = "file" \/ (node = "none" /\ req[h].kind = "create")
        /\ Free # {}
        /\ Io!Answer(h, Min(Free))
        /\ Install(h, "file")
        /\ node' = "file"
     \/ /\ Io!Answer(h, Failed)
        /\ UNCHANGED <<fdtab, desc, node>>
  /\ UNCHANGED <<size, file, told, req>>

KernelMkdir(h) ==
  /\ req[h].kind = "mkdir"
  /\ \/ node = "none" /\ node' = "dir" /\ Io!Answer(h, 0)
     \/ Io!Answer(h, Failed) /\ UNCHANGED node
  /\ UNCHANGED <<size, fdtab, desc, file, told, req>>

\* Bytes that a read or write of r moves: at least one if one can be moved.
Moved(len, room) == IF len = 0 \/ room = 0 THEN {0} ELSE 1..Min({len, room})

\* Where r's operation starts in its file, and what is left there up to `end`.  A
\* stream ignores the offset; its position is the number of bytes exchanged.
Positioned(r) == req[r].seekable \/ desc[req[r].target].kind = "stream"
Start(r) == IF Positioned(r) THEN desc[req[r].target].pos ELSE 0
Room(r, end) == Max({0, end - Start(r)})
Advance(r, n) ==
  desc' = IF Positioned(r) THEN [desc EXCEPT ![req[r].target].pos = @ + n] ELSE desc

\* An entry whose number was free when it was submitted.
KernelBadFd(r) ==
  /\ r \in Rws /\ req[r].target = NoDesc
  /\ Io!Answer(r, Failed)
  /\ UNCHANGED <<node, size, fdtab, desc, file, told, req>>

\* Streams carry MaxSize bytes.
KernelRead(r) ==
  /\ req[r].kind = "read" /\ req[r].target # NoDesc
  /\ LET room == Room(r, IF desc[req[r].target].kind = "stream" THEN MaxSize ELSE size)
     IN  /\ \E n \in Moved(req[r].len, room) : Io!Answer(r, n) /\ Advance(r, n)
         /\ req' = [req EXCEPT ![r].eof = (room = 0)]
  /\ UNCHANGED <<node, size, fdtab, file, told>>

KernelWrite(r) ==
  /\ req[r].kind = "write" /\ req[r].target # NoDesc
  /\ LET room == Room(r, MaxSize)
     IN  IF req[r].len > 0 /\ room = 0
         THEN Io!Answer(r, Failed) /\ UNCHANGED <<desc, size>>
         ELSE \E n \in Moved(req[r].len, room) :
                /\ Io!Answer(r, n) /\ Advance(r, n)
                /\ size' = IF n = 0 \/ desc[req[r].target].kind = "stream" THEN size
                           ELSE Max({size, Start(r) + n})
  /\ UNCHANGED <<node, fdtab, file, told, req>>

Next ==
  \/ \E h \in Opens : \/ \E kind \in {"open", "create", "mkdir"} : StartOpen(h, kind)
                      \/ TakeOpen(h) \/ KernelOpen(h) \/ KernelMkdir(h)
  \/ \E f \in Descs : \/ Close(f)
                      \/ \E base \in {"Start", "End", "Current"}, off \in -1..1 :
                           seek(f, base, off)
  \/ \E f \in Socks : Socket(f)
  \/ \E r \in Rws : \/ \E kind \in {"read", "write"}, f \in Descs, len \in Lens :
                         StartRw(r, kind, f, len)
                    \/ TakeRw(r) \/ KernelBadFd(r) \/ KernelRead(r) \/ KernelWrite(r)
  \/ \E h \in Handles : DropFuture(h)
  \/ Enter

Spec == Init /\ [][Next]_vars

-----------------------------------------------------------------------------
(***************************************************************************)
(* Properties.                                                             *)
(***************************************************************************)
\* The position a program works out from what read(), write() and seek() return
\* is the kernel's position of its file, except after a future was dropped and
\* its operation reached the file all the same (read.rs:56, fs.rs:194-210).
OffsetAccounted ==
  \A f \in Descs :
    /\ file[f] # NoFd
    /\ \A r \in Rws : req[r].target = f => fut[r] = "Finished"
    => desc[f].pos = told[f]

\* The operation of a future that lives meets the file the future was made from,
\* never a number that was closed or given to another descriptor: the borrow in
\* AsyncReader and AsyncWriter outlasts the queue entry (read.rs:35-40, 52).
LiveOpsOwnFile ==
  \A r \in Rws :
    fut[r] = "Submitted" /\ op[r] \in {"kernel", "done"} => req[r].target = req[r].of

\* Each File owns a number of its own until it is dropped, and every number in
\* use has one owner or is on its way to the future that opened it; only a
\* dropped FileOpen leaves its number behind (fs.rs:102-106).
DescriptorsOwned ==
  /\ \A f \in Descs : file[f] # NoFd => fdtab[file[f]] = f
  /\ \A n \in Fds : \A f \in Descs :
       fdtab[n] = f => \/ file[f] = n
                       \/ f \in Opens /\ ans[f] = <<n>> /\ fut[f] \in {"Submitted", "Gone"}

\* A read into a buffer of 1 to 2^32 - 1 bytes returns Ok(0) only at the end of
\* the file, which is how callers recognise it (tcp.rs:22-25, read.rs:54).
ZeroMeansEof ==
  \A r \in Rws :
    fut[r] = "Finished" /\ req[r].kind = "read" /\ ans[r] = <<0>>
      => req[r].eof \/ req[r].want % LenMod = 0

=============================================================================
