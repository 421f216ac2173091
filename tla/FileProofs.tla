----------------------------- MODULE FileProofs -----------------------------
(***************************************************************************)
(* Proofs about files and streams, for any files, futures, descriptor      *)
(* numbers and lengths: a live operation meets its own file, numbers have  *)
(* owners, the results of reads and writes add up to the position of the   *)
(* file, and Ok(0) means the end.                                          *)
(***************************************************************************)
EXTENDS File, WellFoundedInduction, TLAPS

\* What the kernel answers, and what a queue entry asks for.
Answers == {Failed} \cup Fds \cup 0..MaxSize
Requests ==
  [kind : Kinds, of : Handles \cup Descs, num : Fds \cup {NoFd}, want : Nat, len : Nat,
   seekable : BOOLEAN, target : Descs \cup {NoDesc}, eof : BOOLEAN]

\* TypeOK with the requests, the answers and the results typed in full.
PortTyped ==
  /\ fut \in [Handles -> {"New", "Submitted", "Finished", "Gone"}]
  /\ op \in [Handles -> {"none", "queued", "kernel", "done"}]
  /\ ans \in [Handles -> {<<>>} \cup {<<v>> : v \in Answers}]
  /\ out \in [Handles -> {<<>>} \cup {<<Io!ToResult(v)>> : v \in Answers}]
StateTyped ==
  /\ node \in {"none", "file", "dir"} /\ size \in 0..MaxSize
  /\ fdtab \in [Fds -> Descs \cup {NoDesc}]
  /\ desc \in [Descs -> [kind : {"none", "file", "stream"}, pos : 0..MaxSize]]
  /\ file \in [Descs -> Fds \cup {NoFd}]
  /\ told \in [Descs -> 0..MaxSize]
  /\ req \in [Handles -> Requests]

\* How the states of a handle and of its operation go together.
PortOrder ==
  \A h \in Handles :
    /\ fut[h] = "New" <=> op[h] = "none"
    /\ op[h] = "done" <=> ans[h] # <<>>
    /\ fut[h] = "Finished" => op[h] = "done"

\* A number leads to its File from the answer of open() on; a File that has not
\* been opened has no description.
Numbers ==
  /\ DescriptorsOwned
  /\ \A f \in Opens :
       /\ file[f] # NoFd => fut[f] = "Finished"
       /\ op[f] # "done" => desc[f].kind = "none"
       /\ op[f] = "done" /\ fut[f] # "Finished" /\ req[f].kind # "mkdir" /\ ans[f][1] >= 0 =>
            ans[f][1] \in Fds /\ fdtab[ans[f][1]] = f
  /\ \A n \in Fds :
       /\ fdtab[n] # NoDesc => desc[fdtab[n]].kind # "none"
       /\ fdtab[n] \in Opens => req[fdtab[n]].kind # "mkdir"

\* A live read or write holds the only borrow of its File, which keeps its number.
Borrows ==
  /\ \A r \in Rws :
       /\ fut[r] = "Submitted" => /\ file[req[r].of] = req[r].num
                                  /\ req[r].seekable <=> desc[req[r].of].kind = "file"
                                  /\ op[r] # "queued" => req[r].target = req[r].of
       /\ fut[r] # "New" => /\ req[r].of \in Descs /\ desc[req[r].of].kind # "none"
                            /\ req[r].num # NoFd
                            /\ req[r].kind \in {"read", "write"}
                            /\ req[r].len = req[r].want % LenMod
       /\ op[r] \in {"none", "queued"} => req[r].target = NoDesc
       /\ req[r].target # NoDesc => desc[req[r].target].kind # "none"
  /\ \A r, s \in Rws :
       fut[r] = "Submitted" /\ fut[s] = "Submitted" /\ req[r].of = req[s].of => r = s

\* A live read or write of f that is answered and not looked at, and what it adds.
Unread(r, f) == fut[r] = "Submitted" /\ op[r] = "done" /\ req[r].of = f
Gain(r) == IF ans[r][1] >= 0 THEN ans[r][1] ELSE 0

\* No dropped future's operation has reached f.
Undisturbed(f) == \A r \in Rws : req[r].target = f => fut[r] # "Gone"

\* Results add up to the position of the file, or to less if dropped futures moved
\* it too.
Ledger ==
  \A f \in Descs :
    /\ desc[f].kind = "none" => told[f] = 0
    /\ told[f] <= desc[f].pos
    /\ \A r \in Rws : Unread(r, f) => told[f] + Gain(r) <= desc[f].pos
    /\ Undisturbed(f) =>
         /\ \A r \in Rws : Unread(r, f) => desc[f].pos = told[f] + Gain(r)
         /\ (\A r \in Rws : ~Unread(r, f)) => desc[f].pos = told[f]

\* Nothing is read only at the end, or if nothing was asked for.
NothingRead ==
  \A r \in Rws : req[r].kind = "read" /\ ans[r] = <<0>> => req[r].eof \/ req[r].len = 0

\* The inductive invariant.
IInv ==
  /\ PortTyped /\ StateTyped
  /\ PortOrder
  /\ Numbers
  /\ Borrows
  /\ Ledger
  /\ NothingRead

-----------------------------------------------------------------------------
\* Every non-empty set of numbers has a least one, so Min is in the set.
Less == {p \in Nat \X Nat : p[1] < p[2]}

\* The order of the natural numbers is well founded.
LEMMA LessWellFounded == IsWellFoundedOn(Less, Nat)
  BY NatLessThanWellFounded, Zenon DEF OpToRel, Less

\* The kernel finds a lowest free number if there is a free one.
LEMMA MinInSet == ASSUME NEW S, S \subseteq Nat, S # {} PROVE Min(S) \in S
<1>1. PICK x \in S : \A y \in S : <<y, x>> \notin Less
  BY WFMin, LessWellFounded
<1>2. ASSUME NEW y \in S PROVE x <= y
  <2>1. x \in Nat /\ y \in Nat
    OBVIOUS
  <2>2. y < x => <<y, x>> \in Less
    BY <2>1 DEF Less
  <2> QED
    BY <1>1, <2>1, <2>2
<1> QED
  BY <1>2 DEF Min

\* Min and Max of two numbers.
LEMMA MinMaxPair ==
  ASSUME NEW a \in Int, NEW b \in Int
  PROVE  /\ Min({a, b}) = (IF a <= b THEN a ELSE b)
         /\ Max({a, b}) = (IF a >= b THEN a ELSE b)
<1>1. \E x \in {a, b} : \A y \in {a, b} : x <= y
  OBVIOUS
<1>2. \E x \in {a, b} : \A y \in {a, b} : x >= y
  OBVIOUS
<1>3. Min({a, b}) \in {a, b} /\ \A y \in {a, b} : Min({a, b}) <= y
  BY <1>1 DEF Min
<1>4. Max({a, b}) \in {a, b} /\ \A y \in {a, b} : Max({a, b}) >= y
  BY <1>2 DEF Max
<1> QED
  BY <1>3, <1>4

\* A step of one handle, or react(), keeps its state and its operation in step.
LEMMA PortSteps ==
  ASSUME PortTyped, PortOrder,
         \/ Io!Enter
         \/ \E h \in Handles : \/ Io!Submit(h) \/ Io!Take(h)
                               \/ fut[h] = "Submitted" /\ Io!Drop(h)
                               \/ \E v \in Answers : Io!Answer(h, v)
         \/ UNCHANGED port
  PROVE  PortTyped' /\ PortOrder'
<1> USE DEF PortTyped, PortOrder
<1>1. CASE Io!Enter
  BY <1>1 DEF Io!Enter
<1>2. ASSUME NEW h \in Handles, Io!Submit(h) PROVE PortTyped' /\ PortOrder'
  BY <1>2 DEF Io!Submit
<1>3. ASSUME NEW h \in Handles, Io!Take(h) PROVE PortTyped' /\ PortOrder'
  <2>1. PICK v \in Answers : ans[h] = <<v>>
    BY <1>3 DEF Io!Take
  <2>2. out' = [out EXCEPT ![h] = <<Io!ToResult(v)>>]
    BY <1>3, <2>1 DEF Io!Take
  <2>3. UNCHANGED <<op, ans>> /\ fut' = [fut EXCEPT ![h] = "Finished"] /\ op[h] = "done"
        /\ fut[h] = "Submitted"
    BY <1>3 DEF Io!Take
  <2> QED
    BY <2>2, <2>3
<1>4. ASSUME NEW h \in Handles, fut[h] = "Submitted", Io!Drop(h) PROVE PortTyped' /\ PortOrder'
  BY <1>4 DEF Io!Drop
<1>5. ASSUME NEW h \in Handles, NEW v \in Answers, Io!Answer(h, v)
      PROVE  PortTyped' /\ PortOrder'
  BY <1>5 DEF Io!Answer
<1>6. CASE UNCHANGED port
  BY <1>6 DEF port
<1> QED
  BY <1>1, <1>2, <1>3, <1>4, <1>5, <1>6

\* What the steps change in a request.
LEMMA RequestEdits ==
  ASSUME NEW q \in Requests, NEW k \in Kinds, NEW f \in Descs, NEW b \in BOOLEAN
  PROVE  /\ [q EXCEPT !.kind = k] \in Requests
         /\ [q EXCEPT !.target = f] \in Requests
         /\ [q EXCEPT !.eof = b] \in Requests
  BY DEF Requests

\* Steps that move no number and answer no open().
LEMMA NumbersFrame ==
  ASSUME Numbers, UNCHANGED <<fdtab, file>>,
         \A f \in Descs : desc'[f].kind = desc[f].kind,
         \A f \in Opens :
           /\ ans'[f] = ans[f] /\ req'[f].kind = req[f].kind
           /\ op'[f] = "done" <=> op[f] = "done"
           /\ fut'[f] = "Finished" <=> fut[f] = "Finished"
           /\ fut[f] \in {"Submitted", "Gone"} => fut'[f] \in {"Submitted", "Gone"},
         fdtab \in [Fds -> Descs \cup {NoDesc}]
  PROVE  Numbers'
<1>1. DescriptorsOwned'
  BY DEF Numbers, DescriptorsOwned
<1>2. \A f \in Opens : f \in Descs
  BY DEF Descs
<1> QED
  BY <1>1, <1>2 DEF Numbers

\* Steps that leave reads and writes, and the Files they borrow, alone.
LEMMA RwFrame ==
  ASSUME IInv, told' = told,
         \A r \in Rws : fut'[r] = fut[r] /\ op'[r] = op[r] /\ ans'[r] = ans[r] /\ req'[r] = req[r],
         \A r \in Rws : fut[r] = "Submitted" => file'[req[r].of] = file[req[r].of],
         \A f \in Descs : \/ desc'[f] = desc[f]
                          \/ /\ desc[f].kind = "none" /\ desc'[f].kind # "none"
                             /\ desc'[f].pos = 0
  PROVE  Borrows' /\ Ledger' /\ NothingRead'
<1> USE DEF IInv
<1>1. NothingRead'
  BY DEF NothingRead
<1>2. \A r \in Rws : r \in Handles /\ req[r].target \in Descs \cup {NoDesc}
  BY DEF StateTyped, Requests, Handles
<1>3. \A f \in Descs : desc[f].kind # "none" => desc'[f] = desc[f]
  OBVIOUS
<1>4. \A r \in Rws : fut[r] # "New" => req[r].of \in Descs /\ desc'[req[r].of] = desc[req[r].of]
  BY <1>3 DEF Borrows
<1>5. \A r \in Rws : req[r].target # NoDesc => desc'[req[r].target] = desc[req[r].target]
  BY <1>2, <1>3 DEF Borrows
<1>6. Borrows'
  BY <1>4, <1>5 DEF Borrows
<1>7. ASSUME NEW f \in Descs, desc'[f] # desc[f]
      PROVE  told[f] = 0 /\ desc'[f].pos = 0 /\ \A r \in Rws : ~Unread(r, f)
  BY <1>4, <1>7 DEF Ledger, Unread
<1>8. \A r \in Rws, f \in Descs : /\ Unread(r, f)' <=> Unread(r, f)
                                  /\ Gain(r)' = Gain(r)
  BY DEF Unread, Gain
<1>9. \A f \in Descs : Undisturbed(f)' <=> Undisturbed(f)
  BY DEF Undisturbed
<1>10. Ledger'
  BY <1>7, <1>8, <1>9 DEF Ledger
<1> QED
  BY <1>1, <1>6, <1>10

-----------------------------------------------------------------------------
\* A future of open() is not one of read().
LEMMA Kinds2 ==
  ASSUME NEW h \in Opens
  PROVE  /\ h \in Handles /\ h \in Descs /\ h \notin Rws /\ h \notin Socks /\ h # NoDesc
         /\ \A r \in Rws : r \in Handles /\ r # h
  BY FileAssumption DEF Handles, Descs, NoDesc

\* open(), create() and mkdir() are polled for the first time.
LEMMA StartOpenIInv ==
  ASSUME IInv, NEW h \in Opens, NEW k \in {"open", "create", "mkdir"}, StartOpen(h, k)
  PROVE  IInv'
<1> USE Kinds2 DEF IInv
<1>1. PortTyped' /\ PortOrder'
  BY PortSteps DEF StartOpen
<1>2. StateTyped'
  <2>1. req' \in [Handles -> Requests]
    <3>1. req' = [req EXCEPT ![h] = [req[h] EXCEPT !.kind = k]]
      BY DEF StartOpen
    <3>2. req[h] \in Requests /\ k \in Kinds
      BY DEF StateTyped, Kinds
    <3>3. [req[h] EXCEPT !.kind = k] \in Requests
      BY <3>2, RequestEdits
    <3> QED
      BY <3>1, <3>3 DEF StateTyped
  <2> QED
    BY <2>1 DEF StateTyped, StartOpen
<1>3. /\ UNCHANGED <<fdtab, desc, file, told, ans>>
      /\ \A g \in Handles : g # h => fut'[g] = fut[g] /\ op'[g] = op[g] /\ req'[g] = req[g]
      /\ fut[h] = "New" /\ op[h] = "none" /\ ans[h] = <<>> /\ op'[h] = "queued"
      /\ fut'[h] = "Submitted"
  BY DEF StartOpen, Io!Submit, PortTyped, StateTyped, PortOrder
<1>4. Borrows' /\ Ledger' /\ NothingRead'
  BY <1>3, RwFrame
<1>5. file[h] = NoFd /\ \A n \in Fds : fdtab[n] # h
  <2>1. file[h] = NoFd
    BY <1>3 DEF Numbers
  <2>2. \A n \in Fds : n # NoFd /\ ans[h] # <<n>>
    BY <1>3, FileAssumption DEF NoFd
  <2> QED
    BY <2>1, <2>2 DEF Numbers, DescriptorsOwned
<1>6. \A g \in Opens : g \in Handles /\ g \in Descs
  BY DEF Handles, Descs
<1>7. Numbers'
  <2>1. DescriptorsOwned'
    BY <1>3, <1>5, <1>6, SMTT(30) DEF Numbers, DescriptorsOwned
  <2>2. ASSUME NEW f \in Opens
        PROVE  /\ file[f] # NoFd => fut'[f] = "Finished"
               /\ op'[f] # "done" => desc[f].kind = "none"
               /\ op'[f] = "done" /\ fut'[f] # "Finished" /\ req'[f].kind # "mkdir"
                  /\ ans[f][1] >= 0 => ans[f][1] \in Fds /\ fdtab[ans[f][1]] = f
    BY <1>3, <1>5, <1>6 DEF Numbers
  <2>3. \A n \in Fds : fdtab[n] \in Opens => req'[fdtab[n]].kind # "mkdir"
    BY <1>3, <1>5, <1>6 DEF Numbers
  <2>4. \A n \in Fds : fdtab[n] # NoDesc => desc[fdtab[n]].kind # "none"
    BY DEF Numbers
  <2> QED
    BY <1>3, <2>1, <2>2, <2>3, <2>4 DEF Numbers
<1> QED
  BY <1>1, <1>2, <1>4, <1>7

\* Its result is taken: the number answered becomes that of the File.
LEMMA TakeOpenIInv == ASSUME IInv, NEW h \in Opens, TakeOpen(h) PROVE IInv'
<1> USE Kinds2 DEF IInv
<1>1. PortTyped' /\ PortOrder'
  BY PortSteps DEF TakeOpen
<1>2. /\ UNCHANGED <<node, size, fdtab, desc, told, req, op, ans>>
      /\ \A g \in Handles : g # h => fut'[g] = fut[g]
      /\ fut[h] = "Submitted" /\ op[h] = "done" /\ fut'[h] = "Finished"
  BY DEF TakeOpen, Io!Take, PortTyped
<1> DEFINE num == IF req[h].kind # "mkdir" /\ ans[h][1] >= 0 THEN ans[h][1] ELSE NoFd
<1>3. file' = [file EXCEPT ![h] = num]
  BY DEF TakeOpen
<1>4. num # NoFd => num \in Fds /\ fdtab[num] = h
  BY <1>2 DEF Numbers, NoFd
<1>5. file[h] = NoFd
  BY <1>2 DEF Numbers
<1>6. StateTyped'
  BY <1>2, <1>3, <1>4 DEF StateTyped
<1>7. \A r \in Rws : fut[r] = "Submitted" => req[r].of # h /\ req[r].of \in Descs
  BY <1>5 DEF Borrows
<1>8. \A g \in Descs : g # h => file'[g] = file[g]
  BY <1>3 DEF StateTyped
<1>9. Borrows' /\ Ledger' /\ NothingRead'
  BY <1>2, <1>7, <1>8, RwFrame
<1>10. file'[h] = num
  BY <1>3 DEF StateTyped
<1>11. ASSUME NEW n \in Fds, fdtab[n] = h PROVE num = n
  <2>1. ans[h] = <<n>> /\ req[h].kind # "mkdir"
    BY <1>5, <1>11, FileAssumption DEF Numbers, DescriptorsOwned, NoFd
  <2>2. n >= 0
    BY FileAssumption
  <2> QED
    BY <2>1, <2>2
<1> HIDE DEF num
<1>12. DescriptorsOwned'
  <2>1. \A f \in Descs : file'[f] # NoFd => fdtab'[file'[f]] = f
    BY <1>2, <1>4, <1>8, <1>10 DEF Numbers, DescriptorsOwned
  <2>2. ASSUME NEW n \in Fds, NEW f \in Descs, fdtab[n] = f
        PROVE  \/ file'[f] = n
               \/ f \in Opens /\ ans'[f] = <<n>> /\ fut'[f] \in {"Submitted", "Gone"}
    <3>1. CASE f = h
      BY <1>10, <1>11, <2>2, <3>1
    <3>2. CASE f # h
      BY <1>2, <1>8, <2>2, <3>2, ZenonT(60) DEF Numbers, DescriptorsOwned
    <3> QED
      BY <3>1, <3>2
  <2> QED
    BY <1>2, <2>1, <2>2 DEF DescriptorsOwned
<1>13. Numbers'
  BY <1>2, <1>8, <1>12 DEF Numbers
<1> QED
  BY <1>1, <1>6, <1>9, <1>13

\* The kernel makes a description and gives it the lowest free number.
LEMMA InstallFacts ==
  ASSUME IInv, NEW f \in Descs, NEW k \in {"file", "stream"}, Free # {}, Install(f, k),
         desc[f].kind = "none"
  PROVE  /\ Min(Free) \in Fds /\ fdtab[Min(Free)] = NoDesc
         /\ fdtab' \in [Fds -> Descs \cup {NoDesc}]
         /\ \A n \in Fds : fdtab'[n] = IF n = Min(Free) THEN f ELSE fdtab[n]
         /\ desc' \in [Descs -> [kind : {"none", "file", "stream"}, pos : 0..MaxSize]]
         /\ \A g \in Descs : g # f => desc'[g] = desc[g]
         /\ desc'[f].kind = k /\ desc'[f].pos = 0
         /\ file[f] = NoFd /\ \A n \in Fds : fdtab[n] # f
<1> USE DEF IInv
<1>1. Min(Free) \in Free
  BY MinInSet, FileAssumption DEF Free
<1>2. Min(Free) \in Fds /\ fdtab[Min(Free)] = NoDesc
  BY <1>1 DEF Free
<1>3. \A n \in Fds : fdtab[n] # f
  BY FileAssumption DEF Numbers, Descs, NoDesc
<1>4. file[f] = NoFd
  BY <1>3 DEF Numbers, DescriptorsOwned, StateTyped
<1>5. /\ fdtab' \in [Fds -> Descs \cup {NoDesc}]
      /\ \A n \in Fds : fdtab'[n] = IF n = Min(Free) THEN f ELSE fdtab[n]
  BY <1>2 DEF Install, StateTyped
<1>6. [kind |-> k, pos |-> 0] \in [kind : {"none", "file", "stream"}, pos : 0..MaxSize]
  BY FileAssumption
<1>7. /\ desc' \in [Descs -> [kind : {"none", "file", "stream"}, pos : 0..MaxSize]]
      /\ \A g \in Descs : g # f => desc'[g] = desc[g]
      /\ desc'[f].kind = k /\ desc'[f].pos = 0
  BY <1>6 DEF Install, StateTyped
<1> QED
  BY <1>2, <1>3, <1>4, <1>5, <1>7

\* The kernel opens the file, or fails to.
LEMMA KernelOpenIInv == ASSUME IInv, NEW h \in Opens, KernelOpen(h) PROVE IInv'
<1> USE Kinds2 DEF IInv
<1>1. UNCHANGED <<size, file, told, req>> /\ req[h].kind # "mkdir"
  BY DEF KernelOpen
<1>2. ASSUME NEW v, Io!Answer(h, v)
      PROVE  /\ op[h] = "kernel" /\ ans[h] = <<>> /\ fut[h] \in {"Submitted", "Gone"}
             /\ fut' = fut /\ op'[h] = "done" /\ ans'[h] = <<v>>
             /\ \A g \in Handles : g # h => op'[g] = op[g] /\ ans'[g] = ans[g]
  BY <1>2 DEF Io!Answer, PortTyped, PortOrder
<1>3. \A g \in Opens : g \in Handles /\ g \in Descs
  BY DEF Handles, Descs
<1>4. CASE /\ Io!Answer(h, Failed) /\ UNCHANGED <<fdtab, desc, node>>
  <2>1. PortTyped' /\ PortOrder'
    BY <1>4, PortSteps DEF Answers
  <2>2. StateTyped'
    BY <1>1, <1>4 DEF StateTyped
  <2>3. Borrows' /\ Ledger' /\ NothingRead'
    BY <1>1, <1>2, <1>4, RwFrame
  <2>4. desc[h].kind = "none" /\ \A n \in Fds : fdtab[n] # h
    BY <1>2, <1>4, FileAssumption DEF Numbers, NoDesc
  <2>5. DescriptorsOwned'
    BY <1>1, <1>2, <1>3, <1>4, <2>4 DEF Numbers, DescriptorsOwned
  <2>6. ~(ans'[h][1] >= 0)
    BY <1>2, <1>4 DEF Failed
  <2>7. ASSUME NEW f \in Opens
        PROVE  /\ file'[f] # NoFd => fut'[f] = "Finished"
               /\ op'[f] # "done" => desc'[f].kind = "none"
               /\ op'[f] = "done" /\ fut'[f] # "Finished" /\ req'[f].kind # "mkdir"
                  /\ ans'[f][1] >= 0 => ans'[f][1] \in Fds /\ fdtab'[ans'[f][1]] = f
    BY <1>1, <1>2, <1>3, <1>4, <2>6 DEF Numbers
  <2>8. Numbers'
    BY <1>1, <1>4, <2>5, <2>7 DEF Numbers
  <2> QED
    BY <2>1, <2>2, <2>3, <2>8
<1>5. CASE /\ Free # {} /\ Io!Answer(h, Min(Free)) /\ Install(h, "file") /\ node' = "file"
  <2>1. desc[h].kind = "none"
    BY <1>2, <1>5 DEF Numbers
  <2>2. PICK n \in Fds :
          /\ n = Min(Free) /\ fdtab[n] = NoDesc
          /\ fdtab' \in [Fds -> Descs \cup {NoDesc}]
          /\ \A m \in Fds : fdtab'[m] = IF m = n THEN h ELSE fdtab[m]
          /\ desc' \in [Descs -> [kind : {"none", "file", "stream"}, pos : 0..MaxSize]]
          /\ \A g \in Descs : g # h => desc'[g] = desc[g]
          /\ desc'[h].kind = "file" /\ desc'[h].pos = 0
          /\ file[h] = NoFd /\ \A m \in Fds : fdtab[m] # h
    BY <1>5, <2>1, InstallFacts
  <2>3. PortTyped' /\ PortOrder'
    BY <1>5, <2>2, PortSteps DEF Answers
  <2>4. StateTyped'
    BY <1>1, <1>5, <2>2 DEF StateTyped
  <2>5. Borrows' /\ Ledger' /\ NothingRead'
    BY <1>1, <1>2, <1>5, <2>1, <2>2, RwFrame
  <2>6. DescriptorsOwned'
    <3>1. ASSUME NEW f \in Descs, file'[f] # NoFd PROVE fdtab'[file'[f]] = f
      <4>1. file[f] \in Fds /\ fdtab[file[f]] = f /\ f # NoDesc
        BY <1>1, <3>1, FileAssumption DEF Numbers, DescriptorsOwned, StateTyped, Descs, NoDesc
      <4> QED
        BY <1>1, <2>2, <4>1
    <3>2. ASSUME NEW m \in Fds, NEW f \in Descs, fdtab'[m] = f
          PROVE  \/ file'[f] = m
                 \/ f \in Opens /\ ans'[f] = <<m>> /\ fut'[f] \in {"Submitted", "Gone"}
      <4>1. CASE m = n
        BY <1>2, <1>5, <2>2, <3>2, <4>1
      <4>2. CASE m # n
        <5>1. fdtab[m] = f /\ f # h
          BY <2>2, <3>2, <4>2
        <5>2. file[f] = m \/ (f \in Opens /\ ans[f] = <<m>> /\ fut[f] \in {"Submitted", "Gone"})
          BY <5>1 DEF Numbers, DescriptorsOwned
        <5> QED
          BY <1>1, <1>2, <1>3, <1>5, <5>1, <5>2
      <4> QED
        BY <4>1, <4>2
    <3> QED
      BY <3>1, <3>2 DEF DescriptorsOwned
  <2>7. ASSUME NEW f \in Opens
        PROVE  /\ file'[f] # NoFd => fut'[f] = "Finished"
               /\ op'[f] # "done" => desc'[f].kind = "none"
               /\ op'[f] = "done" /\ fut'[f] # "Finished" /\ req'[f].kind # "mkdir"
                  /\ ans'[f][1] >= 0 => ans'[f][1] \in Fds /\ fdtab'[ans'[f][1]] = f
    <3>1. CASE f = h
      BY <1>1, <1>2, <1>5, <2>2, <3>1
    <3>2. CASE f # h
      BY <1>1, <1>2, <1>3, <1>5, <2>2, <3>2, Kinds2 DEF Numbers
    <3> QED
      BY <3>1, <3>2
  <2>8. ASSUME NEW m \in Fds
        PROVE  /\ fdtab'[m] # NoDesc => desc'[fdtab'[m]].kind # "none"
               /\ fdtab'[m] \in Opens => req'[fdtab'[m]].kind # "mkdir"
    <3>1. fdtab[m] \in Descs \cup {NoDesc}
      BY DEF StateTyped
    <3> QED
      BY <1>1, <2>2, <3>1 DEF Numbers
  <2>9. Numbers'
    BY <2>6, <2>7, <2>8 DEF Numbers
  <2> QED
    BY <2>3, <2>4, <2>5, <2>9
<1> QED
  BY <1>4, <1>5 DEF KernelOpen

\* mkdir() makes no description.
LEMMA KernelMkdirIInv == ASSUME IInv, NEW h \in Opens, KernelMkdir(h) PROVE IInv'
<1> USE Kinds2 DEF IInv
<1>1. UNCHANGED <<size, fdtab, desc, file, told, req>> /\ req[h].kind = "mkdir"
  BY DEF KernelMkdir
<1>2. PICK v \in {0, Failed} : Io!Answer(h, v)
  BY DEF KernelMkdir
<1>3. /\ op[h] = "kernel" /\ ans[h] = <<>>
      /\ fut' = fut /\ op'[h] = "done" /\ ans'[h] = <<v>>
      /\ \A g \in Handles : g # h => op'[g] = op[g] /\ ans'[g] = ans[g]
  BY <1>2 DEF Io!Answer, PortTyped, PortOrder
<1>4. PortTyped' /\ PortOrder'
  BY <1>2, PortSteps, FileAssumption DEF Answers
<1>5. StateTyped'
  BY <1>1 DEF StateTyped, KernelMkdir
<1>6. Borrows' /\ Ledger' /\ NothingRead'
  BY <1>1, <1>3, RwFrame
<1>7. \A g \in Opens : g \in Handles /\ g \in Descs
  BY DEF Handles, Descs
<1>8. \A n \in Fds : fdtab[n] # h
  BY <1>1 DEF Numbers
<1>9. DescriptorsOwned'
  BY <1>1, <1>3, <1>7, <1>8, SMTT(30) DEF Numbers, DescriptorsOwned
<1>10. ASSUME NEW f \in Opens
       PROVE  /\ file'[f] # NoFd => fut'[f] = "Finished"
              /\ op'[f] # "done" => desc'[f].kind = "none"
              /\ op'[f] = "done" /\ fut'[f] # "Finished" /\ req'[f].kind # "mkdir"
                 /\ ans'[f][1] >= 0 => ans'[f][1] \in Fds /\ fdtab'[ans'[f][1]] = f
  BY <1>1, <1>3, <1>7 DEF Numbers
<1>11. Numbers'
  BY <1>1, <1>9, <1>10 DEF Numbers
<1> QED
  BY <1>4, <1>5, <1>6, <1>11

\* A File with no future on it is dropped and its number freed.
LEMMA CloseIInv == ASSUME IInv, NEW f \in Descs, Close(f) PROVE IInv'
<1> USE DEF IInv
<1>1. UNCHANGED <<node, size, desc, told, req, fut, op, ans, out>> /\ ~Borrowed(f)
  BY DEF Close, Idle, port
<1>2. /\ file[f] \in Fds /\ fdtab[file[f]] = f
      /\ fdtab' = [fdtab EXCEPT ![file[f]] = NoDesc] /\ file' = [file EXCEPT ![f] = NoFd]
  BY DEF Close, Idle, StateTyped, Numbers, DescriptorsOwned
<1>3. PortTyped' /\ PortOrder'
  BY <1>1, PortSteps DEF port
<1>4. StateTyped'
  BY <1>1, <1>2 DEF StateTyped
<1>5. /\ \A g \in Descs : file'[g] = IF g = f THEN NoFd ELSE file[g]
      /\ \A n \in Fds : fdtab'[n] = IF n = file[f] THEN NoDesc ELSE fdtab[n]
  BY <1>2 DEF StateTyped
<1>6. \A r \in Rws : fut[r] = "Submitted" => req[r].of # f /\ req[r].of \in Descs
  BY <1>1 DEF Borrowed, Borrows
<1>7. Borrows' /\ Ledger' /\ NothingRead'
  BY <1>1, <1>5, <1>6, RwFrame
<1>8. f # NoDesc /\ NoDesc \notin Descs /\ \A g \in Opens : g \in Descs
  BY FileAssumption DEF Descs, NoDesc
<1>9. DescriptorsOwned'
  <2>1. ASSUME NEW g \in Descs, file'[g] # NoFd PROVE fdtab'[file'[g]] = g
    <3>1. g # f /\ file'[g] = file[g] /\ file[g] \in Fds /\ fdtab[file[g]] = g
      BY <1>5, <2>1 DEF Numbers, DescriptorsOwned, StateTyped
    <3> QED
      BY <1>2, <1>5, <3>1
  <2>2. ASSUME NEW n \in Fds, NEW g \in Descs, fdtab'[n] = g
        PROVE  \/ file'[g] = n
               \/ g \in Opens /\ ans'[g] = <<n>> /\ fut'[g] \in {"Submitted", "Gone"}
    <3>1. n # file[f] /\ fdtab[n] = g
      BY <1>5, <1>8, <2>2
    <3>2. file[g] = n \/ (g \in Opens /\ ans[g] = <<n>> /\ fut[g] \in {"Submitted", "Gone"})
      BY <3>1 DEF Numbers, DescriptorsOwned
    <3> QED
      BY <1>1, <1>5, <3>1, <3>2
  <2> QED
    BY <2>1, <2>2 DEF DescriptorsOwned
<1>10. ASSUME NEW g \in Opens
       PROVE  /\ file'[g] # NoFd => fut'[g] = "Finished"
              /\ op'[g] # "done" => desc'[g].kind = "none"
              /\ op'[g] = "done" /\ fut'[g] # "Finished" /\ req'[g].kind # "mkdir"
                 /\ ans'[g][1] >= 0 => ans'[g][1] \in Fds /\ fdtab'[ans'[g][1]] = g
  <2>1. g = f => fut[g] = "Finished"
    BY <1>2, FileAssumption DEF Numbers, NoFd
  <2> QED
    BY <1>1, <1>2, <1>5, <1>8, <2>1 DEF Numbers
<1>11. ASSUME NEW n \in Fds
       PROVE  /\ fdtab'[n] # NoDesc => desc'[fdtab'[n]].kind # "none"
              /\ fdtab'[n] \in Opens => req'[fdtab'[n]].kind # "mkdir"
  BY <1>1, <1>5, <1>8 DEF Numbers
<1>12. Numbers'
  BY <1>9, <1>10, <1>11 DEF Numbers
<1> QED
  BY <1>3, <1>4, <1>7, <1>12

\* Another call makes a descriptor.
LEMMA SocketIInv == ASSUME IInv, NEW f \in Socks, Socket(f) PROVE IInv'
<1> USE DEF IInv
<1>1. UNCHANGED <<node, size, told, req, fut, op, ans, out>>
  BY DEF Socket, port
<1>2. f \in Descs /\ f \notin Opens /\ NoDesc \notin Descs /\ \A g \in Opens : g \in Descs
  BY FileAssumption DEF Descs, NoDesc
<1>3. desc[f].kind = "none" /\ Free # {} /\ Install(f, "stream")
  BY DEF Socket
<1>4. PICK n \in Fds :
        /\ n = Min(Free) /\ fdtab[n] = NoDesc
        /\ fdtab' \in [Fds -> Descs \cup {NoDesc}]
        /\ \A m \in Fds : fdtab'[m] = IF m = n THEN f ELSE fdtab[m]
        /\ desc' \in [Descs -> [kind : {"none", "file", "stream"}, pos : 0..MaxSize]]
        /\ \A g \in Descs : g # f => desc'[g] = desc[g]
        /\ desc'[f].kind = "stream" /\ desc'[f].pos = 0
        /\ file[f] = NoFd /\ \A m \in Fds : fdtab[m] # f
  BY <1>2, <1>3, InstallFacts
<1>5. file' = [file EXCEPT ![f] = n]
  BY <1>4 DEF Socket
<1>6. PortTyped' /\ PortOrder'
  BY <1>1, PortSteps DEF port
<1>7. StateTyped'
  BY <1>1, <1>4, <1>5 DEF StateTyped
<1>8. \A g \in Descs : file'[g] = IF g = f THEN n ELSE file[g]
  BY <1>5 DEF StateTyped
<1>9. \A r \in Rws : fut[r] = "Submitted" => req[r].of # f /\ req[r].of \in Descs
  BY <1>3 DEF Borrows
<1>10. Borrows' /\ Ledger' /\ NothingRead'
  BY <1>1, <1>3, <1>4, <1>8, <1>9, RwFrame
<1>11. DescriptorsOwned'
  <2>1. ASSUME NEW g \in Descs, file'[g] # NoFd PROVE fdtab'[file'[g]] = g
    <3>1. CASE g = f
      BY <1>4, <1>8, <3>1
    <3>2. CASE g # f
      <4>1. file'[g] = file[g] /\ file[g] \in Fds /\ fdtab[file[g]] = g
        BY <1>8, <2>1, <3>2 DEF Numbers, DescriptorsOwned, StateTyped
      <4> QED
        BY <1>2, <1>4, <4>1
    <3> QED
      BY <3>1, <3>2
  <2>2. ASSUME NEW m \in Fds, NEW g \in Descs, fdtab'[m] = g
        PROVE  \/ file'[g] = m
               \/ g \in Opens /\ ans'[g] = <<m>> /\ fut'[g] \in {"Submitted", "Gone"}
    <3>1. CASE m = n
      BY <1>4, <1>8, <2>2, <3>1
    <3>2. CASE m # n
      <4>1. fdtab[m] = g /\ g # f
        BY <1>4, <2>2, <3>2
      <4>2. file[g] = m \/ (g \in Opens /\ ans[g] = <<m>> /\ fut[g] \in {"Submitted", "Gone"})
        BY <4>1 DEF Numbers, DescriptorsOwned
      <4> QED
        BY <1>1, <1>8, <4>1, <4>2
    <3> QED
      BY <3>1, <3>2
  <2> QED
    BY <2>1, <2>2 DEF DescriptorsOwned
<1>12. ASSUME NEW g \in Opens
       PROVE  /\ file'[g] # NoFd => fut'[g] = "Finished"
              /\ op'[g] # "done" => desc'[g].kind = "none"
              /\ op'[g] = "done" /\ fut'[g] # "Finished" /\ req'[g].kind # "mkdir"
                 /\ ans'[g][1] >= 0 => ans'[g][1] \in Fds /\ fdtab'[ans'[g][1]] = g
  BY <1>1, <1>2, <1>4, <1>8 DEF Numbers
<1>13. ASSUME NEW m \in Fds
       PROVE  /\ fdtab'[m] # NoDesc => desc'[fdtab'[m]].kind # "none"
              /\ fdtab'[m] \in Opens => req'[fdtab'[m]].kind # "mkdir"
  <2>1. fdtab[m] \in Descs \cup {NoDesc}
    BY DEF StateTyped
  <2> QED
    BY <1>1, <1>2, <1>4, <2>1 DEF Numbers
<1>14. Numbers'
  BY <1>11, <1>12, <1>13 DEF Numbers
<1> QED
  BY <1>6, <1>7, <1>10, <1>14

-----------------------------------------------------------------------------
\* A future of read() or write() is not one of open().
LEMMA RwKind ==
  ASSUME NEW r \in Rws
  PROVE  /\ r \in Handles
         /\ \A f \in Opens : f \in Handles /\ f \in Descs /\ f # r
         /\ \A s \in Rws : s \in Handles
         /\ NoDesc \notin Descs
  BY FileAssumption DEF Handles, Descs, NoDesc

\* read() and write() are polled for the first time.
LEMMA StartRwIInv ==
  ASSUME IInv, NEW r \in Rws, NEW k \in {"read", "write"}, NEW f \in Descs, NEW len \in Lens,
         StartRw(r, k, f, len)
  PROVE  IInv'
<1> USE RwKind DEF IInv
<1> DEFINE q == Request(k, f, file[f], len, len % LenMod, desc[f].kind = "file")
<1>1. PortTyped' /\ PortOrder'
  BY PortSteps DEF StartRw
<1>2. /\ UNCHANGED <<node, size, fdtab, desc, file, told, ans>>
      /\ req' = [req EXCEPT ![r] = q]
      /\ fut[r] = "New" /\ op[r] = "none" /\ ans[r] = <<>>
      /\ fut'[r] = "Submitted" /\ op'[r] = "queued"
      /\ \A h \in Handles : h # r => fut'[h] = fut[h] /\ op'[h] = op[h]
  BY DEF StartRw, Io!Submit, PortTyped, PortOrder
<1>3. file[f] # NoFd /\ file[f] \in Fds /\ \A s \in Rws : fut[s] = "Submitted" => req[s].of # f
  BY DEF StartRw, Idle, Borrowed, StateTyped
<1>4. len \in Nat /\ len % LenMod \in Nat
  BY FileAssumption
<1>5. q \in Requests
  BY <1>3, <1>4 DEF Request, Requests, Kinds
<1>6. StateTyped'
  BY <1>2, <1>5 DEF StateTyped
<1>7. req'[r] = q /\ \A h \in Handles : h # r => req'[h] = req[h]
  BY <1>2 DEF StateTyped
<1>8. /\ q.kind = k /\ q.of = f /\ q.num = file[f] /\ q.want = len /\ q.len = len % LenMod
      /\ q.target = NoDesc /\ (q.seekable <=> desc[f].kind = "file")
  BY DEF Request
<1> HIDE DEF q
<1>9. Numbers'
  BY <1>2, <1>7, NumbersFrame DEF StateTyped
<1>10. desc[f].kind # "none"
  BY <1>3 DEF Numbers, DescriptorsOwned
<1>11. Borrows'
  <2>1. ASSUME NEW s \in Rws
        PROVE  /\ fut'[s] = "Submitted" =>
                    /\ file'[req'[s].of] = req'[s].num
                    /\ req'[s].seekable <=> desc'[req'[s].of].kind = "file"
                    /\ op'[s] # "queued" => req'[s].target = req'[s].of
               /\ fut'[s] # "New" => /\ req'[s].of \in Descs /\ desc'[req'[s].of].kind # "none"
                                     /\ req'[s].num # NoFd
                                     /\ req'[s].kind \in {"read", "write"}
                                     /\ req'[s].len = req'[s].want % LenMod
               /\ op'[s] \in {"none", "queued"} => req'[s].target = NoDesc
               /\ req'[s].target # NoDesc => desc'[req'[s].target].kind # "none"
    <3>1. CASE s = r
      BY <1>2, <1>3, <1>7, <1>8, <1>10, <3>1
    <3>2. CASE s # r
      BY <1>2, <1>7, <3>2 DEF Borrows
    <3> QED
      BY <3>1, <3>2
  <2>2. ASSUME NEW s \in Rws, NEW u \in Rws, fut'[s] = "Submitted", fut'[u] = "Submitted",
               req'[s].of = req'[u].of
        PROVE  s = u
    BY <1>2, <1>3, <1>7, <1>8, <2>2 DEF Borrows
  <2> QED
    BY <2>1, <2>2 DEF Borrows
<1>12. \A s \in Rws, g \in Descs : /\ Unread(s, g)' <=> Unread(s, g)
                                   /\ Unread(s, g) => Gain(s)' = Gain(s)
  BY <1>2, <1>7 DEF Unread, Gain
<1>13. \A g \in Descs : Undisturbed(g)' => Undisturbed(g)
  BY <1>2, <1>7 DEF Undisturbed
<1>14. Ledger'
  BY <1>2, <1>12, <1>13 DEF Ledger
<1>15. NothingRead'
  BY <1>2, <1>7 DEF NothingRead
<1> QED
  BY <1>1, <1>6, <1>9, <1>11, <1>14, <1>15

\* The result of a read or write is taken: the program knows the new position.
LEMMA TakeRwIInv == ASSUME IInv, NEW r \in Rws, TakeRw(r) PROVE IInv'
<1> USE RwKind DEF IInv
<1> DEFINE f == req[r].of
<1>1. PortTyped' /\ PortOrder'
  BY PortSteps DEF TakeRw
<1>2. /\ UNCHANGED <<node, size, fdtab, desc, file, req, op, ans>>
      /\ fut[r] = "Submitted" /\ op[r] = "done" /\ fut'[r] = "Finished"
      /\ \A h \in Handles : h # r => fut'[h] = fut[h]
  BY DEF TakeRw, Io!Take, PortTyped
<1>3. f \in Descs /\ Unread(r, f)
  BY <1>2 DEF Borrows, Unread
<1>4. PICK v \in Answers : ans[r] = <<v>>
  BY <1>2 DEF PortTyped, PortOrder
<1>5. Gain(r) \in Nat /\ told[f] \in 0..MaxSize /\ desc[f].pos \in 0..MaxSize
  <2>1. ans[r][1] = v /\ v \in Int
    BY <1>4, FileAssumption DEF Answers, Failed
  <2>2. Gain(r) \in Nat
    BY <2>1 DEF Gain
  <2> QED
    BY <1>3, <2>2 DEF StateTyped
<1>6. told' = [told EXCEPT ![f] = told[f] + Gain(r)]
  <2>1. told' = [told EXCEPT ![f] = IF ans[r][1] >= 0 THEN told[f] + ans[r][1] ELSE told[f]]
    BY DEF TakeRw
  <2>2. (IF ans[r][1] >= 0 THEN told[f] + ans[r][1] ELSE told[f]) = told[f] + Gain(r)
    BY <1>5 DEF Gain
  <2> QED
    BY <2>1, <2>2
<1>7. told[f] + Gain(r) <= desc[f].pos
  BY <1>3 DEF Ledger
<1>8. StateTyped'
  BY <1>2, <1>3, <1>5, <1>6, <1>7, FileAssumption DEF StateTyped
<1>9. Numbers'
  BY <1>2, NumbersFrame DEF StateTyped
<1>10. Borrows'
  BY <1>2 DEF Borrows
<1>11. /\ told'[f] = told[f] + Gain(r)
       /\ \A g \in Descs : g # f => told'[g] = told[g]
  BY <1>3, <1>6 DEF StateTyped
<1>12. \A s \in Rws : ~Unread(s, f)'
  BY <1>2 DEF Unread, Borrows
<1>13. \A g \in Descs : Undisturbed(g)' => Undisturbed(g)
  BY <1>2 DEF Undisturbed
<1>14. \A s \in Rws, g \in Descs : g # f => /\ Unread(s, g)' <=> Unread(s, g)
                                            /\ Gain(s)' = Gain(s)
  BY <1>2 DEF Unread, Gain
<1>15. desc[f].kind # "none"
  BY <1>2 DEF Borrows
<1>16. ASSUME NEW g \in Descs
       PROVE  /\ desc'[g].kind = "none" => told'[g] = 0
              /\ told'[g] <= desc'[g].pos
              /\ \A s \in Rws : Unread(s, g)' => told'[g] + Gain(s)' <= desc'[g].pos
              /\ Undisturbed(g)' =>
                   /\ \A s \in Rws : Unread(s, g)' => desc'[g].pos = told'[g] + Gain(s)'
                   /\ (\A s \in Rws : ~Unread(s, g)') => desc'[g].pos = told'[g]
  <2>1. CASE g = f
    BY <1>2, <1>3, <1>7, <1>11, <1>12, <1>13, <1>15, <2>1 DEF Ledger
  <2>2. CASE g # f
    BY <1>2, <1>11, <1>13, <1>14, <2>2 DEF Ledger
  <2> QED
    BY <2>1, <2>2
<1>17. Ledger'
  BY <1>16 DEF Ledger
<1>18. NothingRead'
  BY <1>2 DEF NothingRead
<1> QED
  BY <1>1, <1>8, <1>9, <1>10, <1>17, <1>18

\* A future is dropped: the borrow ends, and a File its operation has reached, or
\* will reach, is disturbed.
LEMMA DropFutureIInv == ASSUME IInv, NEW h \in Handles, DropFuture(h) PROVE IInv'
<1> USE DEF IInv
<1>1. PortTyped' /\ PortOrder'
  BY PortSteps DEF DropFuture
<1>2. /\ UNCHANGED <<node, size, fdtab, desc, file, told, req, op, ans>>
      /\ fut[h] = "Submitted" /\ fut'[h] = "Gone"
      /\ \A g \in Handles : g # h => fut'[g] = fut[g]
  BY DEF DropFuture, Io!Drop, PortTyped
<1>3. StateTyped'
  BY <1>2 DEF StateTyped
<1>4. Numbers'
  BY <1>2, NumbersFrame DEF StateTyped, Handles
<1>5. \A r \in Rws : r \in Handles /\ (fut'[r] = fut[r] \/ (fut[r] = "Submitted" /\ fut'[r] = "Gone"))
  BY <1>2 DEF Handles
<1>6. Borrows'
  BY <1>2, <1>5 DEF Borrows
<1>7. \A r \in Rws, f \in Descs : /\ Unread(r, f)' => Unread(r, f)
                                  /\ Gain(r)' = Gain(r)
  BY <1>2, <1>5 DEF Unread, Gain
<1>8. \A f \in Descs : Undisturbed(f)' => Undisturbed(f)
  BY <1>2, <1>5 DEF Undisturbed
<1>9. \A r \in Rws, f \in Descs : Unread(r, f) /\ Undisturbed(f)' => Unread(r, f)'
  <2>1. ASSUME NEW r \in Rws, NEW f \in Descs, Unread(r, f), ~Unread(r, f)'
        PROVE  ~Undisturbed(f)'
    <3>1. r = h /\ fut'[r] = "Gone" /\ req'[r].target = f
      BY <1>2, <1>5, <2>1 DEF Unread, Borrows
    <3> QED
      BY <3>1 DEF Undisturbed
  <2> QED
    BY <2>1
<1>10. Ledger'
  BY <1>2, <1>7, <1>8, <1>9 DEF Ledger
<1>11. NothingRead'
  BY <1>2 DEF NothingRead
<1> QED
  BY <1>1, <1>3, <1>4, <1>6, <1>10, <1>11

\* lseek() on the number of a File moves that File, and the program knows where to.
LEMMA SeekIInv ==
  ASSUME IInv, NEW f \in Descs, NEW base \in {"Start", "End", "Current"}, NEW off \in Int,
         seek(f, base, off)
  PROVE  IInv'
<1> USE DEF IInv
<1>1. UNCHANGED <<node, size, fdtab, file, req, fut, op, ans, out>>
  BY DEF seek, port
<1>2. PortTyped' /\ PortOrder'
  BY <1>1, PortSteps DEF port
<1>3. fdtab[file[f]] = f /\ desc[f].kind = "file" /\ \A r \in Rws : ~Unread(r, f)
  BY DEF seek, Idle, Borrowed, Numbers, DescriptorsOwned, Unread
<1>4. \/ UNCHANGED <<desc, told>>
      \/ \E p \in 0..MaxSize : /\ desc' = [desc EXCEPT ![f].pos = p]
                               /\ told' = [told EXCEPT ![f] = p]
  BY <1>3 DEF seek
<1>5. CASE UNCHANGED <<desc, told>>
  <2>1. StateTyped' /\ Numbers' /\ Borrows' /\ NothingRead'
    BY <1>1, <1>5, NumbersFrame DEF StateTyped, Borrows, NothingRead
  <2>2. Ledger'
    BY <1>1, <1>5 DEF Ledger, Unread, Gain, Undisturbed
  <2> QED
    BY <1>2, <2>1, <2>2
<1>6. ASSUME NEW p \in 0..MaxSize, desc' = [desc EXCEPT ![f].pos = p],
             told' = [told EXCEPT ![f] = p]
      PROVE  IInv'
  <2>1. /\ desc' \in [Descs -> [kind : {"none", "file", "stream"}, pos : 0..MaxSize]]
        /\ told' \in [Descs -> 0..MaxSize]
        /\ \A g \in Descs : desc'[g].kind = desc[g].kind
        /\ \A g \in Descs : g # f => desc'[g] = desc[g] /\ told'[g] = told[g]
        /\ desc'[f].pos = p /\ told'[f] = p
    BY <1>6 DEF StateTyped
  <2>2. StateTyped'
    BY <1>1, <2>1 DEF StateTyped
  <2>3. Numbers'
    BY <1>1, <2>1, NumbersFrame DEF StateTyped
  <2>4. \A r \in Rws : req[r].target \in Descs \cup {NoDesc}
    BY DEF StateTyped, Requests, Handles
  <2>5. Borrows'
    BY <1>1, <2>1, <2>4 DEF Borrows
  <2>6. \A r \in Rws, g \in Descs : /\ Unread(r, g)' <=> Unread(r, g)
                                    /\ Gain(r)' = Gain(r)
                                    /\ Undisturbed(g)' <=> Undisturbed(g)
    BY <1>1 DEF Unread, Gain, Undisturbed
  <2>7. ASSUME NEW g \in Descs
        PROVE  /\ desc'[g].kind = "none" => told'[g] = 0
               /\ told'[g] <= desc'[g].pos
               /\ \A s \in Rws : Unread(s, g)' => told'[g] + Gain(s)' <= desc'[g].pos
               /\ Undisturbed(g)' =>
                    /\ \A s \in Rws : Unread(s, g)' => desc'[g].pos = told'[g] + Gain(s)'
                    /\ (\A s \in Rws : ~Unread(s, g)') => desc'[g].pos = told'[g]
    <3>1. CASE g = f
      BY <1>3, <2>1, <2>6, <3>1, FileAssumption
    <3>2. CASE g # f
      <4>1. Undisturbed(g)' <=> Undisturbed(g)
        BY <1>1 DEF Undisturbed
      <4> QED
        BY <2>1, <2>6, <3>2, <4>1 DEF Ledger
    <3> QED
      BY <3>1, <3>2
  <2>8. Ledger'
    BY <2>7 DEF Ledger
  <2>9. NothingRead'
    BY <1>1 DEF NothingRead
  <2> QED
    BY <1>2, <2>2, <2>3, <2>5, <2>8, <2>9
<1> QED
  BY <1>4, <1>5, <1>6

\* react() submits the queue: the number of a live future still leads to its File.
LEMMA EnterIInv == ASSUME IInv, Enter PROVE IInv'
<1> USE DEF IInv
<1>1. PortTyped' /\ PortOrder'
  BY PortSteps DEF Enter
<1>2. /\ UNCHANGED <<node, size, fdtab, desc, file, told, fut, ans>>
      /\ \A h \in Handles : op'[h] = IF op[h] = "queued" THEN "kernel" ELSE op[h]
  BY DEF Enter, Io!Enter
<1> DEFINE Found(h) == op[h] = "queued" /\ h \in Rws /\ fdtab[req[h].num] # NoDesc
<1>3. ASSUME NEW h \in Handles, op[h] = "queued", h \in Rws
      PROVE  req[h].num \in Fds /\ fdtab[req[h].num] \in Descs \cup {NoDesc}
  <2>1. req[h].num \in Fds
    BY <1>3 DEF StateTyped, Requests, Borrows, PortOrder
  <2> QED
    BY <2>1 DEF StateTyped
<1>4. \A h \in Handles :
        req'[h] = IF Found(h) THEN [req[h] EXCEPT !.target = fdtab[req[h].num]] ELSE req[h]
  BY DEF Enter
<1>5. \A h \in Handles : req'[h] \in Requests
  <2>1. \A h \in Handles : Found(h) => fdtab[req[h].num] \in Descs
    BY <1>3
  <2>2. \A h \in Handles : req[h] \in Requests
    BY DEF StateTyped
  <2>3. \A h \in Handles : Found(h) => [req[h] EXCEPT !.target = fdtab[req[h].num]] \in Requests
    BY <2>1, <2>2, RequestEdits DEF Kinds
  <2> QED
    BY <1>4, <2>2, <2>3
<1>6. StateTyped'
  <2>1. req' = [h \in Handles |-> req'[h]]
    BY DEF Enter
  <2> QED
    BY <1>2, <1>5, <2>1 DEF StateTyped
<1>7. \A h \in Handles :
        /\ req'[h].kind = req[h].kind /\ req'[h].of = req[h].of /\ req'[h].num = req[h].num
        /\ req'[h].want = req[h].want /\ req'[h].len = req[h].len /\ req'[h].eof = req[h].eof
        /\ req'[h].seekable = req[h].seekable
        /\ req'[h].target = IF Found(h) THEN fdtab[req[h].num] ELSE req[h].target
  BY <1>4, ZenonT(60) DEF StateTyped, Requests
<1> HIDE DEF Found
<1>8. Numbers'
  BY <1>2, <1>7, NumbersFrame DEF StateTyped, Handles
<1>9. ASSUME NEW r \in Rws
      PROVE  /\ fut'[r] = "Submitted" => /\ file'[req'[r].of] = req'[r].num
                                         /\ req'[r].seekable <=> desc'[req'[r].of].kind = "file"
                                         /\ op'[r] # "queued" => req'[r].target = req'[r].of
             /\ fut'[r] # "New" => /\ req'[r].of \in Descs /\ desc'[req'[r].of].kind # "none"
                                   /\ req'[r].num # NoFd
                                   /\ req'[r].kind \in {"read", "write"}
                                   /\ req'[r].len = req'[r].want % LenMod
             /\ op'[r] \in {"none", "queued"} => req'[r].target = NoDesc
             /\ req'[r].target # NoDesc => desc'[req'[r].target].kind # "none"
  <2>1. r \in Handles /\ NoDesc \notin Descs
    BY RwKind
  <2>2. CASE op[r] # "queued"
    BY <1>2, <1>7, <2>1, <2>2 DEF Borrows, Found
  <2>3. CASE op[r] = "queued"
    <3>1. op'[r] = "kernel" /\ req[r].target = NoDesc
      BY <1>2, <2>1, <2>3 DEF Borrows
    <3>2. fut[r] = "Submitted" => req'[r].target = req[r].of
      <4>1. fut[r] = "Submitted" => fdtab[req[r].num] = req[r].of /\ req[r].of \in Descs
        BY <2>3 DEF Borrows, Numbers, DescriptorsOwned
      <4> QED
        BY <1>7, <2>1, <2>3, <4>1 DEF Found
    <3>3. req'[r].target # NoDesc => desc[req'[r].target].kind # "none"
      BY <1>3, <1>7, <2>1, <2>3, <3>1 DEF Numbers, Found
    <3> QED
      BY <1>2, <1>7, <2>1, <3>1, <3>2, <3>3 DEF Borrows
  <2> QED
    BY <2>2, <2>3
<1>10. \A r, s \in Rws :
         fut'[r] = "Submitted" /\ fut'[s] = "Submitted" /\ req'[r].of = req'[s].of => r = s
  BY <1>2, <1>7, RwKind DEF Borrows
<1>11. Borrows'
  BY <1>9, <1>10 DEF Borrows
<1>12. \A r \in Rws, f \in Descs : /\ Unread(r, f)' <=> Unread(r, f)
                                   /\ Gain(r)' = Gain(r)
  BY <1>2, <1>7, RwKind DEF Unread, Gain
<1>13. \A f \in Descs : Undisturbed(f)' => Undisturbed(f)
  <2>1. ASSUME NEW r \in Rws, NEW f \in Descs, req[r].target = f PROVE req'[r].target = f
    <3>1. r \in Handles /\ op[r] # "queued"
      BY <2>1, RwKind DEF Borrows
    <3> QED
      BY <1>7, <2>1, <3>1 DEF Found
  <2> QED
    BY <1>2, <2>1 DEF Undisturbed
<1>14. Ledger'
  BY <1>2, <1>12, <1>13 DEF Ledger
<1>15. NothingRead'
  BY <1>2, <1>7, RwKind DEF NothingRead
<1> QED
  BY <1>1, <1>6, <1>8, <1>11, <1>14, <1>15

\* The kernel answers a read or write: what a live future's answer counts, its
\* File has moved.
LEMMA AnswerIInv ==
  ASSUME IInv, NEW r \in Rws, NEW n \in Answers, Io!Answer(r, n),
         UNCHANGED <<node, fdtab, file, told>>, size' \in 0..MaxSize,
         req' \in [Handles -> Requests],
         \A h \in Handles : req'[h] = req[h] \/ (h = r /\ \E b \in BOOLEAN :
                                                   req'[h] = [req[h] EXCEPT !.eof = b]),
         desc' \in [Descs -> [kind : {"none", "file", "stream"}, pos : 0..MaxSize]],
         \A f \in Descs : desc'[f].kind = desc[f].kind,
         \A f \in Descs : f # req[r].target => desc'[f] = desc[f],
         req[r].target # NoDesc => desc'[req[r].target].pos >= desc[req[r].target].pos,
         fut[r] = "Submitted" =>
           desc'[req[r].target].pos = desc[req[r].target].pos + IF n >= 0 THEN n ELSE 0,
         req[r].kind = "read" /\ n = 0 => req'[r].eof \/ req[r].len = 0
  PROVE  IInv'
<1> USE RwKind DEF IInv
<1>1. PortTyped' /\ PortOrder'
  BY PortSteps
<1>2. StateTyped'
  BY DEF StateTyped
<1>3. /\ UNCHANGED <<fut, out>> /\ op[r] = "kernel" /\ op'[r] = "done" /\ ans'[r] = <<n>>
      /\ \A h \in Handles : h # r => op'[h] = op[h] /\ ans'[h] = ans[h]
  BY DEF Io!Answer, PortTyped
<1>4. \A h \in Handles :
        /\ req'[h].kind = req[h].kind /\ req'[h].of = req[h].of /\ req'[h].num = req[h].num
        /\ req'[h].want = req[h].want /\ req'[h].len = req[h].len
        /\ req'[h].seekable = req[h].seekable /\ req'[h].target = req[h].target
        /\ h # r => req'[h] = req[h]
  BY DEF StateTyped, Requests
<1>5. Numbers'
  BY <1>3, <1>4, NumbersFrame DEF StateTyped
<1>6. \A h \in Handles : req[h].target \in Descs \cup {NoDesc}
  BY DEF StateTyped, Requests
<1>7. Borrows'
  BY <1>3, <1>4, <1>6 DEF Borrows
<1>8. NothingRead'
  <2>1. ans'[r] = <<0>> => n = 0
    BY <1>3
  <2> QED
    BY <1>3, <1>4, <2>1 DEF NothingRead
<1>9. \A f \in Descs : Undisturbed(f)' <=> Undisturbed(f)
  BY <1>3, <1>4 DEF Undisturbed
<1>10. \A s \in Rws, f \in Descs :
         s # r => (Unread(s, f)' <=> Unread(s, f)) /\ Gain(s)' = Gain(s)
  BY <1>3, <1>4 DEF Unread, Gain
<1>11. /\ Gain(r)' = (IF n >= 0 THEN n ELSE 0) /\ Gain(r)' \in Nat
       /\ \A f \in Descs : /\ ~Unread(r, f)
                           /\ Unread(r, f)' <=> fut[r] = "Submitted" /\ req[r].of = f
  <2>1. n \in Int
    BY FileAssumption DEF Answers, Failed
  <2> QED
    BY <1>3, <1>4, <2>1 DEF Gain, Unread
<1>12. fut[r] = "Submitted" => req[r].target = req[r].of /\ req[r].of \in Descs
  BY <1>3 DEF Borrows
<1>13. \A s \in Rws, f \in Descs : Unread(r, f)' /\ s # r => ~Unread(s, f)'
  BY <1>3, <1>4, <1>11 DEF Unread, Borrows
<1>14. ASSUME NEW f \in Descs
       PROVE  /\ desc'[f].kind = "none" => told'[f] = 0
              /\ told'[f] <= desc'[f].pos
              /\ \A s \in Rws : Unread(s, f)' => told'[f] + Gain(s)' <= desc'[f].pos
              /\ Undisturbed(f)' =>
                   /\ \A s \in Rws : Unread(s, f)' => desc'[f].pos = told'[f] + Gain(s)'
                   /\ (\A s \in Rws : ~Unread(s, f)') => desc'[f].pos = told'[f]
  <2>1. told[f] \in Nat /\ desc[f].pos \in Nat /\ desc'[f].pos \in Nat
    BY FileAssumption DEF StateTyped
  <2>2. CASE f # req[r].target
    <3>1. desc'[f] = desc[f] /\ \A s \in Rws : /\ Unread(s, f)' <=> Unread(s, f)
                                               /\ Unread(s, f) => Gain(s)' = Gain(s)
      BY <1>10, <1>11, <1>12, <2>2
    <3> QED
      BY <1>9, <3>1 DEF Ledger
  <2>3. CASE f = req[r].target /\ fut[r] = "Submitted"
    <3>1. /\ Unread(r, f)' /\ desc'[f].pos = desc[f].pos + Gain(r)'
          /\ \A s \in Rws : s # r => ~Unread(s, f)' /\ ~Unread(s, f)
      BY <1>10, <1>11, <1>12, <1>13, <2>3
    <3>2. Undisturbed(f) => desc[f].pos = told[f]
      BY <1>11, <3>1 DEF Ledger
    <3>3. told[f] <= desc[f].pos /\ (desc'[f].kind = "none" => told[f] = 0)
      BY DEF Ledger
    <3> QED
      BY <1>9, <1>11, <2>1, <3>1, <3>2, <3>3
  <2>4. CASE f = req[r].target /\ fut[r] # "Submitted"
    <3>1. ~Undisturbed(f)
      BY <1>3, <2>4 DEF Undisturbed, PortTyped, PortOrder
    <3>2. desc'[f].pos >= desc[f].pos
      BY <2>4
    <3>3. \A s \in Rws : /\ Unread(s, f)' => s # r /\ Unread(s, f)
                         /\ Unread(s, f) => Gain(s)' = Gain(s)
      BY <1>10, <1>11, <2>4
    <3>4. told[f] <= desc[f].pos /\ (desc'[f].kind = "none" => told[f] = 0)
      BY DEF Ledger
    <3>5. ASSUME NEW s \in Rws, Unread(s, f)' PROVE told[f] + Gain(s)' <= desc'[f].pos
      <4>1. told[f] + Gain(s) <= desc[f].pos /\ Gain(s)' = Gain(s)
        BY <3>3, <3>5 DEF Ledger
      <4>2. Gain(s) \in Int
        <5>1. s \in Handles /\ op[s] = "done"
          BY <3>3, <3>5 DEF Unread
        <5>2. PICK v \in Answers : ans[s] = <<v>>
          BY <5>1 DEF PortTyped, PortOrder
        <5>3. v \in Int
          BY FileAssumption DEF Answers, Failed
        <5> QED
          BY <5>2, <5>3 DEF Gain
      <4> QED
        BY <2>1, <3>2, <4>1, <4>2
    <3> QED
      BY <1>9, <2>1, <3>1, <3>2, <3>4, <3>5
  <2> QED
    BY <2>2, <2>3, <2>4
<1>15. Ledger'
  BY <1>14 DEF Ledger
<1> QED
  BY <1>1, <1>2, <1>5, <1>7, <1>8, <1>15

\* What a read or write moves fits between the position and the end.
LEMMA MovedFits ==
  ASSUME StateTyped, NEW r \in Rws, req[r].target \in Descs, NEW end \in 0..MaxSize,
         NEW n \in Moved(req[r].len, Room(r, end))
  PROVE  /\ Start(r) \in 0..MaxSize
         /\ n \in 0..MaxSize
         /\ n > 0 => Start(r) + n <= end
         /\ n = 0 => req[r].len = 0 \/ Room(r, end) = 0
<1>1. MaxSize \in Nat /\ req[r].len \in Nat
  BY FileAssumption DEF StateTyped, Requests, Handles
<1>2. Start(r) \in 0..MaxSize
  BY <1>1 DEF Start, StateTyped
<1>3. Room(r, end) = IF end - Start(r) > 0 THEN end - Start(r) ELSE 0
  <2>1. 0 \in Int /\ end - Start(r) \in Int
    BY <1>1, <1>2
  <2>2. Max({0, end - Start(r)}) = IF 0 >= end - Start(r) THEN 0 ELSE end - Start(r)
    BY <2>1, MinMaxPair
  <2> QED
    BY <2>1, <2>2 DEF Room
<1>4. CASE req[r].len = 0 \/ Room(r, end) = 0
  BY <1>1, <1>2, <1>4 DEF Moved
<1>5. CASE ~(req[r].len = 0 \/ Room(r, end) = 0)
  <2>1. n \in 1..Min({req[r].len, Room(r, end)})
    BY <1>5 DEF Moved
  <2>2. Room(r, end) \in Nat
    BY <1>1, <1>2, <1>3
  <2>3. Min({req[r].len, Room(r, end)}) \in Nat /\ Min({req[r].len, Room(r, end)}) <= Room(r, end)
    BY <1>1, <2>2, MinMaxPair
  <2> QED
    BY <1>1, <1>2, <1>3, <2>1, <2>3
<1> QED
  BY <1>4, <1>5

\* The position moves by what was moved; a live future's operation does not start
\* at offset 0.
LEMMA AdvanceFacts ==
  ASSUME IInv, NEW r \in Rws, op[r] = "kernel", req[r].target \in Descs,
         NEW n \in 0..MaxSize, n > 0 => Start(r) + n <= MaxSize, Advance(r, n)
  PROVE  /\ desc' \in [Descs -> [kind : {"none", "file", "stream"}, pos : 0..MaxSize]]
         /\ \A f \in Descs : desc'[f].kind = desc[f].kind
         /\ \A f \in Descs : f # req[r].target => desc'[f] = desc[f]
         /\ desc'[req[r].target].pos >= desc[req[r].target].pos
         /\ fut[r] = "Submitted" =>
              desc'[req[r].target].pos = desc[req[r].target].pos + n
<1> DEFINE t == req[r].target
<1>1. /\ MaxSize \in Nat /\ n \in Nat /\ t \in Descs
      /\ desc \in [Descs -> [kind : {"none", "file", "stream"}, pos : 0..MaxSize]]
      /\ desc[t].pos \in 0..MaxSize
  BY FileAssumption DEF IInv, StateTyped
<1>2. fut[r] = "Submitted" => Positioned(r)
  <2>1. fut[r] = "Submitted" => /\ t = req[r].of /\ desc[t].kind # "none"
                                /\ req[r].seekable <=> desc[t].kind = "file"
    BY DEF IInv, Borrows
  <2>2. desc[t].kind \in {"none", "file", "stream"}
    BY <1>1
  <2> QED
    BY <2>1, <2>2 DEF Positioned
<1>3. CASE Positioned(r)
  <2>1. desc[t].pos + n \in 0..MaxSize
    BY <1>1, <1>3 DEF Start
  <2>2. desc' = [desc EXCEPT ![t].pos = desc[t].pos + n]
    BY <1>3 DEF Advance
  <2> HIDE DEF t
  <2>3. /\ desc' \in [Descs -> [kind : {"none", "file", "stream"}, pos : 0..MaxSize]]
        /\ \A f \in Descs : desc'[f].kind = desc[f].kind
        /\ \A f \in Descs : f # t => desc'[f] = desc[f]
        /\ desc'[t].pos = desc[t].pos + n
    BY <1>1, <2>1, <2>2
  <2>4. desc'[t].pos >= desc[t].pos
    BY <1>1, <2>3
  <2> QED
    BY <2>3, <2>4 DEF t
<1>4. CASE ~Positioned(r)
  BY <1>1, <1>2, <1>4 DEF Advance
<1> QED
  BY <1>3, <1>4

\* The operation of a dropped future whose number was free fails.
LEMMA KernelBadFdIInv == ASSUME IInv, NEW r \in Rws, KernelBadFd(r) PROVE IInv'
<1>1. Io!Answer(r, Failed) /\ Failed \in Answers /\ ~(Failed >= 0)
  BY DEF KernelBadFd, Answers, Failed
<1>2. op[r] = "kernel" /\ req[r].target = NoDesc
  BY DEF KernelBadFd, Io!Answer
<1>3. fut[r] # "Submitted"
  BY <1>2, RwKind DEF IInv, Borrows
<1>4. /\ UNCHANGED <<node, size, fdtab, desc, file, told, req>>
      /\ size' \in 0..MaxSize /\ req' \in [Handles -> Requests]
      /\ desc' \in [Descs -> [kind : {"none", "file", "stream"}, pos : 0..MaxSize]]
  BY DEF KernelBadFd, IInv, StateTyped
<1> QED
  BY <1>1, <1>2, <1>3, <1>4, AnswerIInv DEF Failed

\* A read moves up to the end of the file, and says whether it was there.
LEMMA KernelReadIInv == ASSUME IInv, NEW r \in Rws, KernelRead(r) PROVE IInv'
<1> DEFINE end == IF desc[req[r].target].kind = "stream" THEN MaxSize ELSE size
<1>1. req[r].target \in Descs /\ end \in 0..MaxSize /\ r \in Handles
  BY FileAssumption, RwKind DEF KernelRead, IInv, StateTyped, Requests
<1> HIDE DEF end
<1>2. PICK n \in Moved(req[r].len, Room(r, end)) : Io!Answer(r, n) /\ Advance(r, n)
  BY DEF KernelRead, end
<1>3. /\ UNCHANGED <<node, size, fdtab, file, told>>
      /\ req' = [req EXCEPT ![r].eof = (Room(r, end) = 0)]
  BY DEF KernelRead, end
<1>4. /\ n \in 0..MaxSize
      /\ n > 0 => Start(r) + n <= MaxSize
      /\ n = 0 => req[r].len = 0 \/ Room(r, end) = 0
  BY <1>1, MovedFits, FileAssumption DEF IInv
<1>5. op[r] = "kernel"
  BY <1>2 DEF Io!Answer
<1>6. n \in Answers /\ n >= 0 /\ size' \in 0..MaxSize
  BY <1>3, <1>4, FileAssumption DEF Answers, IInv, StateTyped
<1>7. req \in [Handles -> Requests]
  BY DEF IInv, StateTyped
<1>8. req'[r] = [req[r] EXCEPT !.eof = (Room(r, end) = 0)]
  BY <1>1, <1>3, <1>7
<1>9. \A h \in Handles : h # r => req'[h] = req[h]
  BY <1>1, <1>3, <1>7
<1>10. (Room(r, end) = 0) \in BOOLEAN
  OBVIOUS
<1>11. req'[r] \in Requests /\ (Room(r, end) = 0 => req'[r].eof)
  <2>1. req[r] \in Requests /\ DOMAIN req' = Handles
    BY <1>1, <1>3, <1>7
  <2> QED
    BY <1>8, <1>10, <2>1 DEF Requests
<1>12. req' \in [Handles -> Requests]
  BY <1>1, <1>3, <1>7, <1>9, <1>11
<1>13. \A h \in Handles : req'[h] = req[h] \/ (h = r /\ \E b \in BOOLEAN :
                                                 req'[h] = [req[h] EXCEPT !.eof = b])
  BY <1>8, <1>9, <1>10
<1>14. /\ desc' \in [Descs -> [kind : {"none", "file", "stream"}, pos : 0..MaxSize]]
       /\ \A f \in Descs : desc'[f].kind = desc[f].kind
       /\ \A f \in Descs : f # req[r].target => desc'[f] = desc[f]
       /\ desc'[req[r].target].pos >= desc[req[r].target].pos
       /\ fut[r] = "Submitted" => desc'[req[r].target].pos = desc[req[r].target].pos + n
  BY <1>1, <1>2, <1>4, <1>5, AdvanceFacts
<1> QED
  BY <1>2, <1>3, <1>4, <1>6, <1>11, <1>12, <1>13, <1>14, AnswerIInv

\* A write moves up to the bound and makes the file longer, or fails.
LEMMA KernelWriteIInv == ASSUME IInv, NEW r \in Rws, KernelWrite(r) PROVE IInv'
<1>1. req[r].target \in Descs /\ MaxSize \in 0..MaxSize /\ size \in 0..MaxSize /\ MaxSize \in Nat
  BY FileAssumption, RwKind DEF KernelWrite, IInv, StateTyped, Requests
<1>2. UNCHANGED <<node, fdtab, file, told, req>> /\ req[r].kind = "write"
  BY DEF KernelWrite
<1>3. req' \in [Handles -> Requests]
  BY <1>2 DEF IInv, StateTyped
<1>4. CASE Io!Answer(r, Failed) /\ UNCHANGED <<desc, size>>
  <2>1. Failed \in Answers /\ ~(Failed >= 0)
    BY DEF Answers, Failed
  <2>2. /\ desc' \in [Descs -> [kind : {"none", "file", "stream"}, pos : 0..MaxSize]]
        /\ desc[req[r].target].pos \in Int
    BY <1>1, <1>4 DEF IInv, StateTyped
  <2>3. desc'[req[r].target].pos = desc[req[r].target].pos + (IF Failed >= 0 THEN Failed ELSE 0)
    BY <1>4, <2>1, <2>2
  <2>4. desc'[req[r].target].pos >= desc[req[r].target].pos
    BY <1>4, <2>2
  <2> QED
    BY <1>1, <1>2, <1>3, <1>4, <2>1, <2>2, <2>3, <2>4, AnswerIInv
<1>5. ASSUME NEW n \in Moved(req[r].len, Room(r, MaxSize)), Io!Answer(r, n), Advance(r, n),
             size' = IF n = 0 \/ desc[req[r].target].kind = "stream" THEN size
                     ELSE Max({size, Start(r) + n})
      PROVE  IInv'
  <2>1. /\ n \in 0..MaxSize /\ Start(r) \in 0..MaxSize
        /\ n > 0 => Start(r) + n <= MaxSize
    BY <1>1, MovedFits DEF IInv
  <2>2. op[r] = "kernel"
    BY <1>5 DEF Io!Answer
  <2>3. n \in Answers /\ n >= 0
    BY <2>1, <1>1 DEF Answers
  <2>4. size' \in 0..MaxSize
    <3>1. CASE n = 0 \/ desc[req[r].target].kind = "stream"
      BY <1>1, <1>5, <3>1
    <3>2. CASE ~(n = 0 \/ desc[req[r].target].kind = "stream")
      <4>1. size' = IF size >= Start(r) + n THEN size ELSE Start(r) + n
        <5>1. size \in Int /\ Start(r) + n \in Int
          BY <1>1, <2>1
        <5>2. Max({size, Start(r) + n}) = IF size >= Start(r) + n THEN size ELSE Start(r) + n
          BY <5>1, MinMaxPair
        <5> QED
          BY <1>5, <3>2, <5>2
      <4> QED
        BY <1>1, <2>1, <3>2, <4>1
    <3> QED
      BY <3>1, <3>2
  <2>5. /\ desc' \in [Descs -> [kind : {"none", "file", "stream"}, pos : 0..MaxSize]]
        /\ \A f \in Descs : desc'[f].kind = desc[f].kind
        /\ \A f \in Descs : f # req[r].target => desc'[f] = desc[f]
        /\ desc'[req[r].target].pos >= desc[req[r].target].pos
        /\ fut[r] = "Submitted" => desc'[req[r].target].pos = desc[req[r].target].pos + n
    BY <1>1, <1>5, <2>1, <2>2, AdvanceFacts
  <2> QED
    BY <1>2, <1>3, <1>5, <2>3, <2>4, <2>5, AnswerIInv
<1> QED
  BY <1>4, <1>5 DEF KernelWrite

-----------------------------------------------------------------------------
\* Nothing is open and nothing is asked for.
LEMMA InitIInv == ASSUME Init PROVE IInv
<1> USE DEF Init
<1>1. PortTyped /\ PortOrder
  BY DEF PortTyped, PortOrder, Io!Init
<1>2. /\ 0 \in 0..MaxSize /\ NoDesc \notin Descs /\ NoFd \notin Fds /\ LenMod \in Nat \ {0}
  BY FileAssumption DEF NoDesc, NoFd, Descs
<1>3. \A h \in Handles : NoRequest(h) \in Requests
  BY DEF NoRequest, Request, Requests, Kinds
<1>4. StateTyped
  BY <1>2, <1>3 DEF StateTyped
<1>5. /\ \A h \in Handles : fut[h] = "New" /\ op[h] = "none" /\ ans[h] = <<>>
      /\ \A f \in Descs : file[f] = NoFd /\ desc[f].kind = "none" /\ told[f] = 0 /\ desc[f].pos = 0
      /\ \A n \in Fds : fdtab[n] = NoDesc
      /\ \A r \in Rws : r \in Handles /\ req[r].target = NoDesc /\ req[r].kind = "open"
  BY DEF Io!Init, NoRequest, Request, Handles
<1>6. Numbers
  BY <1>2, <1>5 DEF Numbers, DescriptorsOwned, Handles, Descs
<1>7. Borrows
  BY <1>5 DEF Borrows
<1>8. Ledger
  <2>1. \A r \in Rws, f \in Descs : ~Unread(r, f)
    BY <1>5 DEF Unread
  <2> QED
    BY <1>5, <2>1 DEF Ledger
<1>9. NothingRead
  BY <1>5 DEF NothingRead
<1> QED
  BY <1>1, <1>4, <1>6, <1>7, <1>8, <1>9 DEF IInv

\* Every step keeps the invariant.
LEMMA StepIInv == IInv /\ [Next]_vars => IInv'
<1> SUFFICES ASSUME IInv, [Next]_vars PROVE IInv'
  OBVIOUS
<1>1. ASSUME NEW h \in Opens, NEW kind \in {"open", "create", "mkdir"}, StartOpen(h, kind)
      PROVE  IInv'
  BY <1>1, StartOpenIInv
<1>2. ASSUME NEW h \in Opens, TakeOpen(h) \/ KernelOpen(h) \/ KernelMkdir(h) PROVE IInv'
  BY <1>2, TakeOpenIInv, KernelOpenIInv, KernelMkdirIInv
<1>3. ASSUME NEW f \in Descs, Close(f) PROVE IInv'
  BY <1>3, CloseIInv
<1>4. ASSUME NEW f \in Descs, NEW base \in {"Start", "End", "Current"}, NEW off \in -1..1,
             seek(f, base, off)
      PROVE  IInv'
  <2>1. off \in Int
    OBVIOUS
  <2> QED
    BY <1>4, <2>1, SeekIInv
<1>5. ASSUME NEW f \in Socks, Socket(f) PROVE IInv'
  BY <1>5, SocketIInv
<1>6. ASSUME NEW r \in Rws, NEW kind \in {"read", "write"}, NEW f \in Descs, NEW len \in Lens,
             StartRw(r, kind, f, len)
      PROVE  IInv'
  BY <1>6, StartRwIInv
<1>7. ASSUME NEW r \in Rws, TakeRw(r) \/ KernelBadFd(r) \/ KernelRead(r) \/ KernelWrite(r)
      PROVE  IInv'
  BY <1>7, TakeRwIInv, KernelBadFdIInv, KernelReadIInv, KernelWriteIInv
<1>8. ASSUME NEW h \in Handles, DropFuture(h) PROVE IInv'
  BY <1>8, DropFutureIInv
<1>9. CASE Enter
  BY <1>9, EnterIInv
<1>10. CASE UNCHANGED vars
  <2>1. UNCHANGED <<node, size, fdtab, desc, file, told, req, fut, op, ans, out>>
    BY <1>10 DEF vars, port
  <2>2. PortTyped' /\ PortOrder' /\ StateTyped'
    BY <2>1 DEF IInv, PortTyped, PortOrder, StateTyped
  <2>3. Numbers' /\ Borrows'
    BY <2>1 DEF IInv, Numbers, DescriptorsOwned, Borrows
  <2>4. Ledger' /\ NothingRead'
    BY <2>1 DEF IInv, Ledger, Unread, Gain, Undisturbed, NothingRead
  <2> QED
    BY <2>2, <2>3, <2>4 DEF IInv
<1> QED
  BY <1>1, <1>2, <1>3, <1>4, <1>5, <1>6, <1>7, <1>8, <1>9, <1>10 DEF Next

-----------------------------------------------------------------------------
\* The invariant holds in every reachable state.
THEOREM Invariance == Spec => []IInv
<1>1. Init => IInv
  BY InitIInv
<1>2. IInv /\ [Next]_vars => IInv'
  BY StepIInv
<1> QED
  BY <1>1, <1>2, PTL DEF Spec

\* The invariant gives the types.
LEMMA TypesFollow == IInv => TypeOK
<1> SUFFICES ASSUME IInv PROVE TypeOK
  OBVIOUS
<1>1. Io!TypeOK
  BY DEF IInv, PortTyped, Io!TypeOK, Answers
<1>2. \A h \in Handles : req[h].kind \in Kinds /\ req[h].target \in Descs \cup {NoDesc}
  BY DEF IInv, StateTyped, Requests
<1> QED
  BY <1>1, <1>2 DEF IInv, StateTyped, TypeOK

\* Files, descriptors and requests keep their types: no position, size or result
\* leaves its range (fs.rs, read.rs, write.rs).
THEOREM TypeCorrect == Spec => []TypeOK
  BY TypesFollow, Invariance, PTL

\* What read(), write() and seek() return adds up to the position of the file,
\* unless a dropped future's operation has reached it.
LEMMA OffsetFollows == IInv => OffsetAccounted
<1> SUFFICES ASSUME IInv, NEW f \in Descs,
                    \A r \in Rws : req[r].target = f => fut[r] = "Finished"
             PROVE  desc[f].pos = told[f]
  BY DEF OffsetAccounted
<1>1. Undisturbed(f)
  BY DEF Undisturbed
<1>2. \A r \in Rws : ~Unread(r, f)
  BY DEF Unread, IInv, Borrows
<1> QED
  BY <1>1, <1>2 DEF IInv, Ledger

\* The operation of a live future meets the file it was made from.
LEMMA LiveOpsFollow == IInv => LiveOpsOwnFile
  BY DEF IInv, Borrows, LiveOpsOwnFile

\* Every number in use has one owner, or is left behind by a dropped FileOpen.
LEMMA DescriptorsFollow == IInv => DescriptorsOwned
  BY DEF IInv, Numbers

\* Ok(0) from a read into a buffer that the kernel was told the length of means the
\* end of the file.
LEMMA ZeroFollows == IInv => ZeroMeansEof
  BY DEF IInv, Borrows, NothingRead, ZeroMeansEof

=============================================================================
