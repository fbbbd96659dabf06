---------------------------- MODULE Staging_proofs ----------------------------
(***************************************************************************)
(* Proofs about Staging, for any files, contents, bounds and number of     *)
(* writes: what a reader accepts is one version of the file, what is used  *)
(* is what was reviewed, and what is run is what was pinned.               *)
(***************************************************************************)
EXTENDS Staging, SequenceTheorems, TLAPS

USE StagingAssumption

Held == pc \in {"pinned", "read", "reread", "verify"}
Has(content, i, v) == i \in DOMAIN content /\ content[i] = v

-----------------------------------------------------------------------------
(***************************************************************************)
(* Types.                                                                  *)
(***************************************************************************)

Files == [Object -> [ino : Ino, mtime : Nat, data : Seq(Nat)]]

\* A write is one stamp, at most the new one, on one file, whose chunks are the
\* old ones or were written now.
WriteTo(o, content, m) ==
    /\ file' = [file EXCEPT ![o] = [ino |-> file[o].ino, mtime |-> m, data |-> content]]
    /\ m \in Stamp(o)
    /\ clock' = clock + 1
    /\ UNCHANGED <<path, stamped, reading>>

LEMMA WriteShape ==
    ASSUME TypeOK, NEW o \in Object, Overwrite(o) \/ Extend(o) \/ Truncate(o)
    PROVE  \E content \in Seq(Nat), m \in Nat :
              /\ WriteTo(o, content, m)
              /\ \A i \in DOMAIN content :
                    Has(file[o].data, i, content[i]) \/ content[i] \in Written
<1> DEFINE old == file[o].data
<1>1. old \in Seq(Nat) /\ file[o].mtime \in Nat /\ clock \in Nat
  BY DEF TypeOK
<1>2. Written \subseteq Nat /\ Stamp(o) \subseteq Nat
  BY <1>1 DEF Written, Stamp
<1>3. SUFFICES \E content \in Seq(Nat) :
                 /\ Put(o, content)
                 /\ \A i \in DOMAIN content : Has(old, i, content[i]) \/ content[i] \in Written
  <2>1. PICK content \in Seq(Nat) :
               /\ Put(o, content)
               /\ \A i \in DOMAIN content : Has(old, i, content[i]) \/ content[i] \in Written
    BY <1>3
  <2>2. PICK m \in Stamp(o) :
               file' = [file EXCEPT ![o] = [ino |-> file[o].ino, mtime |-> m, data |-> content]]
    BY <2>1 DEF Put
  <2>3. WriteTo(o, content, m)
    BY <2>1, <2>2 DEF Put, WriteTo
  <2> QED BY <2>1, <2>3, <1>2
<1> HIDE DEF old
<1>4. CASE Overwrite(o)
  <2>1. PICK i \in DOMAIN old, v \in Written : Put(o, [old EXCEPT ![i] = v])
    BY <1>4 DEF Overwrite, old
  <2>2. [old EXCEPT ![i] = v] \in Seq(Nat)
    BY <1>1, <1>2, ExceptSeq
  <2> QED BY <1>1, <2>1, <2>2 DEF Has
<1>5. CASE Extend(o)
  <2>1. PICK v \in Written : Put(o, Append(old, v))
    BY <1>5 DEF Extend, old
  <2>2. Append(old, v) \in Seq(Nat)
    BY <1>1, <1>2
  <2>3. \A i \in DOMAIN Append(old, v) : Has(old, i, Append(old, v)[i]) \/ Append(old, v)[i] \in Written
    BY <1>1, <1>2 DEF Has
  <2> QED BY <2>1, <2>2, <2>3
<1>6. CASE Truncate(o)
  <2>1. PICK n \in 0..(Len(old) - 1) : Put(o, SubSeq(old, 1, n))
    BY <1>6 DEF Truncate, old
  <2>2. SubSeq(old, 1, n) \in Seq(Nat)
    BY <1>1
  <2>3. \A i \in DOMAIN SubSeq(old, 1, n) : Has(old, i, SubSeq(old, 1, n)[i])
    BY <1>1 DEF Has
  <2> QED BY <2>1, <2>2, <2>3
<1> QED BY <1>4, <1>5, <1>6

\* Stamps and chunks are from before now.
Past ==
    /\ clock >= Epoch
    /\ \A o \in Object :
          /\ file[o].mtime <= clock
          /\ \A i \in DOMAIN file[o].data : file[o].data[i] <= clock

\* Every writer: the file that is open is changed by a write only, and a write to
\* it has its own stamp, or brings nothing back.
DisturbedFile ==
    /\ path' \in Object \cup {NoFile}
    /\ file' \in Files
    /\ clock' \in Nat /\ clock' >= clock
    /\ UNCHANGED <<stamped, reading>>
    /\ fd \in Object =>
         /\ file'[fd].mtime \in {file[fd].mtime, clock + 1}
         /\ stamped /\ file'[fd].mtime = file[fd].mtime => file'[fd] = file[fd]
         /\ stamped \/ \A i \in DOMAIN file'[fd].data :
                Has(file[fd].data, i, file'[fd].data[i]) \/ file'[fd].data[i] = clock + 1

LEMMA DisturbShape ==
    ASSUME TypeOK, Past, Disturb
    PROVE  DisturbedFile /\ Past'
<1> USE DEF Files
<1>1. file \in Files /\ clock \in Nat /\ path \in Object \cup {NoFile} /\ stamped \in BOOLEAN
  BY DEF TypeOK
<1>2. ASSUME NEW o \in Object, Overwrite(o) \/ Extend(o) \/ Truncate(o)
      PROVE  DisturbedFile /\ Past'
  <2>1. PICK content \in Seq(Nat), m \in Nat :
               /\ WriteTo(o, content, m)
               /\ \A i \in DOMAIN content :
                     Has(file[o].data, i, content[i]) \/ content[i] \in Written
    BY <1>2, WriteShape
  <2> DEFINE new == [ino |-> file[o].ino, mtime |-> m, data |-> content]
  <2>2. new \in [ino : Ino, mtime : Nat, data : Seq(Nat)] /\ new.mtime = m /\ new.data = content
    BY <1>1
  <2>3. file' = [file EXCEPT ![o] = new]
    BY <2>1 DEF WriteTo
  <2>4. m \in Stamp(o) /\ clock' = clock + 1 /\ UNCHANGED <<path, stamped, reading>>
    BY <2>1 DEF WriteTo
  <2> HIDE DEF new
  <2>5. file' \in Files /\ file'[o] = new /\ \A p \in Object : p # o => file'[p] = file[p]
    BY <1>1, <2>2, <2>3
  <2>6. m = clock + 1 \/ (~stamped /\ m = file[o].mtime)
    BY <2>4 DEF Stamp
  <2>7. file[o].mtime <= clock /\ \A i \in DOMAIN file[o].data : file[o].data[i] <= clock
    BY DEF Past
  <2>8. \A i \in DOMAIN content :
           \/ Has(file[o].data, i, content[i])
           \/ stamped /\ content[i] <= clock + 1
           \/ content[i] = clock + 1
    BY <1>1, <2>1 DEF Written
  <2>9. file'[o].data = content /\ file'[o].mtime = m
    BY <2>2, <2>5
  <2>10. fd \in Object =>
           /\ file'[fd].mtime \in {file[fd].mtime, clock + 1}
           /\ stamped /\ file'[fd].mtime = file[fd].mtime => file'[fd] = file[fd]
    <3>1. CASE fd = o
      BY <1>1, <2>6, <2>7, <2>9, <3>1
    <3>2. CASE fd # o
      BY <2>5, <3>2
    <3> QED BY <3>1, <3>2
  <2>11. fd \in Object =>
           stamped \/ \A i \in DOMAIN file'[fd].data :
              Has(file[fd].data, i, file'[fd].data[i]) \/ file'[fd].data[i] = clock + 1
    <3>1. CASE fd = o
      BY <2>8, <2>9, <3>1
    <3>2. CASE fd # o
      BY <2>5, <3>2 DEF Has
    <3> QED BY <3>1, <3>2
  <2>12. \A i \in DOMAIN content : content[i] <= clock + 1
    <3> SUFFICES ASSUME NEW i \in DOMAIN content PROVE content[i] <= clock + 1
      OBVIOUS
    <3>1. CASE Has(file[o].data, i, content[i])
      BY <1>1, <2>7, <3>1 DEF Has
    <3> QED BY <1>1, <2>8, <3>1
  <2>13. Past'
    <3> SUFFICES ASSUME NEW p \in Object
                 PROVE  /\ file'[p].mtime <= clock + 1
                        /\ \A i \in DOMAIN file'[p].data : file'[p].data[i] <= clock + 1
      BY <1>1, <2>4 DEF Past
    <3>1. CASE p = o
      BY <1>1, <2>6, <2>7, <2>9, <2>12, <3>1
    <3>2. CASE p # o
      <4>1. file[p].mtime <= clock /\ \A i \in DOMAIN file[p].data : file[p].data[i] <= clock
        BY DEF Past
      <4>2. file[p].mtime \in Nat /\ file[p].data \in Seq(Nat)
        BY <1>1
      <4> QED BY <1>1, <2>5, <3>2, <4>1, <4>2
    <3> QED BY <3>1, <3>2
  <2> QED BY <1>1, <2>4, <2>5, <2>10, <2>11, <2>13 DEF DisturbedFile
<1>3. ASSUME NEW o \in Object, Replace(o)
      PROVE  DisturbedFile /\ Past'
  <2>1. PICK i \in Ino, m \in 0..clock, c \in Contents :
               file' = [file EXCEPT ![o] = [ino |-> i, mtime |-> m, data |-> c]]
    BY <1>3 DEF Replace
  <2> DEFINE new == [ino |-> i, mtime |-> m, data |-> c]
  <2>2. c \in Seq(Nat) /\ (\A k \in DOMAIN c : c[k] <= Epoch) /\ m \in Nat /\ m <= clock
    <3>1. c \in Seq(0..Epoch)
      OBVIOUS
    <3> QED BY <1>1, <3>1
  <2>3. new \in [ino : Ino, mtime : Nat, data : Seq(Nat)] /\ new.mtime = m /\ new.data = c
    BY <2>2
  <2>4. file' = [file EXCEPT ![o] = new]
    BY <2>1
  <2> HIDE DEF new
  <2>5. file' \in Files /\ file'[o] = new /\ \A p \in Object : p # o => file'[p] = file[p]
    BY <1>1, <2>3, <2>4
  <2>6. o # fd /\ path' = o /\ clock' = clock + 1 /\ UNCHANGED <<stamped, reading>>
    BY <1>3 DEF Replace
  <2>7. fd \in Object => file'[fd] = file[fd]
    BY <2>5, <2>6
  <2>8. Past'
    <3> SUFFICES ASSUME NEW p \in Object
                 PROVE  /\ file'[p].mtime <= clock + 1
                        /\ \A k \in DOMAIN file'[p].data : file'[p].data[k] <= clock + 1
      BY <1>1, <2>6 DEF Past
    <3>1. file[p].mtime <= clock /\ \A k \in DOMAIN file[p].data : file[p].data[k] <= clock
      BY DEF Past
    <3>2. file[p].mtime \in Nat /\ file[p].data \in Seq(Nat) /\ clock >= Epoch
      BY <1>1 DEF Past
    <3>3. CASE p = o
      BY <1>1, <2>2, <2>3, <2>5, <3>2, <3>3
    <3>4. CASE p # o
      BY <1>1, <2>5, <3>1, <3>2, <3>4
    <3> QED BY <3>3, <3>4
  <2> QED BY <1>1, <2>5, <2>6, <2>7, <2>8 DEF DisturbedFile, Has
<1>4. CASE Remove
  <2>1. path' = NoFile /\ UNCHANGED <<file, clock, stamped, reading>>
    BY <1>4 DEF Remove
  <2> QED BY <1>1, <2>1 DEF DisturbedFile, Has, Past
<1> QED BY <1>2, <1>3, <1>4 DEF Disturb

-----------------------------------------------------------------------------
(***************************************************************************)
(* Type correctness.                                                       *)
(***************************************************************************)

LEMMA StatType ==
    ASSUME TypeOK, NEW o \in Object
    PROVE  Stat(o) \in Stats
BY DEF TypeOK, Stat, Stats

LEMMA TypeInit == Init => TypeOK /\ Past
<1> SUFFICES ASSUME Init PROVE TypeOK /\ Past
  OBVIOUS
<1>1. Contents \subseteq Seq(Nat) /\ \A c \in Contents : \A i \in DOMAIN c : c[i] <= Epoch
  <2> SUFFICES ASSUME NEW c \in Contents
               PROVE  c \in Seq(Nat) /\ \A i \in DOMAIN c : c[i] <= Epoch
    OBVIOUS
  <2>1. c \in Seq(0..Epoch)
    OBVIOUS
  <2> QED BY <2>1
<1>2. file \in [Object -> [ino : Ino, mtime : {0}, data : Contents]] /\ clock = Epoch
  BY DEF Init
<1>3. \A o \in Object : file[o] \in [ino : Ino, mtime : Nat, data : Seq(Nat)]
  BY <1>1, <1>2
<1>4. Past
  BY <1>1, <1>2 DEF Past
<1>5. file \in [Object -> [ino : Ino, mtime : Nat, data : Seq(Nat)]]
  BY <1>2, <1>3
<1> QED BY <1>4, <1>5 DEF Init, TypeOK, NoStat, Stats, Reader

Selected ==
    /\ reader = "archive" /\ round = 1
    /\ round' = 2 /\ data' = <<>> /\ fd' = NoFile /\ pc' = "open"
    /\ UNCHANGED <<disk, reader, seen, opened, again, atOpen, mid, used>>

Accept ==
    /\ ~(reader = "archive" /\ round = 1)
    /\ used' = IF reader = "load" THEN Reviewed ELSE data
    /\ pc' = "accepted"
    /\ UNCHANGED <<disk, reader, round, seen, opened, fd, data, again, atOpen, mid>>

LEMMA VerifyShape ==
    ASSUME Verify
    PROVE  /\ pc = "verify"
           /\ \/ Refuse /\ UNCHANGED <<disk, reader>>
              \/ Verified /\ (Selected \/ Accept)
<1>1. pc = "verify" /\ UNCHANGED <<disk, reader>>
  BY DEF Verify
<1>2. CASE ~Verified
  BY <1>1, <1>2 DEF Verify
<1>3. CASE Verified /\ reader = "archive" /\ round = 1
  BY <1>1, <1>3 DEF Verify, Selected
<1>4. CASE Verified /\ ~(reader = "archive" /\ round = 1)
  BY <1>1, <1>4 DEF Verify, Accept
<1> QED BY <1>1, <1>2, <1>3, <1>4

LEMMA TypeStep == TypeOK /\ Past /\ [Next]_vars => TypeOK' /\ Past'
<1> SUFFICES ASSUME TypeOK, Past, [Next]_vars PROVE TypeOK' /\ Past'
  OBVIOUS
<1>1. CASE Disturb
  <2>1. DisturbedFile /\ Past'
    BY <1>1, DisturbShape
  <2> QED BY <2>1 DEF TypeOK, DisturbedFile, Files, reading
<1> DEFINE Rest == UNCHANGED disk => Past'
<1>2. Rest
  BY DEF disk, Past
<1>3. ASSUME NEW r \in Reader, Begin(r) PROVE TypeOK' /\ Past'
  <2>1. /\ reader' \in Reader /\ pc' \in {"open", "look"} /\ round' = 1 /\ fd' = NoFile
        /\ seen' = NoStat /\ opened' = NoStat
        /\ data' = <<>> /\ again' = <<>> /\ atOpen' = <<>> /\ mid' = <<>> /\ used' = <<>>
        /\ UNCHANGED disk
    BY <1>3 DEF Begin
  <2>2. NoStat \in Stats /\ <<>> \in Seq(Nat)
    BY DEF NoStat, Stats
  <2> QED BY <1>2, <2>1, <2>2 DEF TypeOK, disk
<1>4. CASE Look
  <2>1. path \in Object => Stat(path) \in Stats
    BY StatType
  <2> QED BY <1>2, <1>4, <2>1 DEF Look, Refuse, TypeOK, disk
<1>5. CASE Open
  <2>1. path \in Object => Stat(path) \in Stats /\ file[path].data \in Seq(Nat)
    BY StatType DEF TypeOK
  <2> QED BY <1>2, <1>5, <2>1 DEF Open, Refuse, TypeOK, disk
<1>6. CASE CheckPinned
  BY <1>2, <1>6 DEF CheckPinned, Refuse, TypeOK, disk
<1>7. CASE Read
  <2>1. fd \in Object /\ file[fd].data \in Seq(Nat) /\ data \in Seq(Nat)
    BY <1>7 DEF Read, TypeOK
  <2>2. ~AtEnd(data) => NextChunk(data) \in Seq(Nat)
    BY <2>1 DEF AtEnd, NextChunk
  <2>3. TypeOK'
    BY <1>7, <2>1, <2>2 DEF Read, Refuse, TypeOK, disk
  <2> QED BY <1>2, <1>7, <2>3 DEF Read
<1>8. CASE Reread
  <2>1. fd \in Object /\ file[fd].data \in Seq(Nat) /\ again \in Seq(Nat)
    BY <1>8 DEF Reread, TypeOK
  <2>2. ~AtEnd(again) => NextChunk(again) \in Seq(Nat)
    BY <2>1 DEF AtEnd, NextChunk
  <2> QED BY <1>2, <1>8, <2>1, <2>2 DEF Reread, TypeOK, disk
<1>9. CASE Verify
  <2>1. CASE Refuse /\ UNCHANGED <<disk, reader>>
    BY <1>2, <2>1 DEF Refuse, TypeOK, disk
  <2>2. CASE Selected
    <3>1. <<>> \in Seq(Nat)
      OBVIOUS
    <3> QED BY <1>2, <2>2, <3>1 DEF Selected, TypeOK, disk
  <2>3. CASE Accept
    <3>1. used' \in Seq(Nat)
      BY <2>3 DEF Accept, TypeOK
    <3> QED BY <1>2, <2>3, <3>1 DEF Accept, TypeOK, disk
  <2> QED BY <1>9, <2>1, <2>2, <2>3, VerifyShape
<1>10. CASE UNCHANGED vars
  BY <1>2, <1>10 DEF vars, disk, TypeOK
<1> QED BY <1>1, <1>3, <1>4, <1>5, <1>6, <1>7, <1>8, <1>9, <1>10 DEF Next

\* What the tools keep of a file is a record of what stat said and sequences of
\* chunks, and a reader that is past the opening has a file open.
THEOREM TypeCorrect == Spec => []TypeOK
<1>1. Init => TypeOK /\ Past
  BY TypeInit
<1>2. TypeOK /\ Past /\ [Next]_vars => (TypeOK /\ Past)'
  BY TypeStep
<1> QED BY <1>1, <1>2, PTL DEF Spec

-----------------------------------------------------------------------------
(***************************************************************************)
(* One version. Where each write has its own stamp, a stamp that is still  *)
(* that of the opening says that nothing was written since; a later one is *)
(* later than what stat saw, too. Where stamps are coarse, a chunk that was*)
(* overwritten before the end of the first pass cannot be read again.      *)
(***************************************************************************)

Before ==
    /\ seen.mtime <= clock /\ opened.mtime <= clock
    /\ \A i \in DOMAIN data : data[i] <= clock
    /\ pc \in {"look", "open", "pinned"} => data = <<>>
    /\ pc \in {"look", "open", "pinned", "read"} /\ reader = "stage" => again = <<>>

Unwritten ==
    Held /\ stamped =>
        \/ /\ file[fd].mtime = opened.mtime
           /\ file[fd].data = atOpen
           /\ \A i \in DOMAIN data : Has(atOpen, i, data[i])
           /\ pc \in {"reread", "verify"} => data = atOpen /\ mid = atOpen
        \/ /\ file[fd].mtime > opened.mtime
           /\ file[fd].mtime > seen.mtime

ReadTwice ==
    pc \in {"reread", "verify"} /\ reader = "stage" /\ ~stamped =>
        /\ Len(mid) <= Len(data)
        /\ \A i \in DOMAIN data :
              \/ Has(mid, i, data[i])
              \/ ~Has(file[fd].data, i, data[i]) /\ ~Has(again, i, data[i])

Kept == OneVersion /\ ReviewedIsUsed /\ PinnedIsRun

IInv == TypeOK /\ Past /\ Before /\ Unwritten /\ ReadTwice /\ Kept

LEMMA InvInit == Init => IInv
<1> SUFFICES ASSUME Init PROVE IInv
  OBVIOUS
<1>1. TypeOK /\ Past
  BY TypeInit
<1>2. Before
  BY DEF Init, Before, NoStat
<1>3. Unwritten /\ ReadTwice /\ Kept
  BY DEF Init, Unwritten, ReadTwice, Kept, OneVersion, ReviewedIsUsed, PinnedIsRun, Held
<1> QED BY <1>1, <1>2, <1>3 DEF IInv

LEMMA DisturbKeeps ==
    ASSUME IInv, Disturb
    PROVE  Before' /\ Unwritten' /\ ReadTwice' /\ Kept'
<1>1. DisturbedFile /\ TypeOK /\ TypeOK'
  BY DisturbShape, TypeStep DEF IInv, Next
<1>2. UNCHANGED <<stamped, reader, pc, round, seen, opened, fd, data, again, atOpen, mid, used>>
  BY <1>1 DEF DisturbedFile, reading
<1>3. clock \in Nat /\ clock' \in Nat /\ clock' >= clock
      /\ seen.mtime \in Nat /\ opened.mtime \in Nat /\ data \in Seq(Nat)
  BY <1>1 DEF DisturbedFile, TypeOK, Stats
<1>4. Before'
  <2>1. \A i \in DOMAIN data : data[i] <= clock'
    BY <1>3 DEF IInv, Before
  <2> QED BY <1>2, <1>3, <2>1 DEF IInv, Before
<1>5. Unwritten'
  <2> SUFFICES ASSUME Held, stamped
               PROVE  \/ /\ file'[fd].mtime = opened.mtime
                         /\ file'[fd].data = atOpen
                         /\ \A i \in DOMAIN data : Has(atOpen, i, data[i])
                         /\ pc \in {"reread", "verify"} => data = atOpen /\ mid = atOpen
                      \/ /\ file'[fd].mtime > opened.mtime
                         /\ file'[fd].mtime > seen.mtime
    BY <1>2 DEF Unwritten, Held, Has
  <2>1. fd \in Object
    BY <1>1 DEF TypeOK, Held
  <2>2. seen.mtime <= clock /\ opened.mtime <= clock
    BY DEF IInv, Before
  <2>3. CASE file'[fd].mtime = file[fd].mtime
    BY <1>1, <2>1, <2>3 DEF DisturbedFile, IInv, Unwritten
  <2>4. CASE file'[fd].mtime = clock + 1
    BY <1>3, <2>2, <2>4
  <2> QED BY <1>1, <2>1, <2>3, <2>4 DEF DisturbedFile
<1>6. ReadTwice'
  <2> SUFFICES ASSUME pc \in {"reread", "verify"}, reader = "stage", ~stamped,
                      NEW i \in DOMAIN data, ~Has(mid, i, data[i])
               PROVE  ~Has(file'[fd].data, i, data[i]) /\ ~Has(again, i, data[i])
    BY <1>2 DEF IInv, ReadTwice, Has
  <2>1. ~Has(file[fd].data, i, data[i]) /\ ~Has(again, i, data[i])
    BY DEF IInv, ReadTwice
  <2>2. data[i] \in Nat /\ data[i] <= clock
    BY <1>3 DEF IInv, Before
  <2>3. \A k \in DOMAIN file'[fd].data :
           Has(file[fd].data, k, file'[fd].data[k]) \/ file'[fd].data[k] = clock + 1
    BY <1>1 DEF DisturbedFile, TypeOK
  <2>4. ASSUME Has(file'[fd].data, i, data[i]) PROVE FALSE
    <3>1. i \in DOMAIN file'[fd].data /\ file'[fd].data[i] = data[i]
      BY <2>4 DEF Has
    <3>2. Has(file[fd].data, i, data[i]) \/ data[i] = clock + 1
      BY <2>3, <3>1
    <3> QED BY <1>3, <2>1, <2>2, <3>2
  <2> QED BY <2>1, <2>4
<1>7. Kept'
  BY <1>2 DEF IInv, Kept, OneVersion, ReviewedIsUsed, PinnedIsRun
<1> QED BY <1>4, <1>5, <1>6, <1>7

LEMMA ReaderKeeps ==
    ASSUME IInv, TypeOK', \/ \E r \in Reader : Begin(r)
                          \/ Look \/ Open \/ CheckPinned \/ Read \/ Reread \/ Verify
    PROVE  Before' /\ Unwritten' /\ ReadTwice' /\ Kept'
<1>1. TypeOK /\ Past /\ Before /\ Unwritten /\ ReadTwice /\ Kept
  BY DEF IInv
<1>2. clock \in Nat /\ data \in Seq(Nat) /\ again \in Seq(Nat)
  BY <1>1 DEF TypeOK
<1>3. ASSUME Refuse, UNCHANGED <<disk, reader>>
      PROVE  Before' /\ Unwritten' /\ ReadTwice' /\ Kept'
  <2>1. pc' = "refused" /\ UNCHANGED <<clock, seen, opened, data, again>>
    BY <1>3 DEF Refuse, disk
  <2> QED BY <1>1, <2>1 DEF Before, Unwritten, Held, ReadTwice, Kept, OneVersion,
                            ReviewedIsUsed, PinnedIsRun
<1>4. CASE \E r \in Reader : Begin(r)
  <2>1. /\ pc' \in {"open", "look"} /\ seen' = NoStat /\ opened' = NoStat
        /\ data' = <<>> /\ again' = <<>> /\ clock' = clock
    BY <1>4 DEF Begin, disk
  <2> QED BY <1>2, <2>1 DEF Before, NoStat, Unwritten, Held, ReadTwice, Kept, OneVersion,
                            ReviewedIsUsed, PinnedIsRun
<1>5. CASE Look
  <2>1. CASE Refuse /\ UNCHANGED <<disk, reader>>
    BY <1>3, <2>1
  <2>2. CASE path \in Object /\ seen' = Stat(path) /\ pc' = "open"
             /\ UNCHANGED <<disk, reader, opened, data, again>>
    <3>1. seen'.mtime <= clock'
      BY <1>1, <2>2 DEF Past, Stat, disk
    <3> QED BY <1>1, <1>5, <2>2, <3>1 DEF Look, Before, disk, Unwritten, Held, ReadTwice, Kept,
                            OneVersion, ReviewedIsUsed, PinnedIsRun
  <2> QED BY <1>1, <1>5, <2>1, <2>2 DEF Look, TypeOK
<1>6. CASE Open
  <2>1. CASE Refuse /\ UNCHANGED <<disk, reader>>
    BY <1>3, <2>1
  <2>2. CASE path \in Object /\ fd' = path /\ opened' = Stat(path) /\ atOpen' = file[path].data
             /\ pc' \in {"pinned", "read"} /\ UNCHANGED <<disk, reader, seen, data, again>>
    <3>1. opened'.mtime <= clock' /\ opened'.mtime = file'[fd'].mtime /\ file'[fd'].data = atOpen'
      BY <1>1, <2>2 DEF Past, Stat, disk
    <3>2. data' = <<>> /\ clock' = clock
      BY <1>1, <1>6, <2>2 DEF Open, Before, disk
    <3> QED BY <1>1, <1>6, <2>2, <3>1, <3>2 DEF Open, Before, Unwritten, Held, ReadTwice, Kept,
                            OneVersion, ReviewedIsUsed, PinnedIsRun
  <2> QED BY <1>1, <1>6, <2>1, <2>2 DEF Open, TypeOK
<1>7. CASE CheckPinned
  <2>1. CASE Refuse /\ UNCHANGED <<disk, reader>>
    BY <1>3, <2>1
  <2>2. CASE pc = "pinned" /\ pc' = "read"
             /\ UNCHANGED <<disk, reader, round, seen, opened, fd, data, again, atOpen, mid, used>>
    BY <1>1, <2>2 DEF disk, Before, Unwritten, Held, Has, ReadTwice, Kept, OneVersion,
                      ReviewedIsUsed, PinnedIsRun
  <2> QED BY <1>7, <2>1, <2>2 DEF CheckPinned
<1> DEFINE cur == file[fd].data
<1>8. Held => cur \in Seq(Nat) /\ (\A i \in DOMAIN cur : cur[i] <= clock) /\ fd \in Object
  BY <1>1 DEF TypeOK, Past, Held
<1>9. CASE Read
  <2>1. CASE Refuse /\ UNCHANGED <<disk, reader>>
    BY <1>3, <2>1
  <2>2. CASE /\ pc = "read" /\ AtEnd(data) /\ mid' = cur
             /\ pc' = IF reader = "stage" THEN "reread" ELSE "verify"
             /\ UNCHANGED <<disk, reader, round, seen, opened, fd, data, again, atOpen, used>>
    <3>1. Before'
      BY <1>1, <2>2 DEF Before, disk
    <3>2. Unwritten'
      <4>1. cur \in Seq(Nat) /\ Len(cur) <= Len(data)
        BY <1>2, <1>8, <2>2 DEF Held, AtEnd
      <4>2. ASSUME stamped, cur = atOpen, \A i \in DOMAIN data : Has(atOpen, i, data[i])
            PROVE  data = cur
        BY <1>2, <4>1, <4>2 DEF Has
      <4> QED BY <1>1, <2>2, <4>2 DEF Unwritten, Held, Has, disk
    <3>3. ReadTwice'
      <4> SUFFICES ASSUME reader = "stage", ~stamped
                   PROVE  /\ Len(cur) <= Len(data)
                          /\ \A i \in DOMAIN data :
                                Has(cur, i, data[i])
                                \/ (~Has(cur, i, data[i]) /\ ~Has(again, i, data[i]))
        BY <2>2 DEF ReadTwice, Has, disk
      <4>1. again = <<>>
        BY <1>1, <2>2 DEF Before
      <4> QED BY <1>2, <1>8, <2>2, <4>1 DEF Held, AtEnd, Has
    <3> QED BY <1>1, <2>2, <3>1, <3>2, <3>3 DEF Kept, OneVersion, ReviewedIsUsed, PinnedIsRun
  <2>3. CASE /\ pc = "read" /\ ~AtEnd(data) /\ data' = NextChunk(data)
             /\ UNCHANGED <<disk, reader, pc, round, seen, opened, fd, again, atOpen, mid, used>>
    <3>1. cur \in Seq(Nat) /\ Len(data) + 1 \in DOMAIN cur
      BY <1>2, <1>8, <2>3 DEF Held, AtEnd
    <3>2. /\ DOMAIN data' = DOMAIN data \cup {Len(data) + 1}
          /\ data'[Len(data) + 1] = cur[Len(data) + 1]
          /\ \A i \in DOMAIN data : data'[i] = data[i] /\ i # Len(data) + 1
      BY <1>2, <2>3, <3>1 DEF NextChunk
    <3>3. Before'
      BY <1>1, <1>8, <2>3, <3>1, <3>2 DEF Before, disk, Held
    <3>4. Unwritten'
      BY <1>1, <2>3, <3>1, <3>2 DEF Unwritten, Held, Has, disk
    <3> QED BY <1>1, <2>3, <3>3, <3>4 DEF ReadTwice, Kept, OneVersion, ReviewedIsUsed, PinnedIsRun
  <2> QED BY <1>9, <2>1, <2>2, <2>3 DEF Read
<1>10. CASE Reread
  <2>1. pc = "reread" /\ pc' \in {"reread", "verify"}
        /\ UNCHANGED <<disk, reader, round, seen, opened, fd, data, atOpen, mid, used>>
    BY <1>10 DEF Reread
  <2>2. again' = again \/ (~AtEnd(again) /\ again' = NextChunk(again))
    BY <1>10 DEF Reread
  <2>3. Before' /\ Unwritten'
    BY <1>1, <2>1 DEF Before, Unwritten, Held, Has, disk
  <2>4. \A i \in DOMAIN data : Has(again', i, data[i]) => Has(again, i, data[i]) \/ Has(cur, i, data[i])
    <3>1. CASE again' = again
      BY <3>1
    <3>2. CASE ~AtEnd(again) /\ again' = NextChunk(again)
      <4>1. cur \in Seq(Nat) /\ Len(again) + 1 \in DOMAIN cur
        BY <1>2, <1>8, <2>1, <3>2 DEF Held, AtEnd
      <4>2. /\ DOMAIN again' = DOMAIN again \cup {Len(again) + 1}
            /\ again'[Len(again) + 1] = cur[Len(again) + 1]
            /\ \A i \in DOMAIN again : again'[i] = again[i]
        BY <1>2, <3>2, <4>1 DEF NextChunk
      <4> QED BY <4>1, <4>2 DEF Has
    <3> QED BY <2>2, <3>1, <3>2
  <2>5. ReadTwice'
    BY <1>1, <2>1, <2>4 DEF ReadTwice, Has, disk
  <2> QED BY <1>1, <2>1, <2>3, <2>5 DEF Kept, OneVersion, ReviewedIsUsed, PinnedIsRun
<1>11. CASE Verify
  <2>1. CASE Refuse /\ UNCHANGED <<disk, reader>>
    BY <1>3, <2>1
  <2>2. CASE Selected
    BY <1>1, <2>2 DEF Selected, disk, Before, Unwritten, Held, ReadTwice, Kept, OneVersion,
                      ReviewedIsUsed, PinnedIsRun
  <2>3. CASE Verified /\ Accept /\ pc = "verify"
    <3>1. /\ pc' = "accepted" /\ used' = (IF reader = "load" THEN Reviewed ELSE data)
          /\ UNCHANGED <<disk, reader, seen, opened, data, again, atOpen, mid>>
          /\ reader # "archive" => As = reader
      BY <2>3 DEF Accept, As
    <3>2. Before' /\ Unwritten' /\ ReadTwice'
      BY <1>1, <3>1 DEF Before, Unwritten, Held, ReadTwice, disk
    <3>3. fd \in Object /\ Stat(fd).mtime = file[fd].mtime
      BY <1>1, <2>3 DEF TypeOK, Stat
    <3>4. file[fd].mtime \in Nat /\ opened.mtime \in Nat /\ seen.mtime \in Nat
      BY <1>1, <3>3 DEF TypeOK, Stats
    <3>5. stamped /\ (Stat(fd) = opened \/ Stat(fd) = seen) => data = atOpen /\ mid = atOpen
      BY <1>1, <2>3, <3>3, <3>4 DEF Unwritten, Held
    <3>6. reader \in {"hash", "worktree", "pin"} => Stat(fd) = opened
      BY <2>3, <3>1 DEF Verified, Same, CheckedAfter, Matches
    <3>7. reader = "stage" => Stat(fd) = seen /\ data = again
      BY <2>3, <3>1 DEF Verified, Same
    <3>8. ASSUME reader = "stage" PROVE data = mid
      <4>1. CASE stamped
        BY <3>5, <3>7, <3>8, <4>1
      <4>2. CASE ~stamped
        <5>1. /\ Len(mid) <= Len(data)
              /\ \A i \in DOMAIN data : Has(mid, i, data[i]) \/ ~Has(again, i, data[i])
          BY <1>1, <2>3, <3>8, <4>2 DEF ReadTwice
        <5>2. \A i \in DOMAIN data : Has(mid, i, data[i])
          BY <3>7, <3>8, <5>1 DEF Has
        <5>3. mid \in Seq(Nat)
          BY <1>1 DEF TypeOK
        <5>4. Len(mid) = Len(data) /\ \A i \in DOMAIN data : mid[i] = data[i]
          <6>1. Len(data) = 0 \/ Len(data) \in DOMAIN data
            BY <1>2
          <6>2. Len(data) = 0 \/ Len(data) \in DOMAIN mid
            BY <5>2, <6>1 DEF Has
          <6> QED BY <1>2, <5>1, <5>2, <5>3, <6>2 DEF Has
        <5>5. \A i \in 1..Len(mid) : mid[i] = data[i]
          <6>1. DOMAIN data = 1..Len(data)
            BY <1>2
          <6> QED BY <5>4, <6>1
        <5> QED BY <1>2, <5>3, <5>4, <5>5, SeqEqual
      <4> QED BY <1>1, <4>1, <4>2 DEF TypeOK
    <3>9. OneVersion'
      BY <3>1, <3>5, <3>6, <3>8 DEF OneVersion, disk
    <3>10. PinnedIsRun'
      BY <3>1, <3>5, <3>6 DEF PinnedIsRun, disk
    <3>11. ReviewedIsUsed'
      BY <2>3, <3>1 DEF ReviewedIsUsed, Verified, Expected
    <3> QED BY <3>2, <3>9, <3>10, <3>11 DEF Kept
  <2> QED BY <1>11, <2>1, <2>2, <2>3, VerifyShape
<1> QED BY <1>4, <1>5, <1>6, <1>7, <1>9, <1>10, <1>11

LEMMA InvStep == IInv /\ [Next]_vars => IInv'
<1> SUFFICES ASSUME IInv, [Next]_vars PROVE IInv'
  OBVIOUS
<1>1. TypeOK' /\ Past'
  BY TypeStep DEF IInv
<1>2. CASE Disturb
  BY <1>1, <1>2, DisturbKeeps DEF IInv
<1>3. CASE \/ \E r \in Reader : Begin(r)
           \/ Look \/ Open \/ CheckPinned \/ Read \/ Reread \/ Verify
  BY <1>1, <1>3, ReaderKeeps DEF IInv
<1>4. CASE UNCHANGED vars
  <2>1. Before' /\ Unwritten' /\ ReadTwice'
    BY <1>4 DEF IInv, vars, disk, Before, Unwritten, Held, ReadTwice, Has
  <2>2. Kept'
    BY <1>4 DEF IInv, vars, disk, Kept, OneVersion, ReviewedIsUsed, PinnedIsRun
  <2> QED BY <1>1, <2>1, <2>2 DEF IInv
<1> QED BY <1>2, <1>3, <1>4 DEF Next

LEMMA Inductive == Spec => []IInv
<1>1. Init => IInv
  BY InvInit
<1>2. IInv /\ [Next]_vars => IInv'
  BY InvStep
<1> QED BY <1>1, <1>2, PTL DEF Spec

\* Nothing torn is accepted: a hash and a worktree file are of the moment of the
\* opening if no two writes share a stamp, a snapshot of the Rust toolchain is of
\* the end of its first pass even if they do.
THEOREM OneVersionIsAccepted == Spec => []OneVersion
<1>1. IInv => OneVersion
  BY DEF IInv, Kept
<1> QED BY <1>1, Inductive, PTL

\* The archive in the cargo template and the module that is loaded hold what was
\* reviewed, whatever is done to the files and however stamps are given.
THEOREM ReviewedIsWhatIsUsed == Spec => []ReviewedIsUsed
<1>1. IInv => ReviewedIsUsed
  BY DEF IInv, Kept
<1> QED BY <1>1, Inductive, PTL

\* A probe whose result is taken ran the executable that was pinned, if no two
\* writes share a stamp.
THEOREM PinnedIsWhatRan == Spec => []PinnedIsRun
<1>1. IInv => PinnedIsRun
  BY DEF IInv, Kept
<1> QED BY <1>1, Inductive, PTL
=============================================================================
