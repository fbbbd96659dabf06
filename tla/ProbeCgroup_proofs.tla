------------------------- MODULE ProbeCgroup_proofs -------------------------
(***************************************************************************)
(* Proofs about ProbeCgroup, for any number of tasks inside the cgroup and *)
(* outside it, any process numbers and any bounds: no foreign process is   *)
(* signalled, nothing is left stopped, what a scan accepts is one state of *)
(* the directories, and the sandbox a probe is put in is the policy its    *)
(* docstrings promise.                                                     *)
(***************************************************************************)
EXTENDS ProbeCgroup, FiniteSetTheorems, WellFoundedInduction, TLAPS

-----------------------------------------------------------------------------
(***************************************************************************)
(* What the two programs of the filters answer. The interpreter is a       *)
(* recursive function over the instructions; jumps go forward, so          *)
(* induction over sets of numbers unfolds it, and each block is run once,  *)
(* wherever it is placed.                                                  *)
(***************************************************************************)

\* Induction over the naturals, for a set.
LEMMA Induct ==
    ASSUME NEW S, 0 \in S, \A n \in Nat : n \in S => n + 1 \in S
    PROVE  Nat \subseteq S
<1>. DEFINE R == {ss \in Nat \X Nat : ss[1] < ss[2]}
            T == Nat \ S
<1>1. IsWellFoundedOn(R, Nat)
  BY NatLessThanWellFounded DEF OpToRel
<1>. HIDE DEF R
<1>2. SUFFICES ASSUME T # {} PROVE FALSE
  OBVIOUS
<1>3. PICK n \in T : \A m \in T : ~(<<m, n>> \in R)
  BY <1>1, <1>2, WFMin
<1>4. \A m \in T : ~(m < n)
  BY <1>3 DEF R
<1>5. n # 0 /\ n - 1 \in Nat
  BY <1>3
<1>6. n - 1 \notin T
  BY <1>4, <1>5
<1>. QED
  BY <1>3, <1>5, <1>6

\* Every instruction but a return leads to another of the program.
Ends(program) ==
    \A here \in 1..Len(program) :
        \/ program[here].op = "ret"
        \/ program[here].op = "ld" /\ here + 1 <= Len(program)
        \/ /\ program[here].op \in {"jeq", "jset"}
           /\ program[here].jt \in Nat /\ here + 1 + program[here].jt <= Len(program)
           /\ program[here].jf \in Nat /\ here + 1 + program[here].jf <= Len(program)

\* The row of an instruction depends on the rows behind it only.
LEMMA SameRow ==
    ASSUME NEW program, NEW call, Len(program) \in Nat, Ends(program),
           NEW here \in 1..Len(program), NEW f, NEW g,
           \A q \in (here + 1)..Len(program) : f[q] = g[q]
    PROVE  Row(f, program, call, here) = Row(g, program, call, here)
<1>1. SUFFICES ASSUME NEW field \in Fields
               PROVE  Row(f, program, call, here)[field] = Row(g, program, call, here)[field]
  BY DEF Row
<1>. DEFINE i == program[here]
            to == here + 1 + (IF Holds(i, call, field) THEN i.jt ELSE i.jf)
<1>2. CASE i.op = "ret"
  BY <1>2 DEF Row
<1>3. CASE i.op = "ld"
  BY <1>3 DEF Row, Ends
<1>4. CASE i.op \in {"jeq", "jset"}
  <2>1. to \in (here + 1)..Len(program)
    BY <1>4 DEF Ends
  <2>2. f[to] = g[to]
    BY <2>1
  <2>. QED
    BY <1>4, <2>2 DEF Row
<1>. QED
  BY <1>2, <1>3, <1>4 DEF Ends

\* Jumps go forward, so every row is the one the instructions say.
LEMMA Unfolded ==
    ASSUME NEW program, NEW call, Len(program) \in Nat, Ends(program)
    PROVE  \A here \in 1..Len(program) :
              Rows(program, call)[here] = Row(Rows(program, call), program, call, here)
<1>. DEFINE L == Len(program)
            IsTail(f, n) == f = [here \in (L - n + 1)..L |-> Row(f, program, call, here)]
            S == {n \in Nat : n <= L => \E f : IsTail(f, n)}
<1>1. 0 \in S
  <2>1. IsTail([here \in {} |-> 0], 0)
    OBVIOUS
  <2>. QED
    BY <2>1
<1>2. ASSUME NEW n \in Nat, n \in S PROVE n + 1 \in S
  <2>1. SUFFICES ASSUME n + 1 <= L PROVE \E g : IsTail(g, n + 1)
    OBVIOUS
  <2>2. PICK f : IsTail(f, n)
    BY <1>2, <2>1
  <2>. DEFINE a == L - n
              g == [here \in a..L |-> IF here = a THEN Row(f, program, call, a) ELSE f[here]]
  <2>3. \A q \in (a + 1)..L : f[q] = g[q] /\ f[q] = Row(f, program, call, q)
    BY <2>1, <2>2
  <2>4. ASSUME NEW here \in a..L PROVE g[here] = Row(g, program, call, here)
    <3>1. here \in 1..L /\ \A q \in (here + 1)..L : f[q] = g[q]
      BY <2>1, <2>3
    <3>2. Row(f, program, call, here) = Row(g, program, call, here)
      BY <3>1, SameRow
    <3>3. g[here] = Row(f, program, call, here)
      <4>1. CASE here = a
        BY <4>1
      <4>2. CASE here # a
        <5>1. here \in (a + 1)..L
          BY <2>1, <4>2
        <5>2. g[here] = f[here]
          BY <4>2
        <5>. QED
          BY <2>3, <5>1, <5>2
      <4>. QED
        BY <4>1, <4>2
    <3>. QED
      BY <3>2, <3>3
  <2>5. g = [here \in a..L |-> g[here]]
    OBVIOUS
  <2>6. a = L - (n + 1) + 1
    BY <2>1
  <2>. HIDE DEF g
  <2>7. g = [here \in a..L |-> Row(g, program, call, here)]
    BY <2>4, <2>5
  <2>. QED
    BY <2>6, <2>7
<1>3. L \in S
  <2>. HIDE DEF S
  <2>. QED
    BY <1>1, <1>2, Induct
<1>4. PICK f : f = [here \in 1..L |-> Row(f, program, call, here)]
  BY <1>3
<1>5. Rows(program, call) = CHOOSE h : h = [here \in 1..L |-> Row(h, program, call, here)]
  BY DEF Rows
<1>6. Rows(program, call) = [here \in 1..L |-> Row(Rows(program, call), program, call, here)]
  BY <1>4, <1>5
<1>. QED
  BY <1>6
\* A program: what it does from an instruction on is what its rows say.
IsProgram(program) == Len(program) \in Nat /\ Ends(program)

\* What each kind of instruction does.
LEMMA Loads ==
    ASSUME NEW program, IsProgram(program), NEW call,
           NEW here \in 1..Len(program), NEW field \in Fields, NEW k \in Fields,
           program[here] = Ld(k)
    PROVE  Rows(program, call)[here][field] = Rows(program, call)[here + 1][k]
<1>1. Rows(program, call)[here] = Row(Rows(program, call), program, call, here)
  BY Unfolded DEF IsProgram
<1>. QED
  BY <1>1 DEF Row, Ld

LEMMA Returns ==
    ASSUME NEW program, IsProgram(program), NEW call,
           NEW here \in 1..Len(program), NEW field \in Fields, NEW k,
           program[here] = Ret(k)
    PROVE  Rows(program, call)[here][field] = k
<1>1. Rows(program, call)[here] = Row(Rows(program, call), program, call, here)
  BY Unfolded DEF IsProgram
<1>. QED
  BY <1>1 DEF Row, Ret

LEMMA Compares ==
    ASSUME NEW program, IsProgram(program), NEW call,
           NEW here \in 1..Len(program), NEW field \in Fields, NEW k, NEW jt, NEW jf,
           program[here] = Jeq(k, jt, jf)
    PROVE  Rows(program, call)[here][field] =
              IF call[field] = k THEN Rows(program, call)[here + 1 + jt][field]
                                 ELSE Rows(program, call)[here + 1 + jf][field]
<1>1. Rows(program, call)[here] = Row(Rows(program, call), program, call, here)
  BY Unfolded DEF IsProgram
<1>. QED
  BY <1>1 DEF Row, Jeq, Holds

LEMMA TestsBit ==
    ASSUME NEW program, IsProgram(program), NEW call,
           NEW here \in 1..Len(program), NEW field \in Fields, NEW k, NEW jt, NEW jf,
           program[here] = Jset(k, jt, jf)
    PROVE  Rows(program, call)[here][field] =
              IF (call[field] \div k) % 2 = 1 THEN Rows(program, call)[here + 1 + jt][field]
                                              ELSE Rows(program, call)[here + 1 + jf][field]
<1>1. Rows(program, call)[here] = Row(Rows(program, call), program, call, here)
  BY Unfolded DEF IsProgram
<1>. QED
  BY <1>1 DEF Row, Jset, Holds

\* The instructions of a block, where the block is.
At(program, o, block) ==
    /\ o \in Nat /\ o + Len(block) <= Len(program)
    /\ \A i \in 1..Len(block) : program[o + i] = block[i]

\* The instructions of a block, where the block is.
LEMMA LoadsAt ==
    ASSUME NEW program, IsProgram(program), NEW call, NEW o, NEW block, At(program, o, block),
           NEW i \in 1..Len(block), NEW field \in Fields, NEW k \in Fields, block[i] = Ld(k)
    PROVE  Rows(program, call)[o + i][field] = Rows(program, call)[o + (i + 1)][k]
<1>1. /\ o + i \in 1..Len(program) /\ program[o + i] = Ld(k)
      /\ o + i + 1 = o + (i + 1)
  BY DEF At, IsProgram
<1>. QED
  BY <1>1, Loads

LEMMA ReturnsAt ==
    ASSUME NEW program, IsProgram(program), NEW call, NEW o, NEW block, At(program, o, block),
           NEW i \in 1..Len(block), NEW field \in Fields, NEW k, block[i] = Ret(k)
    PROVE  Rows(program, call)[o + i][field] = k
<1>1. o + i \in 1..Len(program)
  BY DEF At, IsProgram
<1>2. program[o + i] = Ret(k)
  BY DEF At
<1>. QED
  BY <1>1, <1>2, Returns

LEMMA ComparesAt ==
    ASSUME NEW program, IsProgram(program), NEW call, NEW o, NEW block, At(program, o, block),
           NEW i \in 1..Len(block), NEW field \in Fields, NEW k,
           NEW jt \in Nat, NEW jf \in Nat, block[i] = Jeq(k, jt, jf)
    PROVE  Rows(program, call)[o + i][field] =
              IF call[field] = k THEN Rows(program, call)[o + (i + 1 + jt)][field]
                                 ELSE Rows(program, call)[o + (i + 1 + jf)][field]
<1>1. /\ o + i \in 1..Len(program) /\ program[o + i] = Jeq(k, jt, jf)
      /\ o + i + 1 + jt = o + (i + 1 + jt) /\ o + i + 1 + jf = o + (i + 1 + jf)
  BY DEF At, IsProgram
<1>. QED
  BY <1>1, Compares

LEMMA TestsBitAt ==
    ASSUME NEW program, IsProgram(program), NEW call, NEW o, NEW block, At(program, o, block),
           NEW i \in 1..Len(block), NEW field \in Fields, NEW k,
           NEW jt \in Nat, NEW jf \in Nat, block[i] = Jset(k, jt, jf)
    PROVE  Rows(program, call)[o + i][field] =
              IF (call[field] \div k) % 2 = 1
                THEN Rows(program, call)[o + (i + 1 + jt)][field]
                ELSE Rows(program, call)[o + (i + 1 + jf)][field]
<1>1. /\ o + i \in 1..Len(program) /\ program[o + i] = Jset(k, jt, jf)
      /\ o + i + 1 + jt = o + (i + 1 + jt) /\ o + i + 1 + jf = o + (i + 1 + jf)
  BY DEF At, IsProgram
<1>. QED
  BY <1>1, TestsBit

Instruction ==
    [op : {"ld", "jeq", "jset", "ret"}, jt : Nat, jf : Nat,
     k : Nat \cup Machines \cup Fields \cup {"allow", "deny"}]

LEMMA Instructions ==
    /\ \A field \in Fields : Ld(field) \in Instruction
    /\ \A value \in Nat \cup Machines, jt, jf \in Nat : Jeq(value, jt, jf) \in Instruction
    /\ \A bit \in Nat, jt, jf \in Nat : Jset(bit, jt, jf) \in Instruction
    /\ \A verdict \in {"allow", "deny"} : Ret(verdict) \in Instruction
BY DEF Ld, Jeq, Jset, Ret, Instruction

\* Two blocks, one behind the other.
LEMMA Placed ==
    ASSUME NEW program, Len(program) \in Nat, NEW a \in Seq(Instruction), NEW b \in Seq(Instruction),
           NEW o, At(program, o, a \o b)
    PROVE  At(program, o, a) /\ At(program, o + Len(a), b)
<1>1. /\ Len(a) \in Nat /\ Len(b) \in Nat /\ Len(a \o b) = Len(a) + Len(b) /\ o \in Nat
      /\ Len(program) \in Nat
  BY DEF At
<1>2. ASSUME NEW i \in 1..Len(a) PROVE program[o + i] = a[i]
  <2>1. (a \o b)[i] = a[i] /\ i \in 1..Len(a \o b)
    BY <1>1
  <2>. QED
    BY <2>1 DEF At
<1>3. ASSUME NEW i \in 1..Len(b) PROVE program[o + Len(a) + i] = b[i]
  <2>1. (a \o b)[Len(a) + i] = b[i] /\ Len(a) + i \in 1..Len(a \o b)
    BY <1>1
  <2>2. program[o + (Len(a) + i)] = (a \o b)[Len(a) + i]
    BY <2>1 DEF At
  <2>3. o + (Len(a) + i) = o + Len(a) + i
    BY <1>1
  <2>. QED
    BY <2>1, <2>2, <2>3
<1>. QED
  BY <1>1, <1>2, <1>3 DEF At

\* No jump leaves the block further than to what follows it.
Closed(block) ==
    \A here \in 1..Len(block) :
        \/ block[here].op = "ret"
        \/ block[here].op = "ld"
        \/ /\ block[here].op \in {"jeq", "jset"}
           /\ block[here].jt \in Nat /\ here + block[here].jt <= Len(block)
           /\ block[here].jf \in Nat /\ here + block[here].jf <= Len(block)

\* Closed blocks make a closed block, and a last return a program that ends.
LEMMA ClosedTogether ==
    ASSUME NEW a \in Seq(Instruction), NEW b \in Seq(Instruction), Closed(a), Closed(b)
    PROVE  Closed(a \o b)
<1>1. Len(a) \in Nat /\ Len(b) \in Nat /\ Len(a \o b) = Len(a) + Len(b)
  OBVIOUS
<1>2. SUFFICES ASSUME NEW here \in 1..Len(a \o b)
               PROVE LET i == (a \o b)[here]
                     IN  \/ i.op = "ret" \/ i.op = "ld"
                         \/ /\ i.op \in {"jeq", "jset"}
                            /\ i.jt \in Nat /\ here + i.jt <= Len(a \o b)
                            /\ i.jf \in Nat /\ here + i.jf <= Len(a \o b)
  BY DEF Closed
<1>3. CASE here <= Len(a)
  <2>1. here \in 1..Len(a) /\ (a \o b)[here] = a[here]
    BY <1>1, <1>3
  <2>. QED
    BY <1>1, <2>1 DEF Closed
<1>4. CASE here > Len(a)
  <2>1. here - Len(a) \in 1..Len(b) /\ (a \o b)[here] = b[here - Len(a)]
    BY <1>1, <1>4
  <2>. QED
    BY <1>1, <2>1 DEF Closed
<1>. QED
  BY <1>1, <1>3, <1>4

LEMMA EndsTogether ==
    ASSUME NEW a \in Seq(Instruction), NEW b \in Seq(Instruction),
           Closed(a), Ends(b), b # <<>>
    PROVE  Ends(a \o b)
<1>1. Len(a) \in Nat /\ Len(b) \in Nat \ {0} /\ Len(a \o b) = Len(a) + Len(b)
  OBVIOUS
<1>2. SUFFICES ASSUME NEW here \in 1..Len(a \o b)
               PROVE LET i == (a \o b)[here]
                         n == Len(a \o b)
                     IN  \/ i.op = "ret"
                         \/ /\ i.op = "ld"
                            /\ here + 1 <= n
                         \/ /\ i.op \in {"jeq", "jset"}
                            /\ i.jt \in Nat /\ here + 1 + i.jt <= n
                            /\ i.jf \in Nat /\ here + 1 + i.jf <= n
  BY DEF Ends
<1>3. CASE here <= Len(a)
  <2>1. here \in 1..Len(a) /\ (a \o b)[here] = a[here]
    BY <1>1, <1>3
  <2>. QED
    BY <1>1, <2>1 DEF Closed
<1>4. CASE here > Len(a)
  <2>1. here - Len(a) \in 1..Len(b) /\ (a \o b)[here] = b[here - Len(a)]
    BY <1>1, <1>4
  <2>. QED
    <3>. DEFINE q == here - Len(a)
    <3>1. \/ b[q].op = "ret"
          \/ /\ b[q].op = "ld"
             /\ q + 1 <= Len(b)
          \/ /\ b[q].op \in {"jeq", "jset"}
             /\ b[q].jt \in Nat /\ q + 1 + b[q].jt <= Len(b)
             /\ b[q].jf \in Nat /\ q + 1 + b[q].jf <= Len(b)
      BY <2>1 DEF Ends
    <3>2. /\ q + 1 <= Len(b) => here + 1 <= Len(a \o b)
          /\ \A j \in Nat : q + 1 + j <= Len(b) => here + 1 + j <= Len(a \o b)
      BY <1>1, <2>1
    <3>. QED
      BY <2>1, <3>1, <3>2
<1>. QED
  BY <1>1, <1>3, <1>4

\* The numbers the kernel hands a filter as nr, read as unsigned: 32 bits that
\* are not negative, the x32 bit the highest.
Word == 0..(2 * X32Bit - 1)

\* The x32 bit is set of the numbers from X32Bit on.
LEMMA HighBit ==
    ASSUME NEW b \in Nat \ {0}, NEW n \in 0..(2 * b - 1)
    PROVE  (n \div b) % 2 = 1 <=> ~(n < b)
<1>1. n < b => n \div b = 0
  OBVIOUS
<1>2. ~(n < b) => n \div b = 1
  OBVIOUS
<1>. QED
  BY <1>1, <1>2

LEMMA X32Numbers ==
    ASSUME NEW nr \in Word
    PROVE  (nr \div X32Bit) % 2 = 1 <=> ~(nr < X32Bit)
<1>1. X32Bit \in Nat \ {0}
  BY SMT DEF X32Bit
<1>. QED
  BY <1>1, HighBit DEF Word

\* The prologue: another architecture and x32 are refused, the rest goes on with
\* the number in the accumulator.
LEMMA PrologueRuns ==
    ASSUME NEW program, IsProgram(program), NEW machine \in Machines, NEW o,
           At(program, o, Prologue(machine)), NEW call, call.nr \in Word
    PROVE  Rows(program, call)[o + 1]["arch"] =
              IF \/ call.arch # machine
                 \/ machine = "x86_64" /\ ~(call.nr < X32Bit)
                THEN "deny"
                ELSE Rows(program, call)[o + (Len(Prologue(machine)) + 1)]["nr"]
<1>. DEFINE rows == Rows(program, call)
            block == Prologue(machine)
            n == Len(block)
<1>1. /\ n = IF machine = "x86_64" THEN 6 ELSE 4
      /\ block[1] = Ld("arch") /\ block[2] = Jeq(machine, 1, 0)
      /\ block[3] = Ret("deny") /\ block[4] = Ld("nr")
      /\ machine = "x86_64" => block[5] = Jset(X32Bit, 0, 1) /\ block[6] = Ret("deny")
  BY DEF Prologue
<1>2. /\ At(program, o, block) /\ "arch" \in Fields /\ "nr" \in Fields
      /\ 1 \in 1..n /\ 2 \in 1..n /\ 3 \in 1..n /\ 4 \in 1..n
  BY <1>1 DEF Fields
<1>. HIDE DEF rows, block
<1>3. rows[o + 1]["arch"] = rows[o + (1 + 1)]["arch"]
  BY <1>1, <1>2, LoadsAt DEF rows
<1>4. rows[o + 2]["arch"] = IF call.arch = machine THEN rows[o + (2 + 1 + 1)]["arch"]
                                                   ELSE rows[o + (2 + 1 + 0)]["arch"]
  BY <1>1, <1>2, ComparesAt DEF rows
<1>5. rows[o + 3]["arch"] = "deny"
  BY <1>1, <1>2, ReturnsAt DEF rows
<1>6. rows[o + 4]["arch"] = rows[o + (4 + 1)]["nr"]
  BY <1>1, <1>2, LoadsAt DEF rows
<1>7. CASE machine = "x86_64"
  <2>1. 5 \in 1..n /\ 6 \in 1..n
    BY <1>1, <1>7
  <2>2. rows[o + 5]["nr"] = IF (call.nr \div X32Bit) % 2 = 1 THEN rows[o + (5 + 1 + 0)]["nr"]
                                                             ELSE rows[o + (5 + 1 + 1)]["nr"]
    <3>1. block[5] = Jset(X32Bit, 0, 1)
      BY <1>1, <1>7
    <3>. QED
      BY <1>2, <2>1, <3>1, TestsBitAt DEF rows
  <2>3. rows[o + 6]["nr"] = "deny"
    <3>1. block[6] = Ret("deny")
      BY <1>1, <1>7
    <3>. QED
      BY <1>2, <2>1, <3>1, ReturnsAt DEF rows
  <2>. QED
    BY <1>1, <1>3, <1>4, <1>5, <1>6, <1>7, <2>2, <2>3, X32Numbers DEF rows, block
<1>8. CASE machine # "x86_64"
  BY <1>1, <1>3, <1>4, <1>5, <1>6, <1>8 DEF rows, block
<1>. QED
  BY <1>7, <1>8

\* A block of refusals refuses its numbers and no other (_deny_syscall_block).
LEMMA DenyRuns ==
    ASSUME NEW program, IsProgram(program), NEW numbers \in Seq(Nat), NEW o,
           At(program, o, DenyEach(numbers)), NEW call
    PROVE  Rows(program, call)[o + 1]["nr"] =
              IF call.nr \in Range(numbers)
                THEN "deny"
                ELSE Rows(program, call)[o + Len(DenyEach(numbers)) + 1]["nr"]
<1>. DEFINE rows == Rows(program, call)
            n == Len(numbers)
            Done(k) == IF \E i \in 1..k : call.nr = numbers[i]
                         THEN rows[o + 1]["nr"] = "deny"
                         ELSE rows[o + 1]["nr"] = rows[o + 2 * k + 1]["nr"]
            S == {k \in Nat : k <= n => Done(k)}
<1>1. IsProgram(program) /\ Len(program) \in Nat /\ o \in Nat /\ n \in Nat
  BY DEF IsProgram, At
<1>2. Len(DenyEach(numbers)) = 2 * n
  BY <1>1 DEF DenyEach
<1>. HIDE DEF rows, n
<1>3. ASSUME NEW k \in 0..(n - 1)
      PROVE  rows[o + 2 * k + 1]["nr"] = IF call.nr = numbers[k + 1] THEN "deny"
                                         ELSE rows[o + 2 * (k + 1) + 1]["nr"]
  <2>. DEFINE at == o + 2 * k + 1
  <2>1. /\ 2 * k + 1 \in 1..(2 * n) /\ 2 * k + 2 \in 1..(2 * n)
        /\ (2 * k + 1) % 2 = 1 /\ (2 * k + 2) % 2 = 0 /\ (2 * k + 1 + 1) \div 2 = k + 1
    BY <1>1
  <2>2. /\ DenyEach(numbers)[2 * k + 1] = Jeq(numbers[k + 1], 0, 1)
        /\ DenyEach(numbers)[2 * k + 2] = Ret("deny")
    BY <1>1, <2>1 DEF DenyEach, n
  <2>3. /\ program[o + (2 * k + 1)] = Jeq(numbers[k + 1], 0, 1)
        /\ program[o + (2 * k + 2)] = Ret("deny")
        /\ o + (2 * k + 2) <= Len(program)
    <3>1. /\ \A i \in 1..Len(DenyEach(numbers)) : program[o + i] = DenyEach(numbers)[i]
          /\ o + Len(DenyEach(numbers)) <= Len(program)
      BY DEF At
    <3>2. o + (2 * k + 2) <= Len(program)
      <4>1. o + 2 * n <= Len(program)
        BY <1>2, <3>1
      <4>. QED
        BY <1>1, <2>1, <4>1
    <3>. QED
      BY <1>2, <2>1, <2>2, <3>1, <3>2
  <2>4. /\ o + (2 * k + 1) = at /\ o + (2 * k + 2) = at + 1
        /\ at \in 1..Len(program) /\ at + 1 \in 1..Len(program)
        /\ at + 1 + 0 = at + 1 /\ at + 1 + 1 = o + 2 * (k + 1) + 1
    BY <1>1, <2>3
  <2>. HIDE DEF at
  <2>. DEFINE next == at + 1
  <2>9. /\ program[at] = Jeq(numbers[k + 1], 0, 1) /\ program[next] = Ret("deny")
        /\ at \in 1..Len(program) /\ next \in 1..Len(program)
    BY <2>3, <2>4
  <2>. HIDE DEF next
  <2>5. rows[at]["nr"] = IF call.nr = numbers[k + 1] THEN rows[at + 1 + 0]["nr"]
                                                     ELSE rows[at + 1 + 1]["nr"]
    BY <1>1, <2>9, Compares DEF Fields, rows
  <2>6. rows[next]["nr"] = "deny"
    BY <1>1, <2>9, Returns DEF Fields, rows
  <2>. QED
    BY <2>4, <2>5, <2>6 DEF at, next
<1>4. 0 \in S
  BY <1>1
<1>5. ASSUME NEW k \in Nat, k \in S PROVE k + 1 \in S
  <2>1. SUFFICES ASSUME k + 1 <= n PROVE Done(k + 1)
    OBVIOUS
  <2>2. Done(k) /\ k \in 0..(n - 1)
    BY <1>1, <1>5, <2>1
  <2>3. 1..(k + 1) = 1..k \cup {k + 1}
    OBVIOUS
  <2>. QED
    BY <1>3, <2>2, <2>3
<1>6. Done(n)
  <2>1. Nat \subseteq S
    <3>. HIDE DEF S
    <3>. QED
      BY <1>4, <1>5, Induct
  <2>. QED
    BY <1>1, <2>1
<1>7. (\E i \in 1..n : call.nr = numbers[i]) <=> call.nr \in Range(numbers)
  BY <1>1 DEF Range, n
<1>. QED
  BY <1>1, <1>2, <1>6, <1>7 DEF rows

\* prlimit64 of another process is refused, and the number is in the accumulator
\* again for what follows.
LEMMA PrlimitRuns ==
    ASSUME NEW program, IsProgram(program), NEW machine \in Machines, NEW o,
           At(program, o, PrlimitBlock(machine)), NEW call
    PROVE  Rows(program, call)[o + 1]["nr"] =
              IF call.nr = PrlimitSyscall(machine) /\ call.arg0 # 0
                THEN "deny"
                ELSE Rows(program, call)[o + (Len(PrlimitBlock(machine)) + 1)]["nr"]
<1>. DEFINE rows == Rows(program, call)
            block == PrlimitBlock(machine)
            nr == PrlimitSyscall(machine)
            n == Len(block)
<1>1. /\ n = 5
      /\ block[1] = Jeq(nr, 0, 4) /\ block[2] = Ld("arg0") /\ block[3] = Jeq(0, 1, 0)
      /\ block[4] = Ret("deny") /\ block[5] = Ld("nr")
  BY DEF PrlimitBlock
<1>2. /\ At(program, o, block) /\ "nr" \in Fields /\ "arg0" \in Fields
      /\ 1 \in 1..n /\ 2 \in 1..n /\ 3 \in 1..n /\ 4 \in 1..n /\ 5 \in 1..n
  BY <1>1 DEF Fields
<1>. HIDE DEF rows, block, nr
<1>3. rows[o + 1]["nr"] = IF call.nr = nr THEN rows[o + (1 + 1 + 0)]["nr"]
                                          ELSE rows[o + (1 + 1 + 4)]["nr"]
  <2>1. 1 \in 1..n /\ block[1] = Jeq(nr, 0, 4)
    BY <1>1
  <2>. QED
    BY <1>2, <2>1, ComparesAt DEF rows
<1>4. rows[o + 2]["nr"] = rows[o + (2 + 1)]["arg0"]
  <2>1. 2 \in 1..n /\ block[2] = Ld("arg0")
    BY <1>1
  <2>. QED
    BY <1>2, <2>1, LoadsAt DEF rows
<1>5. rows[o + 3]["arg0"] = IF call.arg0 = 0 THEN rows[o + (3 + 1 + 1)]["arg0"]
                                             ELSE rows[o + (3 + 1 + 0)]["arg0"]
  <2>1. 3 \in 1..n /\ block[3] = Jeq(0, 1, 0)
    BY <1>1
  <2>. QED
    BY <1>2, <2>1, ComparesAt DEF rows
<1>6. rows[o + 4]["arg0"] = "deny"
  <2>1. 4 \in 1..n /\ block[4] = Ret("deny")
    BY <1>1
  <2>. QED
    BY <1>2, <2>1, ReturnsAt DEF rows
<1>7. rows[o + 5]["arg0"] = rows[o + (5 + 1)]["nr"]
  <2>1. 5 \in 1..n /\ block[5] = Ld("nr")
    BY <1>1
  <2>. QED
    BY <1>2, <2>1, LoadsAt DEF rows
<1>. QED
  BY <1>1, <1>3, <1>4, <1>5, <1>6, <1>7 DEF rows, block, nr

\* The last block: no socket, no connect, and only local pairs.
LEMMA SocketRuns ==
    ASSUME NEW program, IsProgram(program), NEW machine \in Machines, NEW o,
           At(program, o, SocketBlock(machine)), NEW call
    PROVE  LET nr == SocketSyscalls(machine)
           IN  Rows(program, call)[o + 1]["nr"] =
                  IF \/ call.nr \in {nr.socket, nr.connect}
                     \/ call.nr = nr.socketpair /\ call.arg0 # AF_UNIX
                    THEN "deny" ELSE "allow"
<1>. DEFINE rows == Rows(program, call)
            block == SocketBlock(machine)
            nr == SocketSyscalls(machine)
            n == Len(block)
<1>1. /\ n = 10
      /\ block[1] = Jeq(nr.socket, 0, 1) /\ block[2] = Ret("deny")
      /\ block[3] = Jeq(nr.connect, 0, 1) /\ block[4] = Ret("deny")
      /\ block[5] = Jeq(nr.socketpair, 0, 4) /\ block[6] = Ld("arg0")
      /\ block[7] = Jeq(AF_UNIX, 0, 1) /\ block[8] = Ret("allow")
      /\ block[9] = Ret("deny") /\ block[10] = Ret("allow")
  BY DEF SocketBlock
<1>2. nr.socket # nr.socketpair /\ nr.connect # nr.socketpair
  BY DEF SocketSyscalls
<1>3. At(program, o, block) /\ "nr" \in Fields /\ "arg0" \in Fields
  BY DEF Fields
<1>. HIDE DEF rows, block, nr
<1>4. rows[o + 2]["nr"] = "deny" /\ rows[o + 4]["nr"] = "deny" /\ rows[o + 10]["nr"] = "allow"
  <2>1. rows[o + 2]["nr"] = "deny"
    <3>1. 2 \in 1..n /\ block[2] = Ret("deny")
      BY <1>1
    <3>. QED
      BY <1>3, <3>1, ReturnsAt DEF rows
  <2>2. rows[o + 4]["nr"] = "deny"
    <3>1. 4 \in 1..n /\ block[4] = Ret("deny")
      BY <1>1
    <3>. QED
      BY <1>3, <3>1, ReturnsAt DEF rows
  <2>3. rows[o + 10]["nr"] = "allow"
    <3>1. 10 \in 1..n /\ block[10] = Ret("allow")
      BY <1>1
    <3>. QED
      BY <1>3, <3>1, ReturnsAt DEF rows
  <2>. QED
    BY <2>1, <2>2, <2>3
<1>5. rows[o + 8]["arg0"] = "allow" /\ rows[o + 9]["arg0"] = "deny"
  <2>1. rows[o + 8]["arg0"] = "allow"
    <3>1. 8 \in 1..n /\ block[8] = Ret("allow")
      BY <1>1
    <3>. QED
      BY <1>3, <3>1, ReturnsAt DEF rows
  <2>2. rows[o + 9]["arg0"] = "deny"
    <3>1. 9 \in 1..n /\ block[9] = Ret("deny")
      BY <1>1
    <3>. QED
      BY <1>3, <3>1, ReturnsAt DEF rows
  <2>. QED
    BY <2>1, <2>2
<1>6. rows[o + 1]["nr"] = IF call.nr = nr.socket THEN rows[o + (1 + 1 + 0)]["nr"]
                                                 ELSE rows[o + (1 + 1 + 1)]["nr"]
  <2>1. 1 \in 1..n /\ block[1] = Jeq(nr.socket, 0, 1)
    BY <1>1
  <2>. QED
    BY <1>3, <2>1, ComparesAt DEF rows
<1>7. rows[o + 3]["nr"] = IF call.nr = nr.connect THEN rows[o + (3 + 1 + 0)]["nr"]
                                                  ELSE rows[o + (3 + 1 + 1)]["nr"]
  <2>1. 3 \in 1..n /\ block[3] = Jeq(nr.connect, 0, 1)
    BY <1>1
  <2>. QED
    BY <1>3, <2>1, ComparesAt DEF rows
<1>8. rows[o + 5]["nr"] = IF call.nr = nr.socketpair THEN rows[o + (5 + 1 + 0)]["nr"]
                                                     ELSE rows[o + (5 + 1 + 4)]["nr"]
  <2>1. 5 \in 1..n /\ block[5] = Jeq(nr.socketpair, 0, 4)
    BY <1>1
  <2>. QED
    BY <1>3, <2>1, ComparesAt DEF rows
<1>9. rows[o + 6]["nr"] = rows[o + (6 + 1)]["arg0"]
  <2>1. 6 \in 1..n /\ block[6] = Ld("arg0")
    BY <1>1
  <2>. QED
    BY <1>3, <2>1, LoadsAt DEF rows
<1>10. rows[o + 7]["arg0"] = IF call.arg0 = AF_UNIX THEN rows[o + (7 + 1 + 0)]["arg0"]
                                                    ELSE rows[o + (7 + 1 + 1)]["arg0"]
  <2>1. 7 \in 1..n /\ block[7] = Jeq(AF_UNIX, 0, 1)
    BY <1>1
  <2>. QED
    BY <1>3, <2>1, ComparesAt DEF rows
<1>. QED
  BY <1>2, <1>4, <1>5, <1>6, <1>7, <1>8, <1>9, <1>10 DEF rows, nr

\* No block jumps out of its program.
LEMMA BlocksAreClosed ==
    ASSUME NEW machine \in Machines
    PROVE  /\ Prologue(machine) \in Seq(Instruction) /\ Closed(Prologue(machine))
           /\ PrlimitBlock(machine) \in Seq(Instruction) /\ Closed(PrlimitBlock(machine))
           /\ SocketBlock(machine) \in Seq(Instruction) /\ Ends(SocketBlock(machine))
           /\ Len(SocketBlock(machine)) = 10 /\ SocketBlock(machine) # <<>>
<1>1. X32Bit \in Nat /\ PrlimitSyscall(machine) \in Nat
  BY SMT DEF X32Bit, PrlimitSyscall
<1>2. SocketSyscalls(machine).socket \in Nat /\ SocketSyscalls(machine).connect \in Nat
      /\ SocketSyscalls(machine).socketpair \in Nat /\ AF_UNIX \in Nat
  BY DEF SocketSyscalls, AF_UNIX
<1>3. Prologue(machine) \in Seq(Instruction)
  <2>1. Ld("arch") \in Instruction /\ Jeq(machine, 1, 0) \in Instruction
        /\ Ret("deny") \in Instruction /\ Ld("nr") \in Instruction
        /\ Jset(X32Bit, 0, 1) \in Instruction
    BY <1>1, Instructions DEF Fields
  <2>. QED
    BY <2>1 DEF Prologue
<1>4. Closed(Prologue(machine))
  <2>1. /\ Len(Prologue(machine)) = IF machine = "x86_64" THEN 6 ELSE 4
        /\ Prologue(machine)[1] = Ld("arch") /\ Prologue(machine)[2] = Jeq(machine, 1, 0)
        /\ Prologue(machine)[3] = Ret("deny") /\ Prologue(machine)[4] = Ld("nr")
        /\ machine = "x86_64" => /\ Prologue(machine)[5] = Jset(X32Bit, 0, 1)
                                 /\ Prologue(machine)[6] = Ret("deny")
    BY DEF Prologue
  <2>2. ASSUME NEW here \in 1..Len(Prologue(machine))
        PROVE  here \in 1..4 \/ (machine = "x86_64" /\ here \in 5..6)
    BY <2>1
  <2>. QED
    BY <2>1, <2>2 DEF Closed, Ld, Jeq, Jset, Ret
<1>5. LET block == PrlimitBlock(machine)
      IN  /\ Len(block) = 5
          /\ block[1] = Jeq(PrlimitSyscall(machine), 0, 4) /\ block[2] = Ld("arg0")
          /\ block[3] = Jeq(0, 1, 0) /\ block[4] = Ret("deny") /\ block[5] = Ld("nr")
  BY DEF PrlimitBlock
<1>6. PrlimitBlock(machine) \in Seq(Instruction)
  <2>1. Jeq(PrlimitSyscall(machine), 0, 4) \in Instruction /\ Ld("arg0") \in Instruction
        /\ Jeq(0, 1, 0) \in Instruction /\ Ret("deny") \in Instruction /\ Ld("nr") \in Instruction
    BY <1>1, Instructions DEF Fields
  <2>. QED
    BY <2>1 DEF PrlimitBlock
<1>7. Closed(PrlimitBlock(machine))
  BY <1>5 DEF Closed, Ld, Jeq, Ret
<1>8. SocketBlock(machine) \in Seq(Instruction)
  <2>. DEFINE nr == SocketSyscalls(machine)
  <2>1. Jeq(nr.socket, 0, 1) \in Instruction /\ Jeq(nr.connect, 0, 1) \in Instruction
        /\ Jeq(nr.socketpair, 0, 4) \in Instruction /\ Jeq(AF_UNIX, 0, 1) \in Instruction
        /\ Ld("arg0") \in Instruction /\ Ret("deny") \in Instruction /\ Ret("allow") \in Instruction
    BY <1>2, Instructions DEF Fields
  <2>. HIDE DEF nr
  <2>. QED
    BY <2>1 DEF SocketBlock, nr
<1>9. Ends(SocketBlock(machine)) /\ Len(SocketBlock(machine)) = 10
  <2>. DEFINE nr == SocketSyscalls(machine)
  <2>1. SocketBlock(machine) = << Jeq(nr.socket, 0, 1), Ret("deny"),
           Jeq(nr.connect, 0, 1), Ret("deny"),
           Jeq(nr.socketpair, 0, 4), Ld("arg0"), Jeq(AF_UNIX, 0, 1),
           Ret("allow"), Ret("deny"), Ret("allow") >>
    BY DEF SocketBlock
  <2>. HIDE DEF nr
  <2>. QED
    BY <2>1 DEF Ends, Ld, Jeq, Ret
<1>10. SocketBlock(machine) # <<>>
  BY <1>9
<1>. QED
  BY <1>3, <1>4, <1>6, <1>7, <1>8, <1>9, <1>10

LEMMA DenialsAreClosed ==
    ASSUME NEW numbers \in Seq(Nat)
    PROVE  DenyEach(numbers) \in Seq(Instruction) /\ Closed(DenyEach(numbers))
<1>. DEFINE block == DenyEach(numbers)
<1>1. Len(numbers) \in Nat /\ Len(block) = 2 * Len(numbers)
  BY DEF DenyEach
<1>2. ASSUME NEW here \in 1..(2 * Len(numbers))
      PROVE  /\ block[here] \in Instruction
             /\ \/ block[here].op = "ret"
                \/ /\ block[here].op = "jeq" /\ block[here].jt = 0 /\ block[here].jf = 1
                   /\ here + 1 <= 2 * Len(numbers)
  <2>1. CASE here % 2 = 1
    <3>1. (here + 1) \div 2 \in 1..Len(numbers) /\ here + 1 <= 2 * Len(numbers)
      BY <1>1, <2>1
    <3>2. block[here] = Jeq(numbers[(here + 1) \div 2], 0, 1) /\ numbers[(here + 1) \div 2] \in Nat
      BY <1>1, <2>1, <3>1 DEF DenyEach
    <3>. QED
      BY <3>1, <3>2, Instructions DEF Jeq
  <2>2. CASE here % 2 # 1
    <3>1. block[here] = Ret("deny")
      BY <1>1, <2>2 DEF DenyEach
    <3>. QED
      BY <3>1, Instructions DEF Ret
  <2>. QED
    BY <2>1, <2>2
<1>3. block \in [1..(2 * Len(numbers)) -> Instruction]
  BY <1>1, <1>2 DEF DenyEach
<1>4. block \in Seq(Instruction)
  BY <1>1, <1>3
<1>. HIDE DEF block
<1>5. Closed(block)
  BY <1>1, <1>2 DEF Closed
<1>. QED
  BY <1>4, <1>5 DEF block

\* The numbers of the two blocks of refusals are the named ones.
LEMMA DeniedNumbers ==
    ASSUME NEW machine \in Machines
    PROVE  LET first == IoUringSyscalls \o SignalSyscalls(machine) \o ProcessMemorySyscalls(machine)
               second == PidfdDescriptorSyscalls \o KeyringSyscalls(machine)
           IN  /\ first \in Seq(Nat) /\ second \in Seq(Nat)
               /\ Range(first) = Range(IoUringSyscalls) \cup SignalNumbers[machine]
                                   \cup Range(ProcessMemorySyscalls(machine))
               /\ Range(second) = Range(PidfdDescriptorSyscalls) \cup Range(KeyringSyscalls(machine))
<1>1. ASSUME NEW a \in Seq(Nat), NEW b \in Seq(Nat)
      PROVE  a \o b \in Seq(Nat) /\ Range(a \o b) = Range(a) \cup Range(b)
  <2>1. /\ Len(a) \in Nat /\ Len(b) \in Nat /\ Len(a \o b) = Len(a) + Len(b)
        /\ DOMAIN a = 1..Len(a) /\ DOMAIN b = 1..Len(b) /\ DOMAIN (a \o b) = 1..Len(a \o b)
        /\ a \o b \in Seq(Nat)
    OBVIOUS
  <2>2. ASSUME NEW x \in Range(a \o b) PROVE x \in Range(a) \cup Range(b)
    <3>1. PICK i \in 1..(Len(a) + Len(b)) : x = (a \o b)[i]
      BY <2>1 DEF Range
    <3>2. CASE i <= Len(a)
      BY <2>1, <3>1, <3>2 DEF Range
    <3>3. CASE i > Len(a)
      <4>1. i - Len(a) \in 1..Len(b) /\ x = b[i - Len(a)]
        BY <2>1, <3>1, <3>3
      <4>. QED
        BY <2>1, <4>1 DEF Range
    <3>. QED
      BY <2>1, <3>2, <3>3
  <2>3. ASSUME NEW i \in 1..Len(a) PROVE a[i] \in Range(a \o b)
    <3>1. i \in DOMAIN (a \o b) /\ (a \o b)[i] = a[i]
      BY <2>1
    <3>. QED
      BY <3>1 DEF Range
  <2>4. ASSUME NEW i \in 1..Len(b) PROVE b[i] \in Range(a \o b)
    <3>1. Len(a) + i \in DOMAIN (a \o b) /\ (a \o b)[Len(a) + i] = b[i]
      BY <2>1
    <3>. QED
      BY <3>1 DEF Range
  <2>. QED
    BY <2>1, <2>2, <2>3, <2>4 DEF Range
<1>2. /\ IoUringSyscalls \in Seq(Nat) /\ SignalSyscalls(machine) \in Seq(Nat)
      /\ ProcessMemorySyscalls(machine) \in Seq(Nat)
      /\ PidfdDescriptorSyscalls \in Seq(Nat) /\ KeyringSyscalls(machine) \in Seq(Nat)
  BY DEF IoUringSyscalls, SignalSyscalls, ProcessMemorySyscalls, PidfdDescriptorSyscalls, KeyringSyscalls
<1>3. Range(SignalSyscalls(machine)) = SignalNumbers[machine]
  <2>1. CASE machine = "x86_64"
    <3>1. SignalNumbers[machine] = {62, 129, 200, 234, 297, 424}
      BY <2>1 DEF SignalNumbers
    <3>2. SignalSyscalls(machine) = <<62, 200, 234, 424, 129, 297>>
      BY <2>1 DEF SignalSyscalls
    <3>. QED
      BY <3>1, <3>2 DEF Range
  <2>2. CASE machine = "aarch64"
    <3>1. SignalNumbers[machine] = {129, 130, 131, 138, 240, 424}
      BY <2>2 DEF SignalNumbers
    <3>2. SignalSyscalls(machine) = <<129, 130, 131, 424, 138, 240>>
      BY <2>2 DEF SignalSyscalls
    <3>. QED
      BY <3>1, <3>2 DEF Range
  <2>. QED
    BY <2>1, <2>2 DEF Machines
<1>4. /\ IoUringSyscalls \o SignalSyscalls(machine) \in Seq(Nat)
      /\ Range(IoUringSyscalls \o SignalSyscalls(machine))
            = Range(IoUringSyscalls) \cup SignalNumbers[machine]
  BY <1>1, <1>2, <1>3
<1>. QED
  BY <1>1, <1>2, <1>4

\* What the filter of apply_network_seccomp_policy answers, and the one of
\* apply_sensitive_host_handle_policy.
LEMMA NetworkRuns ==
    ASSUME NEW machine \in Machines, NEW call, call.nr \in Word
    PROVE  Execute(NetworkPolicy(machine), call) =
              IF \/ call.arch # machine
                 \/ machine = "x86_64" /\ ~(call.nr < X32Bit)
                 \/ call.nr \in Range(IoUringSyscalls) \cup SignalNumbers[machine]
                                \cup Range(ProcessMemorySyscalls(machine))
                 \/ call.nr = PrlimitSyscall(machine) /\ call.arg0 # 0
                 \/ call.nr \in {SocketSyscalls(machine).socket, SocketSyscalls(machine).connect}
                 \/ call.nr = SocketSyscalls(machine).socketpair /\ call.arg0 # AF_UNIX
                THEN "deny" ELSE "allow"
<1>. DEFINE program == NetworkPolicy(machine)
            numbers == IoUringSyscalls \o SignalSyscalls(machine) \o ProcessMemorySyscalls(machine)
            A == Prologue(machine)
            B == DenyEach(numbers)
            C == PrlimitBlock(machine)
            D == SocketBlock(machine)
<1>1. program = A \o B \o C \o D
  BY DEF NetworkPolicy
<1>2. /\ numbers \in Seq(Nat)
      /\ Range(numbers) = Range(IoUringSyscalls) \cup SignalNumbers[machine]
                            \cup Range(ProcessMemorySyscalls(machine))
  BY DeniedNumbers
<1>. HIDE DEF numbers
<1>3. /\ A \in Seq(Instruction) /\ B \in Seq(Instruction) /\ C \in Seq(Instruction)
      /\ D \in Seq(Instruction) /\ Closed(A) /\ Closed(B) /\ Closed(C) /\ Ends(D) /\ D # <<>>
  BY <1>2, BlocksAreClosed, DenialsAreClosed
<1>. HIDE DEF A, B, C, D, program
<1>4. /\ A \o B \in Seq(Instruction) /\ A \o B \o C \in Seq(Instruction)
      /\ program \in Seq(Instruction) /\ Len(program) \in Nat
      /\ Len(A) \in Nat /\ Len(B) \in Nat /\ Len(C) \in Nat
  BY <1>1, <1>3
<1>5. Closed(A \o B) /\ Closed(A \o B \o C)
  BY <1>3, <1>4, ClosedTogether
<1>6. IsProgram(program)
  BY <1>1, <1>3, <1>4, <1>5, EndsTogether DEF IsProgram
<1>7. At(program, 0, A \o B \o C \o D)
  BY <1>1, <1>4 DEF At
<1>8. At(program, 0, A \o B \o C) /\ At(program, 0 + Len(A \o B \o C), D)
  BY <1>3, <1>4, <1>7, Placed
<1>9. At(program, 0, A \o B) /\ At(program, 0 + Len(A \o B), C)
  BY <1>3, <1>4, <1>8, Placed
<1>10. At(program, 0, A) /\ At(program, 0 + Len(A), B)
  BY <1>3, <1>4, <1>9, Placed
<1>. DEFINE rows == Rows(program, call)
            b == Len(A)
            c == Len(A) + Len(B)
            d == Len(A) + Len(B) + Len(C)
<1>11. 0 + Len(A) = b /\ 0 + Len(A \o B) = c /\ 0 + Len(A \o B \o C) = d
  BY <1>3, <1>4
<1>. HIDE DEF rows
<1>12. rows[1]["arch"] = IF \/ call.arch # machine
                            \/ machine = "x86_64" /\ ~(call.nr < X32Bit)
                           THEN "deny" ELSE rows[b + 1]["nr"]
  <2>1. rows[0 + 1]["arch"] = IF \/ call.arch # machine
                                 \/ machine = "x86_64" /\ ~(call.nr < X32Bit)
                                THEN "deny" ELSE rows[0 + (b + 1)]["nr"]
    BY <1>6, <1>10, PrologueRuns DEF rows, A
  <2>. QED
    BY <1>4, <2>1
<1>13. rows[b + 1]["nr"] = IF call.nr \in Range(numbers) THEN "deny" ELSE rows[c + 1]["nr"]
  <2>1. rows[b + 1]["nr"] = IF call.nr \in Range(numbers) THEN "deny" ELSE rows[b + Len(B) + 1]["nr"]
    BY <1>2, <1>6, <1>10, <1>11, DenyRuns DEF rows, B
  <2>. QED
    BY <1>4, <2>1
<1>14. rows[c + 1]["nr"] = IF call.nr = PrlimitSyscall(machine) /\ call.arg0 # 0
                             THEN "deny" ELSE rows[d + 1]["nr"]
  <2>1. rows[c + 1]["nr"] = IF call.nr = PrlimitSyscall(machine) /\ call.arg0 # 0
                              THEN "deny" ELSE rows[c + (Len(C) + 1)]["nr"]
    BY <1>6, <1>9, <1>11, PrlimitRuns DEF rows, C
  <2>. QED
    BY <1>4, <2>1
<1>15. rows[d + 1]["nr"] =
          IF \/ call.nr \in {SocketSyscalls(machine).socket, SocketSyscalls(machine).connect}
             \/ call.nr = SocketSyscalls(machine).socketpair /\ call.arg0 # AF_UNIX
            THEN "deny" ELSE "allow"
  BY <1>6, <1>8, <1>11, SocketRuns DEF rows, D
<1>. QED
  BY <1>2, <1>12, <1>13, <1>14, <1>15 DEF Execute, rows, program

LEMMA SensitiveRuns ==
    ASSUME NEW machine \in Machines, NEW call, call.nr \in Word
    PROVE  Execute(SensitiveHostHandlePolicy(machine), call) =
              IF \/ call.arch # machine
                 \/ machine = "x86_64" /\ ~(call.nr < X32Bit)
                 \/ call.nr \in Range(PidfdDescriptorSyscalls) \cup Range(KeyringSyscalls(machine))
                THEN "deny" ELSE "allow"
<1>. DEFINE program == SensitiveHostHandlePolicy(machine)
            numbers == PidfdDescriptorSyscalls \o KeyringSyscalls(machine)
            A == Prologue(machine)
            B == DenyEach(numbers)
            C == <<Ret("allow")>>
<1>1. program = A \o B \o C
  BY DEF SensitiveHostHandlePolicy
<1>2. /\ numbers \in Seq(Nat)
      /\ Range(numbers) = Range(PidfdDescriptorSyscalls) \cup Range(KeyringSyscalls(machine))
  BY DeniedNumbers
<1>. HIDE DEF numbers
<1>3. /\ A \in Seq(Instruction) /\ B \in Seq(Instruction) /\ Closed(A) /\ Closed(B)
  BY <1>2, BlocksAreClosed, DenialsAreClosed
<1>4. /\ C \in Seq(Instruction) /\ Ends(C) /\ C # <<>> /\ Len(C) = 1 /\ C[1] = Ret("allow")
  BY Instructions DEF Ends, Ret
<1>. HIDE DEF A, B, C, program
<1>5. /\ A \o B \in Seq(Instruction) /\ program \in Seq(Instruction) /\ Len(program) \in Nat
      /\ Len(A) \in Nat /\ Len(B) \in Nat
  BY <1>1, <1>3, <1>4
<1>6. IsProgram(program)
  BY <1>1, <1>3, <1>4, <1>5, ClosedTogether, EndsTogether DEF IsProgram
<1>7. At(program, 0, A \o B \o C)
  BY <1>1, <1>5 DEF At
<1>8. At(program, 0, A \o B) /\ At(program, 0 + Len(A \o B), C)
  BY <1>4, <1>5, <1>7, Placed
<1>9. At(program, 0, A) /\ At(program, 0 + Len(A), B)
  BY <1>3, <1>5, <1>8, Placed
<1>. DEFINE rows == Rows(program, call)
            b == Len(A)
            c == Len(A) + Len(B)
<1>10. 0 + Len(A) = b /\ 0 + Len(A \o B) = c
  BY <1>3, <1>5
<1>. HIDE DEF rows
<1>11. rows[1]["arch"] = IF \/ call.arch # machine
                            \/ machine = "x86_64" /\ ~(call.nr < X32Bit)
                           THEN "deny" ELSE rows[b + 1]["nr"]
  <2>1. rows[0 + 1]["arch"] = IF \/ call.arch # machine
                                 \/ machine = "x86_64" /\ ~(call.nr < X32Bit)
                                THEN "deny" ELSE rows[0 + (b + 1)]["nr"]
    BY <1>6, <1>9, PrologueRuns DEF rows, A
  <2>. QED
    BY <1>5, <2>1
<1>12. rows[b + 1]["nr"] = IF call.nr \in Range(numbers) THEN "deny" ELSE rows[c + 1]["nr"]
  <2>1. rows[b + 1]["nr"] = IF call.nr \in Range(numbers) THEN "deny" ELSE rows[b + Len(B) + 1]["nr"]
    BY <1>2, <1>6, <1>9, <1>10, DenyRuns DEF rows, B
  <2>. QED
    BY <1>5, <2>1
<1>13. rows[c + 1]["nr"] = "allow"
  <2>1. 1 \in 1..Len(C) /\ "nr" \in Fields
    BY <1>4 DEF Fields
  <2>. QED
    BY <1>4, <1>6, <1>8, <1>10, <2>1, ReturnsAt DEF rows
<1>. QED
  BY <1>2, <1>11, <1>12, <1>13 DEF Execute, rows, program

\* The two stacked programs admit exactly the calls the docstrings permit, for
\* every number, argument and claimed architecture: no relative jump of them
\* lands an instruction off (apply_network_seccomp_policy,
\* apply_sensitive_host_handle_policy).
THEOREM FiltersAreThePolicy ==
    ASSUME NEW machine \in Machines, NEW call, call.nr \in Word
    PROVE  Admitted(machine, call) <=> Permitted(machine, call)
BY NetworkRuns, SensitiveRuns DEF Admitted, Permitted, Named

-----------------------------------------------------------------------------
(***************************************************************************)
(* The sample of calls of Misjudged.                                       *)
(***************************************************************************)

\* The members of short sequences.
LEMMA RangeOfThree ==
    ASSUME NEW a, NEW b, NEW c
    PROVE  Range(<<a, b, c>>) = {a, b, c}
<1>. DEFINE s == <<a, b, c>>
<1>1. DOMAIN s = {1, 2, 3} /\ s[1] = a /\ s[2] = b /\ s[3] = c
  OBVIOUS
<1>. HIDE DEF s
<1>2. Range(s) = {a, b, c}
  BY <1>1 DEF Range
<1>. QED
  BY <1>2 DEF s

LEMMA RangeOfTwo ==
    ASSUME NEW a, NEW b
    PROVE  Range(<<a, b>>) = {a, b}
<1>. DEFINE s == <<a, b>>
<1>1. DOMAIN s = {1, 2} /\ s[1] = a /\ s[2] = b
  OBVIOUS
<1>. HIDE DEF s
<1>2. Range(s) = {a, b}
  BY <1>1 DEF Range
<1>. QED
  BY <1>2 DEF s

LEMMA SmallNumbers == X32Bit \in Nat /\ X32Bit > 1000 /\ 0..1000 \subseteq Word
<1>1. X32Bit \in Nat /\ X32Bit > 1000
  BY SMT DEF X32Bit
<1>2. ASSUME NEW n \in 0..1000 PROVE n \in Word
  BY <1>1, SMT DEF Word
<1>. QED
  BY <1>1, <1>2

\* The sample of calls is of numbers the kernel may hand a filter.
LEMMA NumbersAreWords == Numbers \subseteq Word
<1>1. ASSUME NEW m \in Machines, NEW n \in SignalNumbers[m] PROVE n \in 0..1000
  BY SMT DEF Machines, SignalNumbers
<1>2. ASSUME NEW m \in Machines, NEW n \in Range(ProcessMemorySyscalls(m)) PROVE n \in 0..1000
  <2>1. Range(ProcessMemorySyscalls(m)) \in {{101, 310, 311}, {117, 270, 271}}
    BY RangeOfThree DEF ProcessMemorySyscalls
  <2>. QED
    BY <2>1
<1>3. ASSUME NEW m \in Machines, NEW n \in Range(KeyringSyscalls(m)) PROVE n \in 0..1000
  <2>1. Range(KeyringSyscalls(m)) \in {{248, 249, 250}, {217, 218, 219}}
    BY RangeOfThree DEF KeyringSyscalls
  <2>. QED
    BY <2>1
<1>4. ASSUME NEW m \in Machines PROVE PrlimitSyscall(m) \in 0..1000
  BY DEF PrlimitSyscall
<1>5. ASSUME NEW m \in Machines, NEW n \in Range(SocketSyscalls(m)) PROVE n \in 0..1000
  <2>1. CASE m = "x86_64"
    <3>1. SocketSyscalls(m) = [socket |-> 41, socketpair |-> 53, connect |-> 42]
      BY <2>1 DEF SocketSyscalls
    <3>2. n \in {41, 53, 42}
      BY <3>1 DEF Range
    <3>. QED
      BY <3>2
  <2>2. CASE m # "x86_64"
    <3>1. SocketSyscalls(m) = [socket |-> 198, socketpair |-> 199, connect |-> 203]
      BY <2>2 DEF SocketSyscalls
    <3>2. n \in {198, 199, 203}
      BY <3>1 DEF Range
    <3>. QED
      BY <3>2
  <2>. QED
    BY <2>1, <2>2
<1>6. ASSUME NEW n \in Range(IoUringSyscalls) \cup Range(PidfdDescriptorSyscalls) \cup {0, 56} PROVE n \in 0..1000
  <2>1. Range(IoUringSyscalls) = {425, 426, 427} /\ Range(PidfdDescriptorSyscalls) = {434, 438}
    BY RangeOfThree, RangeOfTwo DEF IoUringSyscalls, PidfdDescriptorSyscalls
  <2>. QED
    BY <2>1
<1>7. ASSUME NEW n \in {X32Bit + 0, X32Bit + 41, X32Bit + 302} PROVE n \in Word
  BY <1>7, SmallNumbers, SMT DEF Word
<1>8. ASSUME NEW n \in Numbers
      PROVE  \/ n \in 0..1000
             \/ n \in {X32Bit + 0, X32Bit + 41, X32Bit + 302}
  <2>1. CASE \E m \in Machines :
                n \in SignalNumbers[m] \cup Range(ProcessMemorySyscalls(m))
                    \cup Range(KeyringSyscalls(m)) \cup {PrlimitSyscall(m)} \cup Range(SocketSyscalls(m))
    BY <1>1, <1>2, <1>3, <1>4, <1>5, <2>1
  <2>2. CASE n \in Range(IoUringSyscalls) \cup Range(PidfdDescriptorSyscalls) \cup {0, 56}
    BY <1>6, <2>2
  <2>3. CASE n \in {X32Bit + 0, X32Bit + 41, X32Bit + 302}
    BY <2>3
  <2>. QED
    BY <2>1, <2>2, <2>3 DEF Numbers
<1>. QED
  BY <1>7, <1>8, SmallNumbers

\* Of the sample of calls none is judged otherwise than the policy says.
LEMMA NothingIsMisjudged == Misjudged = {}
<1>1. ASSUME NEW q \in Machines \X Calls PROVE Admitted(q[1], q[2]) = Permitted(q[1], q[2])
  <2>1. q[1] \in Machines /\ q[2].nr \in Word
    BY NumbersAreWords DEF Calls
  <2>2. Admitted(q[1], q[2]) <=> Permitted(q[1], q[2])
    BY <2>1, FiltersAreThePolicy
  <2>3. Admitted(q[1], q[2]) \in BOOLEAN /\ Permitted(q[1], q[2]) \in BOOLEAN
    BY DEF Admitted, Permitted
  <2>. QED
    BY <2>2, <2>3
<1>. QED
  BY <1>1 DEF Misjudged

-----------------------------------------------------------------------------
(***************************************************************************)
(* What the ruleset of a probe grants.                                     *)
(***************************************************************************)

\* A prefix, name by name.
LEMMA PrefixElements ==
    ASSUME NEW S, NEW s \in Seq(S), NEW t \in Seq(S)
    PROVE  IsPrefix(s, t) <=> Len(s) <= Len(t) /\ \A i \in 1..Len(s) : s[i] = t[i]
<1>1. CASE Len(s) <= Len(t)
  <2>. DEFINE a == SubSeq(s, 1, Len(s))
              b == SubSeq(t, 1, Len(s))
  <2>1. a \in Seq(S) /\ Len(a) = Len(s) /\ \A i \in 1..Len(s) : a[i] = s[i]
    OBVIOUS
  <2>2. b \in Seq(S) /\ Len(b) = Len(s) /\ \A i \in 1..Len(s) : b[i] = t[i]
    BY <1>1
  <2>3. a = b <=> \A i \in 1..Len(s) : s[i] = t[i]
    BY <2>1, <2>2
  <2>. QED
    BY <1>1, <2>3 DEF IsPrefix
<1>2. CASE ~(Len(s) <= Len(t))
  BY <1>2 DEF IsPrefix
<1>. QED
  BY <1>1, <1>2

LEMMA PrefixOfOne ==
    ASSUME NEW S, NEW x \in S, NEW t \in Seq(S)
    PROVE  IsPrefix(<<x>>, t) <=> Len(t) >= 1 /\ t[1] = x
<1>. DEFINE s == <<x>>
<1>1. s \in Seq(S) /\ Len(s) = 1 /\ s[1] = x
  OBVIOUS
<1>. HIDE DEF s
<1>2. IsPrefix(s, t) <=> Len(s) <= Len(t) /\ \A i \in 1..Len(s) : s[i] = t[i]
  <2>1. s \in Seq(S)
    BY <1>1
  <2>. QED
    BY <2>1, PrefixElements
<1>3. IsPrefix(s, t) <=> Len(t) >= 1 /\ t[1] = x
  BY <1>1, <1>2
<1>. QED
  BY <1>3 DEF s

LEMMA PrefixOfTwo ==
    ASSUME NEW S, NEW x \in S, NEW y \in S, NEW t \in Seq(S)
    PROVE  IsPrefix(<<x, y>>, t) <=> Len(t) >= 2 /\ t[1] = x /\ t[2] = y
<1>. DEFINE s == <<x, y>>
<1>1. s \in Seq(S) /\ Len(s) = 2 /\ s[1] = x /\ s[2] = y
  OBVIOUS
<1>. HIDE DEF s
<1>2. IsPrefix(s, t) <=> Len(s) <= Len(t) /\ \A i \in 1..Len(s) : s[i] = t[i]
  <2>1. s \in Seq(S)
    BY <1>1
  <2>. QED
    BY <2>1, PrefixElements
<1>3. IsPrefix(s, t) <=> Len(t) >= 2 /\ t[1] = x /\ t[2] = y
  BY <1>1, <1>2
<1>. QED
  BY <1>3 DEF s

LEMMA PrefixOfThree ==
    ASSUME NEW S, NEW x \in S, NEW y \in S, NEW z \in S, NEW t \in Seq(S)
    PROVE  IsPrefix(<<x, y, z>>, t) <=> Len(t) >= 3 /\ t[1] = x /\ t[2] = y /\ t[3] = z
<1>. DEFINE s == <<x, y, z>>
<1>1. s \in Seq(S) /\ Len(s) = 3 /\ s[1] = x /\ s[2] = y /\ s[3] = z
  OBVIOUS
<1>. HIDE DEF s
<1>2. IsPrefix(s, t) <=> Len(s) <= Len(t) /\ \A i \in 1..Len(s) : s[i] = t[i]
  <2>1. s \in Seq(S)
    BY <1>1
  <2>. QED
    BY <2>1, PrefixElements
<1>3. IsPrefix(s, t) <=> Len(t) >= 3 /\ t[1] = x /\ t[2] = y /\ t[3] = z
  BY <1>1, <1>2
<1>. QED
  BY <1>3 DEF s

\* Paths with a name more or less.
LEMMA Appended1 ==
    ASSUME NEW S, NEW x \in S, NEW y \in S
    PROVE  <<x>> \o <<y>> = <<x, y>>
<1>. DEFINE s == <<x>> \o <<y>>
<1>1. <<x>> \in Seq(S) /\ <<y>> \in Seq(S)
  OBVIOUS
<1>2. s \in Seq(S) /\ Len(s) = 2 /\ s[1] = x /\ s[2] = y
  BY <1>1
<1>. HIDE DEF s
<1>3. s = <<x, y>>
  BY <1>2
<1>. QED
  BY <1>3 DEF s

LEMMA Appended2 ==
    ASSUME NEW S, NEW x \in S, NEW y \in S, NEW z \in S
    PROVE  <<x, y>> \o <<z>> = <<x, y, z>> /\ Front(<<x, y, z>>) = <<x, y>>
<1>. DEFINE s == <<x, y>> \o <<z>>
            f == Front(<<x, y, z>>)
<1>1. <<x, y>> \in Seq(S) /\ <<z>> \in Seq(S) /\ <<x, y, z>> \in Seq(S)
  OBVIOUS
<1>2. s \in Seq(S) /\ Len(s) = 3 /\ s[1] = x /\ s[2] = y /\ s[3] = z
  BY <1>1
<1>3. f \in Seq(S) /\ Len(f) = 2 /\ f[1] = x /\ f[2] = y
  BY <1>1 DEF Front
<1>. HIDE DEF s, f
<1>4. s = <<x, y, z>>
  BY <1>2
<1>5. f = <<x, y>>
  BY <1>3
<1>. QED
  BY <1>4, <1>5 DEF s, f

LEMMA Appended3 ==
    ASSUME NEW S, NEW x \in S, NEW y \in S, NEW z \in S, NEW w \in S
    PROVE  <<x, y, z>> \o <<w>> = <<x, y, z, w>> /\ Front(<<x, y, z, w>>) = <<x, y, z>>
<1>. DEFINE s == <<x, y, z>> \o <<w>>
            f == Front(<<x, y, z, w>>)
<1>1. <<x, y, z>> \in Seq(S) /\ <<w>> \in Seq(S) /\ <<x, y, z, w>> \in Seq(S)
  OBVIOUS
<1>2. s \in Seq(S) /\ Len(s) = 4 /\ s[1] = x /\ s[2] = y /\ s[3] = z /\ s[4] = w
  BY <1>1
<1>3. f \in Seq(S) /\ Len(f) = 3 /\ f[1] = x /\ f[2] = y /\ f[3] = z
  BY <1>1 DEF Front
<1>. HIDE DEF s, f
<1>4. s = <<x, y, z, w>>
  BY <1>2
<1>5. f = <<x, y, z>>
  BY <1>3
<1>. QED
  BY <1>4, <1>5 DEF s, f

\* The places of the staged runtimes, name by name.
LEMMA Places ==
    ASSUME NEW probe
    PROVE  /\ RustBin = <<"work", "rust-runtime", "bin">>
           /\ RustBin \o <<"rustc">> = <<"work", "rust-runtime", "bin", "rustc">>
           /\ RustBin \o <<"rustdoc">> = <<"work", "rust-runtime", "bin", "rustdoc">>
           /\ Executable(probe) = IF probe = "rust_all"
                                    THEN <<"work", "rust-runtime", "bin", "exe">>
                                    ELSE <<"work", "python-runtime", "exe">>
           /\ Front(Executable(probe)) = IF probe = "rust_all" THEN RustBin ELSE PythonRuntime
<1>. DEFINE w == "work"
            r == "rust-runtime"
            b == "bin"
            p == "python-runtime"
            e == "exe"
            c == "rustc"
            d == "rustdoc"
            S == {w, r, b, p, e, c, d}
<1>. HIDE DEF S
<1>0. w \in S /\ r \in S /\ b \in S /\ p \in S /\ e \in S /\ c \in S /\ d \in S
  BY DEF S
<1>1. RustBin = <<w, r, b>>
  BY <1>0, Appended2 DEF RustBin, RustRuntime
<1>2. RustBin \o <<c>> = <<w, r, b, c>>
  <2>1. <<w, r, b>> \o <<c>> = <<w, r, b, c>> /\ Front(<<w, r, b, c>>) = <<w, r, b>>
    BY <1>0, Appended3
  <2>. QED
    BY <1>1, <2>1
<1>3. RustBin \o <<d>> = <<w, r, b, d>>
  <2>1. <<w, r, b>> \o <<d>> = <<w, r, b, d>> /\ Front(<<w, r, b, d>>) = <<w, r, b>>
    BY <1>0, Appended3
  <2>. QED
    BY <1>1, <2>1
<1>4. CASE probe = "rust_all"
  <2>0. Executable(probe) = RustBin \o <<e>>
    BY <1>4 DEF Executable
  <2>1. Executable(probe) = <<w, r, b, e>> /\ Front(<<w, r, b, e>>) = <<w, r, b>>
    BY <1>0, <1>1, <2>0, Appended3
  <2>. QED
    BY <1>1, <1>2, <1>3, <1>4, <2>1
<1>5. CASE probe # "rust_all"
  <2>0. Executable(probe) = PythonRuntime \o <<e>>
    BY <1>5 DEF Executable
  <2>1. Executable(probe) = <<w, p, e>> /\ Front(<<w, p, e>>) = <<w, p>>
    BY <1>0, <2>0, Appended2 DEF PythonRuntime
  <2>. QED
    BY <1>1, <1>2, <1>3, <1>5, <2>1 DEF PythonRuntime
<1>. QED
  BY <1>4, <1>5

\* What a set of declared roots grants.
Beneath(roots, rights, exists, files, path, right) ==
    \E p \in roots \cap exists : IsPrefix(p, path) /\ right \in RightsFor(p \in files, rights)

\* A ruleset grants what one of its four kinds of rules does.
LEMMA GrantedBy ==
    ASSUME NEW readExec, NEW read, NEW writable, NEW exists, NEW files, NEW self, NEW path, NEW right
    PROVE  Granted(Rules(readExec, read, writable, exists, files, self), path, right)
           <=> \/ Beneath(readExec, ReadExecRights, exists, files, path, right)
               \/ Beneath(read, ReadRights, exists, files, path, right)
               \/ Beneath(writable, ReadExecRights \cup WriteRights, exists, files, path, right)
               \/ IsPrefix(<<"proc", self>>, path) /\ right \in ReadRights
<1>. DEFINE rule(p, rights) == [path |-> p, rights |-> RightsFor(p \in files, rights)]
            A == {rule(p, ReadExecRights) : p \in readExec \cap exists}
            B == {rule(p, ReadRights) : p \in read \cap exists}
            C == {rule(p, ReadExecRights \cup WriteRights) : p \in writable \cap exists}
            own == [path |-> <<"proc", self>>, rights |-> ReadRights]
            reaches(r) == IsPrefix(r.path, path) /\ right \in r.rights
<1>1. Rules(readExec, read, writable, exists, files, self) = A \cup B \cup C \cup {own}
  BY DEF Rules
<1>2. ASSUME NEW roots, NEW rights
      PROVE  (\E r \in {rule(p, rights) : p \in roots \cap exists} : reaches(r))
             <=> Beneath(roots, rights, exists, files, path, right)
  <2>1. \A p : reaches(rule(p, rights))
               <=> IsPrefix(p, path) /\ right \in RightsFor(p \in files, rights)
    OBVIOUS
  <2>. HIDE DEF reaches, rule
  <2>. QED
    BY <2>1 DEF Beneath
<1>3. reaches(own) <=> IsPrefix(<<"proc", self>>, path) /\ right \in ReadRights
  OBVIOUS
<1>4. Granted(Rules(readExec, read, writable, exists, files, self), path, right)
      <=> \E r \in A \cup B \cup C \cup {own} : reaches(r)
  BY <1>1 DEF Granted
<1>5. (\E r \in A : reaches(r)) <=> Beneath(readExec, ReadExecRights, exists, files, path, right)
  BY <1>2
<1>6. (\E r \in B : reaches(r)) <=> Beneath(read, ReadRights, exists, files, path, right)
  BY <1>2
<1>7. (\E r \in C : reaches(r)) <=> Beneath(writable, ReadExecRights \cup WriteRights, exists, files, path, right)
  BY <1>2
<1>. HIDE DEF A, B, C, own, reaches, rule
<1>8. (\E r \in A \cup B \cup C \cup {own} : reaches(r))
      <=> (\E r \in A : reaches(r)) \/ (\E r \in B : reaches(r)) \/ (\E r \in C : reaches(r)) \/ reaches(own)
  OBVIOUS
<1>. QED
  BY <1>3, <1>4, <1>5, <1>6, <1>7, <1>8

\* Whatever exists, whoever asks and whatever the path: a probe has a right to
\* change something exactly beneath its private directories and at the null
\* device, and there only what a file can have (apply_landlock_policy with the
\* roots of run_probe).
THEOREM WritesAreConfined ==
    ASSUME NEW probe, NEW exists, NEW self, NEW path, NEW right \in WriteRights
    PROVE  Granted(ProbeRules(probe, exists, self), path, right)
           <=> \E root \in (PrivateWritable \cup {NullDevice}) \cap exists :
                  IsPrefix(root, path) /\ (root = NullDevice => right \in FileRights)
<1>. DEFINE readExec == {SourceRoot, Front(Executable(probe)), RustRuntime} \cup SystemReadExec
            writable == PrivateWritable \cup {NullDevice}
            files == SystemRead \cup {NullDevice}
            all == ReadExecRights \cup WriteRights
<1>1. right \notin ReadRights /\ right \notin ReadExecRights
  BY DEF WriteRights, ReadRights, ReadExecRights
<1>2. \A isFile : right \notin RightsFor(isFile, ReadRights) /\ right \notin RightsFor(isFile, ReadExecRights)
  BY <1>1 DEF RightsFor
<1>3. Granted(ProbeRules(probe, exists, self), path, right)
      <=> \E p \in writable \cap exists :
             IsPrefix(p, path) /\ right \in RightsFor(p \in files, all)
  <2>. HIDE DEF readExec, writable, files
  <2>1. Granted(Rules(readExec, SystemRead, writable, exists, files, self), path, right)
        <=> \E p \in writable \cap exists :
               IsPrefix(p, path) /\ right \in RightsFor(p \in files, all)
    <3>. DEFINE run == Beneath(readExec, ReadExecRights, exists, files, path, right)
                see == Beneath(SystemRead, ReadRights, exists, files, path, right)
                work == Beneath(writable, all, exists, files, path, right)
    <3>1. Granted(Rules(readExec, SystemRead, writable, exists, files, self), path, right)
          <=> \/ run \/ see \/ work
              \/ IsPrefix(<<"proc", self>>, path) /\ right \in ReadRights
      BY GrantedBy
    <3>2. ~run /\ ~see
      BY <1>2 DEF Beneath
    <3>. HIDE DEF run, see, work
    <3>3. Granted(Rules(readExec, SystemRead, writable, exists, files, self), path, right) <=> work
      BY <1>1, <3>1, <3>2
    <3>. QED
      BY <3>3 DEF work, Beneath
  <2>. QED
    BY <2>1 DEF ProbeRules, readExec, writable, files
<1>4. ASSUME NEW p \in writable
      PROVE  right \in RightsFor(p \in files, all) <=> (p = NullDevice => right \in FileRights)
  <2>1. CASE p = NullDevice
    BY <2>1 DEF RightsFor
  <2>2. CASE p # NullDevice
    <3>1. p \in PrivateWritable
      BY <2>2
    <3>2. PICK name : p = <<"quota", name>>
      BY <3>1 DEF PrivateWritable, Private
    <3>3. p # <<"etc", "passwd">> /\ p # <<"etc", "hosts">>
      BY <3>2
    <3>4. p \notin files
      BY <2>2, <3>3 DEF SystemRead
    <3>. QED
      BY <2>2, <3>4 DEF RightsFor
  <2>. QED
    BY <2>1, <2>2
<1>. QED
  BY <1>3, <1>4

\* The names the roots of a probe are made of, and its roots.
RootNames ==
    {"work", "src", "rust-runtime", "python-runtime", "bin", "usr", "lib", "etc", "passwd", "hosts",
     "dev", "null", "quota", "home", "cargo-home", "target", "tmp"}

Root(p) ==
    \/ p = <<"work", "src">> \/ p = <<"work", "rust-runtime">> \/ p = <<"work", "python-runtime">>
    \/ p = <<"work", "rust-runtime", "bin">>
    \/ p = <<"usr", "bin">> \/ p = <<"usr", "lib">> \/ p = <<"bin">> \/ p = <<"lib">>
    \/ p = <<"etc", "passwd">> \/ p = <<"etc", "hosts">> \/ p = <<"dev", "null">>
    \/ \E name \in RootNames : p = <<"quota", name>>

\* What run_probe declares are roots by this list.
LEMMA Roots ==
    ASSUME NEW probe, NEW p \in {SourceRoot, Front(Executable(probe)), RustRuntime} \cup SystemReadExec
                                \cup SystemRead \cup PrivateWritable \cup {NullDevice}
    PROVE  Root(p)
<1>1. Front(Executable(probe)) \in {<<"work", "rust-runtime", "bin">>, <<"work", "python-runtime">>}
  BY Places DEF PythonRuntime
<1>2. CASE p \in PrivateWritable
  <2>1. PICK name \in {"home", "cargo-home", "target", "tmp"} : p = <<"quota", name>>
    BY <1>2 DEF PrivateWritable, Private
  <2>2. name \in RootNames
    BY DEF RootNames
  <2>. QED
    BY <2>1, <2>2 DEF Root
<1>3. CASE p \in SystemRead
  BY <1>3 DEF Root, SystemRead
<1>4. CASE p \in SystemReadExec
  BY <1>4 DEF Root, SystemReadExec
<1>5. CASE p = Front(Executable(probe))
  BY <1>1, <1>5 DEF Root
<1>6. CASE p = SourceRoot \/ p = RustRuntime \/ p = NullDevice
  BY <1>6 DEF Root, SourceRoot, RustRuntime, NullDevice
<1>. QED
  BY <1>2, <1>3, <1>4, <1>5, <1>6

\* No root has a path of /proc beneath it.
LEMMA NotBeneathProc ==
    ASSUME NEW S, RootNames \subseteq S, NEW p, Root(p), NEW path \in Seq(S), IsPrefix(p, path)
    PROVE  path[1] # "proc"
<1>1. "work" \in S /\ "src" \in S /\ "rust-runtime" \in S /\ "python-runtime" \in S /\ "bin" \in S
  BY DEF RootNames
<1>2. "usr" \in S /\ "lib" \in S /\ "etc" \in S /\ "passwd" \in S /\ "hosts" \in S
  BY DEF RootNames
<1>3. "dev" \in S /\ "null" \in S /\ "quota" \in S
  BY DEF RootNames
<1>4. path \in Seq(S)
  OBVIOUS
<1>5. CASE p = <<"work", "rust-runtime", "bin">>
  BY <1>1, <1>4, <1>5, PrefixOfThree
<1>6. CASE p = <<"bin">>
  BY <1>1, <1>4, <1>6, PrefixOfOne
<1>7. CASE p = <<"lib">>
  BY <1>2, <1>4, <1>7, PrefixOfOne
<1>8. CASE p = <<"work", "src">> \/ p = <<"work", "rust-runtime">> \/ p = <<"work", "python-runtime">>
  BY <1>1, <1>4, <1>8, PrefixOfTwo
<1>9. CASE p = <<"usr", "bin">> \/ p = <<"usr", "lib">>
  BY <1>1, <1>2, <1>4, <1>9, PrefixOfTwo
<1>10. CASE p = <<"etc", "passwd">> \/ p = <<"etc", "hosts">>
  BY <1>2, <1>4, <1>10, PrefixOfTwo
<1>11. CASE p = <<"dev", "null">>
  BY <1>3, <1>4, <1>11, PrefixOfTwo
<1>12. CASE \E name \in RootNames : p = <<"quota", name>>
  <2>1. PICK name \in S : p = <<"quota", name>>
    BY <1>12
  <2>. QED
    BY <1>3, <1>4, <2>1, PrefixOfTwo
<1>. QED
  BY <1>5, <1>6, <1>7, <1>8, <1>9, <1>10, <1>11, <1>12 DEF Root

\* Of /proc a probe reads its own directory and nothing of another process's,
\* the harness's among them, whose environment holds the caller's.
THEOREM ProcIsItsOwn ==
    ASSUME NEW Names, RootNames \cup {"proc"} \subseteq Names,
           NEW probe, NEW exists, NEW self \in Names, NEW path \in Seq(Names), path[1] = "proc",
           NEW right, Granted(ProbeRules(probe, exists, self), path, right)
    PROVE  Len(path) >= 2 /\ path[2] = self /\ right \in ReadRights
<1>. DEFINE readExec == {SourceRoot, Front(Executable(probe)), RustRuntime} \cup SystemReadExec
            writable == PrivateWritable \cup {NullDevice}
            files == SystemRead \cup {NullDevice}
            run == Beneath(readExec, ReadExecRights, exists, files, path, right)
            see == Beneath(SystemRead, ReadRights, exists, files, path, right)
            all == ReadExecRights \cup WriteRights
            work == Beneath(writable, all, exists, files, path, right)
<1>1. Granted(ProbeRules(probe, exists, self), path, right)
      <=> \/ run \/ see \/ work
          \/ IsPrefix(<<"proc", self>>, path) /\ right \in ReadRights
  <2>. HIDE DEF readExec, writable, files
  <2>1. Granted(Rules(readExec, SystemRead, writable, exists, files, self), path, right)
        <=> \/ run \/ see \/ work
            \/ IsPrefix(<<"proc", self>>, path) /\ right \in ReadRights
    BY GrantedBy
  <2>. QED
    BY <2>1 DEF ProbeRules, readExec, writable, files
<1>2. \A p \in readExec \cup SystemRead \cup writable : ~IsPrefix(p, path)
  <2>1. ASSUME NEW p \in readExec \cup SystemRead \cup writable PROVE Root(p)
    BY Roots
  <2>. HIDE DEF readExec, writable
  <2>. QED
    BY <2>1, NotBeneathProc
<1>3. ~run /\ ~see /\ ~work
  <2>. HIDE DEF readExec, writable
  <2>. QED
    BY <1>2 DEF Beneath
<1>4. IsPrefix(<<"proc", self>>, path) /\ right \in ReadRights
  <2>. HIDE DEF run, see, work
  <2>. QED
    BY <1>1, <1>3
<1>5. "proc" \in Names
  OBVIOUS
<1>. QED
  BY <1>4, <1>5, PrefixOfTwo

PathNames == RootNames \cup {"x", "shadow", "proc", "environ", Harness, "probe"}

\* The names of the sample of paths.
LEMMA PathNamesAre ==
    /\ "work" \in PathNames /\ "src" \in PathNames /\ "rust-runtime" \in PathNames
    /\ "bin" \in PathNames /\ "usr" \in PathNames /\ "lib" \in PathNames
    /\ "etc" \in PathNames /\ "passwd" \in PathNames /\ "hosts" \in PathNames
    /\ "dev" \in PathNames /\ "null" \in PathNames /\ "quota" \in PathNames
    /\ "home" \in PathNames /\ "cargo-home" \in PathNames /\ "target" \in PathNames
    /\ "tmp" \in PathNames /\ "x" \in PathNames /\ "shadow" \in PathNames
    /\ "proc" \in PathNames /\ "environ" \in PathNames /\ Harness \in PathNames
    /\ "probe" \in PathNames
  BY DEF PathNames, RootNames

\* A path of the sample, and where it starts.
Sampled(path) == path \in Seq(PathNames) /\ (path[1] = "dev" => path = NullDevice)

LEMMA SampledOne ==
    ASSUME NEW a \in PathNames, a # "dev" PROVE Sampled(<<a>>)
  BY DEF Sampled

LEMMA SampledTwo ==
    ASSUME NEW a \in PathNames, NEW b \in PathNames, a # "dev" PROVE Sampled(<<a, b>>)
  BY DEF Sampled

LEMMA SampledThree ==
    ASSUME NEW a \in PathNames, NEW b \in PathNames, NEW c \in PathNames, a # "dev" PROVE Sampled(<<a, b, c>>)
  BY DEF Sampled

LEMMA AppendedX ==
    ASSUME NEW S, "x" \in S, NEW a \in S, NEW b \in S
    PROVE  <<a>> \o <<"x">> = <<a, "x">> /\ <<a, b>> \o <<"x">> = <<a, b, "x">>
<1>. DEFINE x == "x"
<1>0. x \in S
  OBVIOUS
<1>. HIDE DEF x
<1>1. <<a>> \o <<x>> = <<a, x>>
  BY <1>0, Appended1
<1>2. <<a, b>> \o <<x>> = <<a, b, x>> /\ Front(<<a, b, x>>) = <<a, b>>
  BY <1>0, Appended2
<1>. QED
  BY <1>1, <1>2 DEF x

LEMMA PathShapes ==
    ASSUME NEW path \in Paths
    PROVE  Sampled(path)
<1>. USE PathNamesAre
<1>1. CASE path \in SystemReadExec
  <2>1. path = <<"usr", "bin">> \/ path = <<"usr", "lib">> \/ path = <<"bin">> \/ path = <<"lib">>
    BY <1>1 DEF SystemReadExec
  <2>. QED
    BY <2>1, SampledOne, SampledTwo
<1>2. CASE path \in SystemRead
  <2>1. path = <<"etc", "passwd">> \/ path = <<"etc", "hosts">>
    BY <1>2 DEF SystemRead
  <2>. QED
    BY <2>1, SampledTwo
<1>3. ASSUME NEW root \in PrivateWritable
      PROVE  \E name \in PathNames : root = <<"quota", name>>
  <2>1. PICK name \in {"home", "cargo-home", "target", "tmp"} : root = <<"quota", name>>
    BY DEF PrivateWritable, Private
  <2>2. name \in PathNames
    OBVIOUS
  <2>. QED
    BY <2>1, <2>2
<1>4. CASE path \in PrivateWritable
  BY <1>3, <1>4, SampledTwo
<1>5. CASE path \in {root \o <<"x">> : root \in PrivateWritable \cup SystemReadExec \cup {SourceRoot}}
  <2>1. PICK root \in PrivateWritable \cup SystemReadExec \cup {SourceRoot} : path = root \o <<"x">>
    BY <1>5
  <2>2. CASE root \in PrivateWritable
    <3>1. PICK name \in PathNames : root = <<"quota", name>>
      BY <1>3, <2>2
    <3>2. path = <<"quota", name, "x">>
      BY <2>1, <3>1, AppendedX
    <3>. QED
      BY <3>2, SampledThree
  <2>3. CASE root = <<"work", "src">>
    <3>1. path = <<"work", "src", "x">>
      BY <2>1, <2>3, AppendedX
    <3>. QED
      BY <3>1, SampledThree
  <2>4. CASE root = <<"usr", "bin">>
    <3>1. path = <<"usr", "bin", "x">>
      BY <2>1, <2>4, AppendedX
    <3>. QED
      BY <3>1, SampledThree
  <2>5. CASE root = <<"usr", "lib">>
    <3>1. path = <<"usr", "lib", "x">>
      BY <2>1, <2>5, AppendedX
    <3>. QED
      BY <3>1, SampledThree
  <2>6. CASE root = <<"bin">>
    <3>1. path = <<"bin", "x">>
      BY <2>1, <2>6, AppendedX
    <3>. QED
      BY <3>1, SampledTwo
  <2>7. CASE root = <<"lib">>
    <3>1. path = <<"lib", "x">>
      BY <2>1, <2>7, AppendedX
    <3>. QED
      BY <3>1, SampledTwo
  <2>. QED
    BY <2>2, <2>3, <2>4, <2>5, <2>6, <2>7 DEF SystemReadExec, SourceRoot
<1>6. CASE path \in {<<"quota">>, <<"work">>, <<"etc", "shadow">>, NullDevice, <<"tmp">>, RustBin}
  <2>1. CASE path = NullDevice
    BY <2>1 DEF Sampled, NullDevice
  <2>2. CASE path = RustBin
    <3>1. path = <<"work", "rust-runtime", "bin">>
      BY <2>2, Places
    <3>. QED
      BY <3>1, SampledThree
  <2>3. CASE path = <<"quota">> \/ path = <<"work">> \/ path = <<"tmp">>
    BY <2>3, SampledOne
  <2>4. CASE path = <<"etc", "shadow">>
    BY <2>4, SampledTwo
  <2>. QED
    BY <1>6, <2>1, <2>2, <2>3, <2>4
<1>7. CASE path \in {<<"proc", p, "environ">> : p \in {Harness, "probe"}}
  <2>1. PICK p \in {Harness, "probe"} : path = <<"proc", p, "environ">>
    BY <1>7
  <2>2. p \in PathNames
    OBVIOUS
  <2>. QED
    BY <2>1, <2>2, SampledThree
<1>. QED
  BY <1>1, <1>2, <1>4, <1>5, <1>6, <1>7 DEF Paths

\* Of the sample of paths no right is misplaced.
LEMMA NothingIsMisplaced == Misplaced = {}
<1>. DEFINE exists(private) == IF private THEN Paths ELSE Paths \ PrivateWritable
            roots(q) == IF q[1] = NullDevice /\ q[2] \notin FileRights
                          THEN {}
                          ELSE (PrivateWritable \cup {NullDevice}) \cap exists(q[3])
            A == {q \in Paths \X WriteRights \X BOOLEAN \X Probes :
                    Granted(ProbeRules(q[4], exists(q[3]), "probe"), q[1], q[2])
                      # (\E root \in roots(q) : IsPrefix(root, q[1]))}
            B == {q \in {<<"proc", Harness, "environ">>} \X ReadExecRights \X {TRUE} \X Probes :
                    Granted(ProbeRules(q[4], Paths, "probe"), q[1], q[2])}
<1>1. Misplaced = A \cup B
  BY DEF Misplaced
<1>2. ASSUME NEW path \in Paths, NEW right \in WriteRights, NEW there, NEW probe
      PROVE  Granted(ProbeRules(probe, there, "probe"), path, right)
             <=> \E root \in (IF path = NullDevice /\ right \notin FileRights
                                THEN {} ELSE (PrivateWritable \cup {NullDevice}) \cap there) : IsPrefix(root, path)
  <2>1. Sampled(path)
    BY PathShapes
  <2>2. path \in Seq(PathNames) /\ (path[1] = "dev" => path = NullDevice)
    BY <2>1 DEF Sampled
  <2>3. IsPrefix(NullDevice, path) => path = NullDevice
    <3>1. IsPrefix(<<"dev", "null">>, path) => path[1] = "dev"
      BY <2>2, PathNamesAre, PrefixOfTwo
    <3>. QED
      BY <2>2, <3>1 DEF NullDevice
  <2>4. ASSUME NEW root \in PrivateWritable, path = NullDevice PROVE ~IsPrefix(root, path)
    <3>1. PICK name \in {"home", "cargo-home", "target", "tmp"} : root = <<"quota", name>>
      BY <2>4 DEF PrivateWritable, Private
    <3>2. name \in PathNames
      BY PathNamesAre
    <3>3. IsPrefix(<<"quota", name>>, path) => path[1] = "quota"
      BY <2>2, <3>2, PathNamesAre, PrefixOfTwo
    <3>4. path[1] = "dev"
      BY <2>4 DEF NullDevice
    <3>. QED
      BY <3>1, <3>3, <3>4
  <2>5. NullDevice \notin PrivateWritable
    BY DEF NullDevice, PrivateWritable, Private
  <2>6. Granted(ProbeRules(probe, there, "probe"), path, right)
        <=> \E root \in (PrivateWritable \cup {NullDevice}) \cap there :
                  IsPrefix(root, path) /\ (root = NullDevice => right \in FileRights)
    BY WritesAreConfined
  <2>. QED
    BY <2>3, <2>4, <2>5, <2>6
<1>3. A = {}
  <2>1. SUFFICES ASSUME NEW q \in Paths \X WriteRights \X BOOLEAN \X Probes
                 PROVE  Granted(ProbeRules(q[4], exists(q[3]), "probe"), q[1], q[2])
                          = (\E root \in roots(q) : IsPrefix(root, q[1]))
    OBVIOUS
  <2>2. q[1] \in Paths /\ q[2] \in WriteRights
    OBVIOUS
  <2>. DEFINE P == Granted(ProbeRules(q[4], exists(q[3]), "probe"), q[1], q[2])
              E == \E root \in roots(q) : IsPrefix(root, q[1])
  <2>3. P <=> E
    <3>. HIDE DEF exists
    <3>. QED
      BY <1>2, <2>2
  <2>4. P \in BOOLEAN /\ E \in BOOLEAN
    BY DEF Granted
  <2>. HIDE DEF P, E
  <2>5. P = E
    BY <2>3, <2>4
  <2>. QED
    BY <2>5 DEF P, E
<1>4. B = {}
  <2>1. SUFFICES ASSUME NEW right \in ReadExecRights, NEW probe \in Probes,
                        Granted(ProbeRules(probe, Paths, "probe"), <<"proc", Harness, "environ">>, right)
                 PROVE  FALSE
    OBVIOUS
  <2>. DEFINE path == <<"proc", Harness, "environ">>
  <2>2. path \in Seq(PathNames) /\ path[1] = "proc" /\ path[2] = Harness
    BY PathNamesAre
  <2>3. RootNames \cup {"proc"} \subseteq PathNames
    BY DEF PathNames
  <2>. DEFINE me == "probe"
  <2>4. me \in PathNames /\ Granted(ProbeRules(probe, Paths, me), path, right)
    BY <2>1, PathNamesAre
  <2>. HIDE DEF path, me
  <2>5. path[2] = me
    BY <2>2, <2>3, <2>4, ProcIsItsOwn
  <2>. QED
    BY <2>2, <2>5 DEF Harness, me
<1>. QED
  BY <1>1, <1>3, <1>4

-----------------------------------------------------------------------------
(***************************************************************************)
(* Where a probe works and what it runs.                                   *)
(***************************************************************************)

\* The environment of a probe, name by name (_probe_environment).
LEMMA EnvironmentIs ==
    ASSUME NEW probe \in Probes
    PROVE  /\ ProbeEnvironment(probe)["HOME"] = Private("home")
           /\ ProbeEnvironment(probe)["CARGO_HOME"] = Private("cargo-home")
           /\ ProbeEnvironment(probe)["CARGO_TARGET_DIR"] = Private("target")
           /\ ProbeEnvironment(probe)["TMPDIR"] = Private("tmp")
           /\ ProbeEnvironment(probe).LD_LIBRARY_PATH = RustRuntime \o <<"lib">>
           /\ probe = "rust_all" => /\ ProbeEnvironment(probe).RUSTC = RustBin \o <<"rustc">>
                                    /\ ProbeEnvironment(probe).RUSTDOC = RustBin \o <<"rustdoc">>
<1>. DEFINE place == [ PATH |-> <<RustBin, PythonRuntime, <<"usr", "bin">>, <<"bin">>>>,
                   HOME |-> Private("home"), CARGO_HOME |-> Private("cargo-home"),
                   CARGO_TARGET_DIR |-> Private("target"), TMPDIR |-> Private("tmp"),
                   LD_LIBRARY_PATH |-> RustRuntime \o <<"lib">>,
                   RUSTC |-> RustBin \o <<"rustc">>, RUSTDOC |-> RustBin \o <<"rustdoc">> ]
            names == DOMAIN place \ (IF probe = "rust_all" THEN {} ELSE {"RUSTC", "RUSTDOC"})
<1>1. ProbeEnvironment(probe) = [name \in names |-> place[name]]
  BY DEF ProbeEnvironment
<1>2. /\ DOMAIN place = {"PATH", "HOME", "CARGO_HOME", "CARGO_TARGET_DIR", "TMPDIR", "LD_LIBRARY_PATH",
                         "RUSTC", "RUSTDOC"}
      /\ place["HOME"] = Private("home") /\ place["CARGO_HOME"] = Private("cargo-home")
      /\ place["CARGO_TARGET_DIR"] = Private("target") /\ place["TMPDIR"] = Private("tmp")
      /\ place["LD_LIBRARY_PATH"] = RustRuntime \o <<"lib">>
      /\ place["RUSTC"] = RustBin \o <<"rustc">> /\ place["RUSTDOC"] = RustBin \o <<"rustdoc">>
  OBVIOUS
<1>. HIDE DEF place
<1>3. /\ "HOME" \in names /\ "CARGO_HOME" \in names /\ "CARGO_TARGET_DIR" \in names
      /\ "TMPDIR" \in names /\ "LD_LIBRARY_PATH" \in names
      /\ probe = "rust_all" => "RUSTC" \in names /\ "RUSTDOC" \in names
  BY <1>2
<1>. HIDE DEF names
<1>. QED
  BY <1>1, <1>2, <1>3

LEMMA PrefixOfItself ==
    ASSUME NEW S, NEW s \in Seq(S)
    PROVE  IsPrefix(s, s)
  BY PrefixElements

\* A probe may write where its environment tells it to work, and executes what
\* it is told to run without being able to write it.
LEMMA WorksWhereItWrites ==
    ASSUME NEW probe, NEW there, NEW p \in PrivateWritable, PrivateWritable \subseteq there
    PROVE  Granted(ProbeRules(probe, there, "probe"), p, "write_file")
<1>1. "write_file" \in WriteRights
  BY DEF WriteRights
<1>2. PICK name \in {"home", "cargo-home", "target", "tmp"} : p = <<"quota", name>>
  BY DEF PrivateWritable, Private
<1>3. p # NullDevice
  BY <1>2 DEF NullDevice
<1>4. p \in Seq(PathNames)
  BY <1>2, PathNamesAre
<1>5. IsPrefix(p, p)
  BY <1>4, PrefixOfItself
<1>. QED
  BY <1>1, <1>3, <1>5, WritesAreConfined

LEMMA NotWritable ==
    ASSUME NEW S, RootNames \subseteq S, NEW probe, NEW there, NEW path \in Seq(S), path[1] = "work"
    PROVE  ~Granted(ProbeRules(probe, there, "probe"), path, "write_file")
<1>1. "write_file" \in WriteRights
  BY DEF WriteRights
<1>2. "dev" \in S /\ "null" \in S /\ "quota" \in S /\ {"home", "cargo-home", "target", "tmp"} \subseteq S
  BY DEF RootNames
<1>3. ~IsPrefix(NullDevice, path)
  BY <1>2, PrefixOfTwo DEF NullDevice
<1>4. ASSUME NEW root \in PrivateWritable PROVE ~IsPrefix(root, path)
  <2>1. PICK name \in {"home", "cargo-home", "target", "tmp"} : root = <<"quota", name>>
    BY DEF PrivateWritable, Private
  <2>. QED
    BY <1>2, <2>1, PrefixOfTwo
<1>. QED
  BY <1>1, <1>3, <1>4, WritesAreConfined

LEMMA RunsBeneath ==
    ASSUME NEW probe, NEW there, NEW root \in {Front(Executable(probe)), RustRuntime}, root \in there,
           NEW path, IsPrefix(root, path)
    PROVE  Granted(ProbeRules(probe, there, "probe"), path, "execute")
<1>. DEFINE readExec == {SourceRoot, Front(Executable(probe)), RustRuntime} \cup SystemReadExec
            writable == PrivateWritable \cup {NullDevice}
            files == SystemRead \cup {NullDevice}
<1>1. Granted(ProbeRules(probe, there, "probe"), path, "execute")
      <=> \/ Beneath(readExec, ReadExecRights, there, files, path, "execute")
          \/ Beneath(SystemRead, ReadRights, there, files, path, "execute")
          \/ Beneath(writable, ReadExecRights \cup WriteRights, there, files, path, "execute")
          \/ IsPrefix(<<"proc", "probe">>, path) /\ "execute" \in ReadRights
  <2>. HIDE DEF readExec, writable, files
  <2>1. Granted(Rules(readExec, SystemRead, writable, there, files, "probe"), path, "execute")
        <=> \/ Beneath(readExec, ReadExecRights, there, files, path, "execute")
            \/ Beneath(SystemRead, ReadRights, there, files, path, "execute")
            \/ Beneath(writable, ReadExecRights \cup WriteRights, there, files, path, "execute")
            \/ IsPrefix(<<"proc", "probe">>, path) /\ "execute" \in ReadRights
    BY GrantedBy
  <2>. QED
    BY <2>1 DEF ProbeRules, readExec, writable, files
<1>2. "execute" \in RightsFor(root \in files, ReadExecRights)
  BY DEF RightsFor, ReadExecRights, FileRights
<1>3. root \in readExec \cap there
  OBVIOUS
<1>. HIDE DEF readExec, files, writable
<1>4. Beneath(readExec, ReadExecRights, there, files, path, "execute")
  BY <1>2, <1>3 DEF Beneath
<1>. QED
  BY <1>1, <1>4

LEMMA RunsItsTools ==
    ASSUME NEW probe \in Probes, NEW there, {SourceRoot, RustRuntime, PythonRuntime, RustBin} \subseteq there,
           NEW tool, \/ tool = Executable(probe)
                     \/ tool = ProbeEnvironment(probe).LD_LIBRARY_PATH
                     \/ probe = "rust_all" /\ tool = ProbeEnvironment(probe).RUSTC
                     \/ probe = "rust_all" /\ tool = ProbeEnvironment(probe).RUSTDOC
    PROVE  /\ Granted(ProbeRules(probe, there, "probe"), tool, "execute")
           /\ ~Granted(ProbeRules(probe, there, "probe"), tool, "write_file")
<1>. DEFINE S == RootNames \cup {"exe", "rustc", "rustdoc"}
<1>0. /\ RootNames \subseteq S /\ "work" \in S /\ "rust-runtime" \in S /\ "python-runtime" \in S
      /\ "bin" \in S /\ "lib" \in S /\ "exe" \in S /\ "rustc" \in S /\ "rustdoc" \in S
  BY DEF RootNames
<1>. HIDE DEF S
<1>1. CASE tool = Executable(probe) /\ probe # "rust_all"
  <2>1. tool = <<"work", "python-runtime", "exe">> /\ Front(Executable(probe)) = <<"work", "python-runtime">>
    BY <1>1, Places DEF PythonRuntime
  <2>2. tool \in Seq(S) /\ Len(tool) >= 2 /\ tool[1] = "work" /\ tool[2] = "python-runtime"
    BY <1>0, <2>1
  <2>3. IsPrefix(Front(Executable(probe)), tool)
    <3>1. IsPrefix(<<"work", "python-runtime">>, tool)
      BY <1>0, <2>2, PrefixOfTwo
    <3>. QED
      BY <2>1, <3>1
  <2>4. Front(Executable(probe)) \in there
    BY <2>1 DEF PythonRuntime
  <2>. QED
    BY <1>0, <2>2, <2>3, <2>4, NotWritable, RunsBeneath
<1>2. ASSUME tool \in Seq(S), Len(tool) >= 2, tool[1] = "work", tool[2] = "rust-runtime"
      PROVE  /\ Granted(ProbeRules(probe, there, "probe"), tool, "execute")
             /\ ~Granted(ProbeRules(probe, there, "probe"), tool, "write_file")
  <2>1. IsPrefix(RustRuntime, tool)
    BY <1>0, <1>2, PrefixOfTwo DEF RustRuntime
  <2>. QED
    BY <1>0, <1>2, <2>1, NotWritable, RunsBeneath
<1>3. CASE tool = Executable(probe) /\ probe = "rust_all"
  <2>1. tool = <<"work", "rust-runtime", "bin", "exe">>
    BY <1>3, Places
  <2>2. tool \in Seq(S) /\ Len(tool) >= 2 /\ tool[1] = "work" /\ tool[2] = "rust-runtime"
    BY <1>0, <2>1
  <2>. QED
    BY <1>2, <2>2
<1>4. CASE tool = ProbeEnvironment(probe).LD_LIBRARY_PATH
  <2>1. tool = RustRuntime \o <<"lib">>
    BY <1>4, EnvironmentIs
  <2>. DEFINE w == "work"
              r == "rust-runtime"
              l == "lib"
  <2>2. w \in S /\ r \in S /\ l \in S /\ RustRuntime = <<w, r>>
    BY <1>0 DEF RustRuntime
  <2>. HIDE DEF w, r, l
  <2>3. <<w, r>> \o <<l>> = <<w, r, l>> /\ Front(<<w, r, l>>) = <<w, r>>
    BY <2>2, Appended2
  <2>4. tool = <<w, r, l>>
    BY <2>1, <2>2, <2>3 DEF l
  <2>5. tool \in Seq(S) /\ Len(tool) >= 2 /\ tool[1] = w /\ tool[2] = r
    BY <2>2, <2>4
  <2>. QED
    BY <1>2, <2>5 DEF w, r
<1>5. CASE probe = "rust_all" /\ tool = ProbeEnvironment(probe).RUSTC
  <2>1. tool = <<"work", "rust-runtime", "bin", "rustc">>
    BY <1>5, Places, EnvironmentIs
  <2>2. tool \in Seq(S) /\ Len(tool) >= 2 /\ tool[1] = "work" /\ tool[2] = "rust-runtime"
    BY <1>0, <2>1
  <2>. QED
    BY <1>2, <2>2
<1>6. CASE probe = "rust_all" /\ tool = ProbeEnvironment(probe).RUSTDOC
  <2>1. tool = <<"work", "rust-runtime", "bin", "rustdoc">>
    BY <1>6, Places, EnvironmentIs
  <2>2. tool \in Seq(S) /\ Len(tool) >= 2 /\ tool[1] = "work" /\ tool[2] = "rust-runtime"
    BY <1>0, <2>1
  <2>. QED
    BY <1>2, <2>2
<1>. QED
  BY <1>1, <1>3, <1>4, <1>5, <1>6

LEMMA NothingIsUnusable == Unusable = {}
<1>. DEFINE everything(probe) == {SourceRoot, RustRuntime, PythonRuntime, RustBin} \cup Paths
            may(probe, path, right) == Granted(ProbeRules(probe, everything(probe), "probe"), path, right)
            work == {"HOME", "CARGO_HOME", "CARGO_TARGET_DIR", "TMPDIR"}
            tools(probe) ==
                {Executable(probe), ProbeEnvironment(probe).LD_LIBRARY_PATH}
                \cup (IF probe = "rust_all"
                         THEN {ProbeEnvironment(probe).RUSTC, ProbeEnvironment(probe).RUSTDOC} ELSE {})
            A == {q \in Probes \X work : ~may(q[1], ProbeEnvironment(q[1])[q[2]], "write_file")}
            B == {q \in UNION {{p} \X tools(p) : p \in Probes} :
                    ~may(q[1], q[2], "execute") \/ may(q[1], q[2], "write_file")}
<1>1. Unusable = A \cup B
  BY DEF Unusable
<1>2. A = {}
  <2>1. SUFFICES ASSUME NEW probe \in Probes, NEW name \in work
                 PROVE  may(probe, ProbeEnvironment(probe)[name], "write_file")
    OBVIOUS
  <2>2. ProbeEnvironment(probe)[name] \in PrivateWritable
    BY EnvironmentIs DEF PrivateWritable
  <2>3. PrivateWritable \subseteq everything(probe)
    BY DEF Paths
  <2>. HIDE DEF everything
  <2>. QED
    BY <2>2, <2>3, WorksWhereItWrites
<1>3. B = {}
  <2>1. ASSUME NEW probe \in Probes, NEW tool \in tools(probe)
        PROVE  may(probe, tool, "execute") /\ ~may(probe, tool, "write_file")
    <3>1. {SourceRoot, RustRuntime, PythonRuntime, RustBin} \subseteq everything(probe)
      OBVIOUS
    <3>2. \/ tool = Executable(probe)
          \/ tool = ProbeEnvironment(probe).LD_LIBRARY_PATH
          \/ probe = "rust_all" /\ tool = ProbeEnvironment(probe).RUSTC
          \/ probe = "rust_all" /\ tool = ProbeEnvironment(probe).RUSTDOC
      OBVIOUS
    <3>. HIDE DEF everything
    <3>. QED
      BY <3>1, <3>2, RunsItsTools
  <2>2. ASSUME NEW q \in UNION {{p} \X tools(p) : p \in Probes}
        PROVE  q[1] \in Probes /\ q[2] \in tools(q[1])
    <3>. HIDE DEF tools
    <3>. QED
      OBVIOUS
  <2>. HIDE DEF may, tools
  <2>. QED
    BY <2>1, <2>2
<1>. QED
  BY <1>1, <1>2, <1>3

-----------------------------------------------------------------------------
(***************************************************************************)
(* How a child puts the policy on.                                         *)
(***************************************************************************)

\* The ids of a status.
LEMMA RangeOfFour ==
    ASSUME NEW f, DOMAIN f = 1..4
    PROVE  Range(f) = {f[1], f[2], f[3], f[4]}
<1>1. DOMAIN f = {1, 2, 3, 4}
  OBVIOUS
<1>. QED
  BY <1>1 DEF Range

\* What _tmpfs_root accepts is bounded, private and of memory.
LEMMA NothingIsUnbounded == Unbounded = {}
<1>. DEFINE mount == [type : {"tmpfs", "ext4"}, capacity : 0..MaxCapacity + 1, private : BOOLEAN, empty : BOOLEAN]
            all == (UNION {[1..n -> mount] : n \in 1..2}) \X BOOLEAN
            bad(q) == LET top == q[1][Len(q[1])]
                      IN  /\ TmpfsRoot(q[1], q[2])
                          /\ \/ top.capacity > MaxCapacity \/ ~top.private
                             \/ Len(q[1]) = 1 /\ top.type # "tmpfs"
                             \/ q[2] /\ ~top.empty
<1>1. Unbounded = {q \in all : bad(q)}
  BY DEF Unbounded
<1>2. ASSUME NEW q, bad(q) PROVE FALSE
  <2>. DEFINE top == q[1][Len(q[1])]
  <2>1. TmpfsRoot(q[1], q[2])
    BY <1>2
  <2>2. top.private /\ top.capacity \in 1..MaxCapacity /\ q[1][1].type = "tmpfs" /\ (q[2] => top.empty)
    BY <2>1 DEF TmpfsRoot
  <2>. QED
    BY <1>2, <2>2 DEF MaxCapacity
<1>. HIDE DEF all, bad
<1>. QED
  BY <1>1, <1>2

\* The four steps of a child, each under the ones before it
\* (probe_isolation_preexec).
LEMMA JoinsItsCgroup ==
    ASSUME NEW ceiling, NEW hard
    PROVE  Restricted({}, "cgroup", ceiling, hard) = {"cgroup"}
  BY DEF Restricted

LEMMA LowersItsLimits ==
    ASSUME NEW ceiling, NEW hard
    PROVE  Restricted({"cgroup"}, "limits", ceiling, hard)
             = IF LimitTarget(ceiling, hard) > 0 THEN {"cgroup", "limits"} ELSE {"failed"}
  BY DEF Restricted

LEMMA PutsOnItsRuleset ==
    ASSUME NEW ceiling, NEW hard
    PROVE  Restricted({"cgroup", "limits"}, "landlock", ceiling, hard) = {"cgroup", "limits", "landlock"}
  BY DEF Restricted

LEMMA PutsOnItsFilters ==
    ASSUME NEW ceiling, NEW hard
    PROVE  Restricted({"cgroup", "limits", "landlock"}, "seccomp", ceiling, hard)
             = {"cgroup", "limits", "landlock", "seccomp"}
  BY DEF Restricted

LEMMA StaysFailed ==
    ASSUME NEW ceiling, NEW hard, NEW step
    PROVE  Restricted({"failed"}, step, ceiling, hard) = {"failed"}
  BY DEF Restricted

LEMMA Launches ==
    ASSUME NEW status, NEW ceiling, NEW hard
    PROVE  Preexec(status, ceiling, hard)
             = IF Unprivileged(status) /\ LimitTarget(ceiling, hard) > 0
                 THEN {"cgroup", "limits", "landlock", "seccomp"} ELSE {"failed"}
<1>1. /\ PreexecOrder[1] = "cgroup" /\ PreexecOrder[2] = "limits"
      /\ PreexecOrder[3] = "landlock" /\ PreexecOrder[4] = "seccomp"
  BY DEF PreexecOrder
<1>2. CASE ~Unprivileged(status)
  BY <1>2 DEF Preexec
<1>. DEFINE after(child, i) == Restricted(child, PreexecOrder[i], ceiling, hard)
<1>3. Unprivileged(status) => Preexec(status, ceiling, hard) = after(after(after(after({}, 1), 2), 3), 4)
  BY DEF Preexec
<1>4. after({}, 1) = {"cgroup"}
  BY <1>1, JoinsItsCgroup
<1>5. CASE LimitTarget(ceiling, hard) > 0
  <2>1. after({"cgroup"}, 2) = {"cgroup", "limits"}
    BY <1>1, <1>5, LowersItsLimits
  <2>2. after({"cgroup", "limits"}, 3) = {"cgroup", "limits", "landlock"}
    BY <1>1, PutsOnItsRuleset
  <2>3. after({"cgroup", "limits", "landlock"}, 4) = {"cgroup", "limits", "landlock", "seccomp"}
    BY <1>1, PutsOnItsFilters
  <2>4. after(after(after(after({}, 1), 2), 3), 4) = {"cgroup", "limits", "landlock", "seccomp"}
    <3>. HIDE DEF after
    <3>. QED
      BY <1>4, <2>1, <2>2, <2>3
  <2>. HIDE DEF after
  <2>. QED
    BY <1>2, <1>3, <1>5, <2>4
<1>6. CASE ~(LimitTarget(ceiling, hard) > 0)
  <2>1. after({"cgroup"}, 2) = {"failed"}
    BY <1>1, <1>6, LowersItsLimits
  <2>2. after({"failed"}, 3) = {"failed"} /\ after({"failed"}, 4) = {"failed"}
    BY StaysFailed
  <2>3. after(after(after(after({}, 1), 2), 3), 4) = {"failed"}
    <3>. HIDE DEF after
    <3>. QED
      BY <1>4, <2>1, <2>2
  <2>. HIDE DEF after
  <2>. QED
    BY <1>2, <1>3, <1>6, <2>3
<1>. QED
  BY <1>5, <1>6

\* No launch leaves out a restriction or fails for no reason.
LEMMA NothingIsUnrestrained == Unrestrained = {}
<1>. DEFINE nobody(s) == Range(s.uids) = {1} /\ Range(s.gids) = {1} /\ Range(s.capabilities) = {0}
            bad(q) == LET child == Preexec(q[1], q[2], q[3])
                          limit == LimitTarget(q[2], q[3])
                      IN  IF nobody(q[1]) /\ q[3] # 0
                            THEN child # Range(PreexecOrder) \/ limit \notin 1..q[2] \/ q[3] \in 1..(limit - 1)
                            ELSE child # {"failed"}
            all == Statuses \X {1, 2} \X {RLIM_INFINITY, 0, 1, 3}
<1>1. Unrestrained = {q \in all : bad(q)}
  BY DEF Unrestrained
<1>2. Range(PreexecOrder) = {"cgroup", "limits", "landlock", "seccomp"}
  <2>. DEFINE f == PreexecOrder
  <2>1. DOMAIN f = 1..4 /\ f[1] = "cgroup" /\ f[2] = "limits" /\ f[3] = "landlock" /\ f[4] = "seccomp"
    BY DEF PreexecOrder
  <2>. HIDE DEF f
  <2>2. Range(f) = {"cgroup", "limits", "landlock", "seccomp"}
    BY <2>1, RangeOfFour
  <2>. QED
    BY <2>2 DEF f
<1>3. ASSUME NEW s \in Statuses PROVE Unprivileged(s) <=> nobody(s)
  <2>1. s.uids \in [1..4 -> {0, 1}]
    BY DEF Statuses
  <2>2. Range(s.uids) = {s.uids[1], s.uids[2], s.uids[3], s.uids[4]} /\ s.uids[1] \in {0, 1}
        /\ s.uids[2] \in {0, 1} /\ s.uids[3] \in {0, 1} /\ s.uids[4] \in {0, 1}
    BY <2>1, RangeOfFour
  <2>3. DOMAIN s.gids = 1..4 /\ s.gids[1] \in {0, 1} /\ s.gids[2] \in {0, 1}
        /\ s.gids[3] \in {0, 1} /\ s.gids[4] \in {0, 1}
    <3>1. s.gids = <<0, 0, 0, 0>> \/ s.gids = <<1, 1, 1, 1>> \/ s.gids = <<1, 0, 1, 1>>
      BY DEF Statuses
    <3>. QED
      BY <3>1
  <2>4. Range(s.gids) = {s.gids[1], s.gids[2], s.gids[3], s.gids[4]}
    BY <2>3, RangeOfFour
  <2>5. ASSUME NEW a \in {0, 1}, NEW b \in {0, 1}, NEW c \in {0, 1}, NEW d \in {0, 1}
        PROVE  Cardinality({a, b, c, d}) = 1 /\ a # 0 <=> {a, b, c, d} = {1}
    <3>1. CASE a = 1 /\ b = 1 /\ c = 1 /\ d = 1
      <4>1. {a, b, c, d} = {1}
        BY <3>1
      <4>2. Cardinality({1}) = 1
        BY FS_Singleton
      <4>. QED
        BY <3>1, <4>1, <4>2
    <3>2. CASE a = 0
      <4>. DEFINE T == {a, b, c, d}
      <4>1. 0 \in T /\ 0 \notin {1}
        BY <3>2
      <4>. HIDE DEF T
      <4>2. T # {1}
        BY <4>1
      <4>. QED
        BY <3>2, <4>2 DEF T
    <3>3. CASE a = 1 /\ ~(b = 1 /\ c = 1 /\ d = 1)
      <4>1. {a, b, c, d} = {0, 1}
        BY <3>3
      <4>2. ASSUME NEW e PROVE {0, 1} # {e}
        <5>1. 0 \in {0, 1} /\ 1 \in {0, 1} /\ 0 # 1
          OBVIOUS
        <5>2. {0, 1} = {e} => 0 = e /\ 1 = e
          BY <5>1
        <5>. QED
          BY <5>1, <5>2
      <4>3. Cardinality({0, 1}) # 1
        <5>1. IsFiniteSet({0, 1})
          <6>1. 0..1 = {0, 1}
            OBVIOUS
          <6>2. IsFiniteSet(0..1)
            BY FS_Interval, 0 \in Int, 1 \in Int
          <6>. QED
            BY <6>1, <6>2
        <5>. QED
          BY <4>2, <5>1, FS_Singleton
      <4>. QED
        BY <3>3, <4>1, <4>3
    <3>. QED
      BY <3>1, <3>2, <3>3
  <2>6. Cardinality(Range(s.uids)) = 1 /\ s.uids[1] # 0 <=> Range(s.uids) = {1}
    BY <2>2, <2>5
  <2>7. Cardinality(Range(s.gids)) = 1 /\ s.gids[1] # 0 <=> Range(s.gids) = {1}
    BY <2>3, <2>4, <2>5
  <2>. QED
    BY <2>6, <2>7 DEF Unprivileged
<1>4. ASSUME NEW q \in all PROVE ~bad(q)
  <2>1. q[1] \in Statuses /\ q[2] \in {1, 2} /\ q[3] \in {-1, 0, 1, 3}
    BY DEF RLIM_INFINITY
  <2>2. Unprivileged(q[1]) <=> nobody(q[1])
    BY <1>3, <2>1
  <2>. DEFINE child == Preexec(q[1], q[2], q[3])
              limit == LimitTarget(q[2], q[3])
  <2>3. child = IF Unprivileged(q[1]) /\ limit > 0
                  THEN {"cgroup", "limits", "landlock", "seccomp"} ELSE {"failed"}
    BY Launches
  <2>4. limit = IF q[3] = -1 \/ q[2] < q[3] THEN q[2] ELSE q[3]
    BY DEF LimitTarget, RLIM_INFINITY
  <2>5. (limit > 0 <=> q[3] # 0) /\ (q[3] # 0 => limit \in 1..q[2] /\ q[3] \notin 1..(limit - 1))
    BY <2>1, <2>4
  <2>. HIDE DEF child, limit, nobody
  <2>6. CASE nobody(q[1]) /\ q[3] # 0
    <3>1. child = Range(PreexecOrder)
      BY <1>2, <2>2, <2>3, <2>5, <2>6
    <3>. QED
      BY <2>5, <2>6, <3>1 DEF child, limit
  <2>7. CASE ~(nobody(q[1]) /\ q[3] # 0)
    <3>1. child = {"failed"}
      BY <2>2, <2>3, <2>5, <2>7
    <3>. QED
      BY <2>7, <3>1 DEF child
  <2>. QED
    BY <2>6, <2>7
<1>. HIDE DEF all, bad
<1>. QED
  BY <1>1, <1>4

\* The filters of either machine refuse a probe its own tkill, by which its tasks
\* would stop or continue each other behind the harness's back.
THEOREM TkillIsRefused == \A machine \in Machines : ~MayTkill(machine)
<1>1. SUFFICES ASSUME NEW machine \in Machines PROVE ~MayTkill(machine)
  OBVIOUS
<1>. DEFINE call == [arch |-> machine, nr |-> Tkill[machine], arg0 |-> 2]
<1>2. Tkill[machine] \in {200, 130} /\ Tkill[machine] \in SignalNumbers[machine]
  BY DEF Tkill, SignalNumbers, Machines
<1>3. call.nr \in Word /\ Named(machine, call.nr)
  BY <1>2, SmallNumbers DEF Named
<1>. HIDE DEF call
<1>4. ~Admitted(machine, call)
  BY <1>3, FiltersAreThePolicy DEF Permitted
<1>. QED
  BY <1>4 DEF MayTkill, call

-----------------------------------------------------------------------------

(***************************************************************************)
(* What every step of the tasks does to the kernel's side: whoever is      *)
(* bound does not come back or change its number, nobody is stopped who    *)
(* was not being stopped, a stopped thread stays stopped or its process    *)
(* ends, and when nobody of the probe can run, nobody can afterwards.      *)
(***************************************************************************)
Fading ==
    /\ KernelTypes' /\ Unshared'
    /\ \A t \in Bound : life'[t] # "none" => life[t] # "none" /\ pid'[t] = pid[t]
    /\ \A t \in Bound : life'[t] = "alive" => life[t] = "alive"
    /\ stopping' \subseteq stopping /\ doomed' \subseteq doomed
    /\ \A t \in Task : running'[t] # threads'[t] => IsHeld(t)
    /\ \A t \in Bound, i \in Thread :
          i \in threads[t] \ running[t] =>
             i \in threads'[t] \ running'[t] \/ life'[t] # "alive"
    /\ Able = {} => Able' = {}

LEMMA Appearing ==
    ASSUME KernelTypes, Unshared, NEW t \in Unborn, NEW number \in FreePids,
           Appear(t, number), t \in Member => Able # {}, Bound \subseteq Task
    PROVE  Fading
<1>1. /\ t \in Task /\ life[t] = "none" /\ t \notin Bound
      /\ number \in Pid /\ \A u \in Task : life[u] # "none" => pid[u] # number
  BY DEF Unborn, FreePids, Holders
<1>2. /\ life' = [life EXCEPT ![t] = "alive"] /\ pid' = [pid EXCEPT ![t] = number]
      /\ threads' = [threads EXCEPT ![t] = {1}] /\ running' = [running EXCEPT ![t] = {1}]
      /\ stopping' = stopping /\ doomed' = doomed
  BY DEF Appear
<1>3. \A u \in Task : /\ life'[u] = IF u = t THEN "alive" ELSE life[u]
                      /\ pid'[u] = IF u = t THEN number ELSE pid[u]
                      /\ threads'[u] = IF u = t THEN {1} ELSE threads[u]
                      /\ running'[u] = IF u = t THEN {1} ELSE running[u]
  BY <1>1, <1>2 DEF KernelTypes
<1>4. KernelTypes'
  <2>1. /\ life' \in [Task -> {"none", "alive", "zombie"}] /\ pid' \in [Task -> Pid]
        /\ threads' \in [Task -> {{}, {1}, Thread}] /\ running' \in [Task -> SUBSET Thread]
    BY <1>1, <1>2 DEF KernelTypes, Thread
  <2>2. \A u \in Task : running'[u] \subseteq threads'[u] /\ (threads'[u] # {} <=> u \in Alive')
    BY <1>3 DEF KernelTypes, Alive
  <2>3. stopping' \subseteq Alive' /\ doomed' \subseteq Alive'
    BY <1>1, <1>2, <1>3 DEF KernelTypes, Alive
  <2>. QED
    BY <2>1, <2>2, <2>3 DEF KernelTypes
<1>5. Unshared'
  BY <1>1, <1>3 DEF Unshared
<1>6. t \notin Member => Able' = Able
  BY <1>1, <1>2, <1>3 DEF Able, Members, Alive
<1>7. \A u \in Task : running'[u] # threads'[u] => IsHeld(u)
  BY <1>3 DEF IsHeld
<1>8. \A u \in Bound : u # t
  BY <1>1
<1>9. \A u \in Bound : /\ u \in Task /\ life'[u] = life[u] /\ pid'[u] = pid[u]
                      /\ threads'[u] = threads[u] /\ running'[u] = running[u]
  BY <1>3, <1>8
<1>. QED
  BY <1>1, <1>2, <1>4, <1>5, <1>6, <1>7, <1>9 DEF Fading

\* The number and the identity of every task stay when it starts or ends a thread.
LEMMA Threading ==
    ASSUME KernelTypes, Unshared, Bound \subseteq Task, NEW m \in Able,
           UNCHANGED <<life, pid, stopping, doomed>>,
           \/ /\ threads' = [threads EXCEPT ![m] = Thread]
              /\ running' = [running EXCEPT ![m] = running[m] \cup (Thread \ threads[m])]
           \/ /\ 2 \in running[m]
              /\ threads' = [threads EXCEPT ![m] = {1}]
              /\ running' = [running EXCEPT ![m] = running[m] \ {2}]
    PROVE  Fading
<1>1. /\ m \in Task /\ life[m] = "alive" /\ threads[m] # {} /\ running[m] \subseteq threads[m]
      /\ threads[m] \in {{1}, Thread}
  BY DEF Able, Members, Alive, KernelTypes
<1>2. PICK some \in {{1}, Thread}, able \in SUBSET Thread :
         /\ threads' = [threads EXCEPT ![m] = some]
         /\ running' = [running EXCEPT ![m] = able]
         /\ able \subseteq some
         /\ able # some => running[m] # threads[m]
         /\ \A i \in Thread : i \in threads[m] \ running[m] => i \in some \ able
  <2>1. CASE /\ threads' = [threads EXCEPT ![m] = Thread]
             /\ running' = [running EXCEPT ![m] = running[m] \cup (Thread \ threads[m])]
    <3>. DEFINE able == running[m] \cup (Thread \ threads[m])
    <3>1. running[m] \subseteq threads[m] /\ threads[m] \subseteq Thread
      BY <1>1 DEF Thread
    <3>2. /\ able \in SUBSET Thread
          /\ able # Thread => running[m] # threads[m]
          /\ \A i \in Thread : i \in threads[m] \ running[m] => i \in Thread \ able
      BY <3>1
    <3>3. running' = [running EXCEPT ![m] = able]
      BY <2>1
    <3>. HIDE DEF able
    <3>. QED
      BY <2>1, <3>2, <3>3
  <2>2. CASE /\ 2 \in running[m]
             /\ threads' = [threads EXCEPT ![m] = {1}]
             /\ running' = [running EXCEPT ![m] = running[m] \ {2}]
    <3>. DEFINE able == running[m] \ {2}
    <3>1. threads[m] = {1, 2} /\ running[m] \subseteq {1, 2} /\ 2 \in running[m]
      BY <1>1, <2>2 DEF Thread
    <3>2. /\ able \in SUBSET Thread /\ able \subseteq {1}
          /\ able # {1} => running[m] # threads[m]
      BY <3>1 DEF Thread
    <3>3. \A i \in Thread : i \in threads[m] \ running[m] => i \in {1} \ able
      BY <3>1 DEF Thread
    <3>4. running' = [running EXCEPT ![m] = able]
      BY <2>2
    <3>. HIDE DEF able
    <3>. QED
      BY <2>2, <3>2, <3>3, <3>4
  <2>. QED
    BY <2>1, <2>2
<1>3. \A u \in Task : /\ threads'[u] = IF u = m THEN some ELSE threads[u]
                      /\ running'[u] = IF u = m THEN able ELSE running[u]
  BY <1>1, <1>2 DEF KernelTypes
<1>4. KernelTypes'
  <2>1. threads' \in [Task -> {{}, {1}, Thread}] /\ running' \in [Task -> SUBSET Thread]
    BY <1>1, <1>2 DEF KernelTypes
  <2>2. \A u \in Task : running'[u] \subseteq threads'[u] /\ (threads'[u] # {} <=> u \in Alive')
    BY <1>1, <1>2, <1>3 DEF KernelTypes, Alive, Thread
  <2>. QED
    BY <2>1, <2>2 DEF KernelTypes, Alive
<1>5. Unshared'
  BY DEF Unshared
<1>6. \A u \in Task : running'[u] # threads'[u] => IsHeld(u)
  BY <1>2, <1>3 DEF IsHeld
<1>7. \A u \in Task, i \in Thread :
        i \in threads[u] \ running[u] => i \in threads'[u] \ running'[u]
  BY <1>2, <1>3
<1>. QED
  BY <1>4, <1>5, <1>6, <1>7 DEF Fading

\* A process ends, or the zombie of one is reaped.
LEMMA Vanishing ==
    ASSUME KernelTypes, Unshared, Bound \subseteq Task, NEW t \in Task,
           NEW how \in {"none", "zombie"}, Vanish(t, how), life[t] # "none"
    PROVE  Fading
<1>. USE DEF Vanish
<1>1. \A u \in Task : /\ life'[u] = IF u = t THEN how ELSE life[u]
                      /\ threads'[u] = IF u = t THEN {} ELSE threads[u]
                      /\ running'[u] = IF u = t THEN {} ELSE running[u]
  BY DEF KernelTypes
<1>2. KernelTypes'
  <2>1. /\ life' \in [Task -> {"none", "alive", "zombie"}]
        /\ threads' \in [Task -> {{}, {1}, Thread}] /\ running' \in [Task -> SUBSET Thread]
    BY DEF KernelTypes
  <2>2. \A u \in Task : running'[u] \subseteq threads'[u] /\ (threads'[u] # {} <=> u \in Alive')
    BY <1>1 DEF KernelTypes, Alive
  <2>3. stopping' \subseteq Alive' /\ doomed' \subseteq Alive'
    BY <1>1 DEF KernelTypes, Alive
  <2>. QED
    BY <2>1, <2>2, <2>3 DEF KernelTypes
<1>3. Unshared'
  BY <1>1 DEF Unshared
<1>4. \A u \in Task : running'[u] # threads'[u] => IsHeld(u)
  BY <1>1 DEF IsHeld
<1>5. Able = {} => Able' = {}
  <2>1. Able' \subseteq Able
    <3>. SUFFICES ASSUME NEW u \in Able' PROVE u \in Able
      OBVIOUS
    <3>1. u \in Task /\ u \in Member /\ life'[u] = "alive" /\ running'[u] # {} /\ u \notin doomed'
      BY DEF Able, Members, Alive
    <3>2. u # t
      BY <1>1, <3>1
    <3>. QED
      BY <1>1, <3>1, <3>2 DEF Able, Members, Alive
  <2>. QED
    BY <2>1
<1>6. /\ \A u \in Bound : life'[u] # "none" => life[u] # "none" /\ pid'[u] = pid[u]
      /\ \A u \in Bound : life'[u] = "alive" => life[u] = "alive"
      /\ \A u \in Bound, i \in Thread :
            i \in threads[u] \ running[u] =>
               i \in threads'[u] \ running'[u] \/ life'[u] # "alive"
  BY <1>1
<1>. QED
  BY <1>2, <1>3, <1>4, <1>5, <1>6 DEF Fading

\* A thread of a process that was sent SIGSTOP stops.
LEMMA Stopping ==
    ASSUME KernelTypes, Unshared, Bound \subseteq Task, NEW t \in stopping, NEW i \in running[t],
           running' = [running EXCEPT ![t] = running[t] \ {i}],
           UNCHANGED <<life, pid, threads, stopping, doomed>>
    PROVE  Fading
<1>1. t \in Task
  BY DEF KernelTypes, Alive
<1>2. \A u \in Task : running'[u] = IF u = t THEN running[t] \ {i} ELSE running[u]
  BY <1>1 DEF KernelTypes
<1>3. KernelTypes'
  <2>1. running' \in [Task -> SUBSET Thread]
    BY <1>1 DEF KernelTypes
  <2>. QED
    BY <1>2, <2>1 DEF KernelTypes, Alive
<1>4. Unshared'
  BY DEF Unshared
<1>5. \A u \in Task : running'[u] # threads'[u] => IsHeld(u)
  BY <1>2 DEF IsHeld
<1>6. Able = {} => Able' = {}
  <2>1. Able' \subseteq Able
    BY <1>2 DEF Able, Members, Alive
  <2>. QED
    BY <2>1
<1>. QED
  BY <1>2, <1>3, <1>4, <1>5, <1>6 DEF Fading

\* A step that leaves the kernel's side alone.
LEMMA Unaffected ==
    ASSUME KernelTypes, Unshared, UNCHANGED kernel
    PROVE  Fading
<1>1. KernelTypes' /\ Unshared'
  BY DEF kernel, KernelTypes, Unshared, Alive
<1>2. Able' = Able
  BY DEF kernel, Able, Members, Alive
<1>. QED
  BY <1>1, <1>2 DEF Fading, kernel, IsHeld, KernelTypes

(***************************************************************************)
(* Every step of the tasks fades, and leaves the harness as it is; the     *)
(* directories are moved by those that can run.                            *)
(***************************************************************************)
LEMMA TasksFade ==
    ASSUME KernelTypes, Unshared, Bound \subseteq Task, TaskStep
    PROVE  /\ Fading
           /\ UNCHANGED <<pc, op, bound, local, tally, result>>
           /\ UNCHANGED where \/ \E m \in Member : MoveDir(m)
<1>1. /\ UNCHANGED <<pc, op, bound, local, tally, result>>
      /\ UNCHANGED where \/ \E m \in Member : MoveDir(m)
  BY DEF TaskStep, Fork, StartThread, EndThread, Exit, Reap, AskSignal, MoveDir, StopThread,
         ForeignAppears, ForeignExits, harness
<1>2. ASSUME NEW m \in Member, Fork(m) PROVE Fading
  BY <1>2, Appearing DEF Fork
<1>3. ASSUME NEW m \in Member, StartThread(m) \/ EndThread(m) PROVE Fading
  BY <1>3, Threading DEF StartThread, EndThread
<1>4. ASSUME NEW m \in Member, Exit(m) \/ Reap(m) PROVE Fading
  <2>1. m \in Task
    BY DEF Task
  <2>2. life[m] # "none"
    BY <1>4 DEF Exit, Reap, Able, Members, Alive
  <2>3. PICK how \in {"none", "zombie"} : Vanish(m, how)
    BY <1>4 DEF Exit, Reap
  <2>. QED
    BY <2>1, <2>2, <2>3, Vanishing
<1>5. ASSUME NEW m \in Member, AskSignal(m) \/ MoveDir(m) PROVE Fading
  <2>1. UNCHANGED kernel
    BY <1>5, ProbeAssumption, TkillIsRefused DEF AskSignal, MoveDir
  <2>. QED
    BY <2>1, Unaffected
<1>6. ASSUME NEW t \in Task, StopThread(t) PROVE Fading
  BY <1>6, Stopping DEF StopThread
<1>7. ASSUME NEW f \in Foreign, ForeignAppears(f) PROVE Fading
  <2>1. f \notin Member
    BY ProbeAssumption
  <2>. QED
    BY <1>7, <2>1, Appearing DEF ForeignAppears
<1>8. ASSUME NEW f \in Foreign, ForeignExits(f) PROVE Fading
  <2>1. f \in Task /\ life[f] # "none" /\ Vanish(f, "none")
    BY <1>8 DEF ForeignExits, Alive
  <2>. QED
    BY <2>1, Vanishing
<1>. QED
  BY <1>1, <1>2, <1>3, <1>4, <1>5, <1>6, <1>7, <1>8 DEF TaskStep

-----------------------------------------------------------------------------
(***************************************************************************)
(* A step of the tasks keeps the invariant.                                *)
(***************************************************************************)
LEMMA BoundTasks ==
    ASSUME TypeOK
    PROVE  Bound \subseteq Task
<1>1. \A h \in handles : h \in Pid \X Task
  BY DEF TypeOK, HarnessTypes
<1>2. \A h \in handles : h[2] \in Task
  BY <1>1
<1>. QED
  BY <1>2 DEF Bound

LEMMA FadingKeepsLost ==
    ASSUME Fading, UNCHANGED handles, NEW number
    PROVE  Lost(number) => Lost(number)'
<1>1. \A h \in handles : h[2] \in Alive' => h[2] \in Alive
  BY DEF Fading, Bound, Alive
<1>. QED
  BY <1>1 DEF Lost

LEMMA FadingKeepsSettled ==
    ASSUME TypeOK, Fading, UNCHANGED handles, NEW tid, Settled(tid)
    PROVE  Settled(tid)'
<1>1. CASE Lost(tid[1])
  BY <1>1, FadingKeepsLost DEF Settled
<1>2. ASSUME NEW h \in handles, h[1] = tid[1], tid[2] \in threads[h[2]] \ running[h[2]]
      PROVE  Settled(tid)'
  <2>1. h[2] \in Bound /\ h[2] \in Task
    BY DEF Bound, TypeOK, HarnessTypes
  <2>2. tid[2] \in Thread
    BY <1>2, <2>1 DEF TypeOK, KernelTypes, Thread
  <2>3. CASE tid[2] \in threads'[h[2]] \ running'[h[2]]
    BY <1>2, <2>3 DEF Settled
  <2>4. CASE life'[h[2]] # "alive"
    <3>1. \A g \in handles : g[1] = tid[1] => g = h
      BY <1>2 DEF TypeOK, HarnessTypes
    <3>2. Lost(tid[1])'
      BY <2>4, <3>1 DEF Lost, Alive
    <3>. QED
      BY <3>2 DEF Settled
  <2>. QED
    BY <1>2, <2>1, <2>2, <2>3, <2>4 DEF Fading
<1>. QED
  BY <1>1, <1>2 DEF Settled

LEMMA FadingConverges ==
    ASSUME TypeOK, Converging, Fading, UNCHANGED <<pc, bound, tids, todo, handles>>
    PROVE  Converging'
<1>1. \A tid : Settled(tid) => Settled(tid)'
  BY FadingKeepsSettled
<1>2. Able = {} => Able' = {}
  BY DEF Fading
<1>3. \A numbers : Still(numbers) => Still(numbers)'
  BY <1>2, FadingKeepsLost DEF Still
<1>. QED
  BY <1>1, <1>2, <1>3 DEF Converging

\* A directory that is moved leaves a tree.
LEMMA MovesKeepTree ==
    ASSUME IsTree, where \in [Dir -> Slot \cup Dir \cup {Nowhere}],
           NEW m \in Member, MoveDir(m)
    PROVE  IsTree' /\ where' \in [Dir -> Slot \cup Dir \cup {Nowhere}]
<1>0. PICK d \in Dir :
        \E place \in {s \in Slot : \A e \in Dir : where[e] # s}
                     \cup {e \in Dir \ {d} : where[e] \in Slot} \cup {Nowhere} :
           /\ place = Nowhere => \A e \in Dir : ~Within(e, d)
           /\ where' = [where EXCEPT ![d] = place]
  BY DEF MoveDir
<1>1. PICK place \in {s \in Slot : \A e \in Dir : where[e] # s}
                     \cup {e \in Dir \ {d} : where[e] \in Slot} \cup {Nowhere} :
        /\ place = Nowhere => \A e \in Dir : ~Within(e, d)
        /\ where' = [where EXCEPT ![d] = place]
  BY <1>0
<1>2. \A e \in Dir : where'[e] = IF e = d THEN place ELSE where[e]
  BY <1>1
<1>3. place \in Slot \cup Dir \cup {Nowhere}
  BY <1>1
<1>4. ASSUME NEW e \in Dir, where'[e] \in Dir
      PROVE  where'[e] # e /\ where'[where'[e]] \in Slot
  <2>1. CASE e = d
    BY <1>1, <1>2, <1>4, <2>1 DEF Slot, Dir, Nowhere
  <2>2. CASE e # d
    <3>1. where[e] \in Dir /\ where[e] # e /\ where[where[e]] \in Slot
      BY <1>2, <1>4, <2>2 DEF IsTree
    <3>2. where[e] = d
      BY <2>2, <3>1 DEF Dir
    <3>3. place \in Slot
      BY <1>1, <3>1, <3>2, <2>2 DEF Within, Dir, Slot, Nowhere
    <3>. QED
      BY <1>2, <2>2, <3>1, <3>2, <3>3
  <2>. QED
    BY <2>1, <2>2
<1>5. ASSUME NEW e \in Dir, NEW f \in Dir, where'[e] \in Slot, where'[e] = where'[f]
      PROVE  e = f
  <2>1. place \in Slot => \A g \in Dir : where[g] # place
    BY <1>1 DEF Slot, Dir, Nowhere
  <2>. QED
    BY <1>2, <1>5, <2>1 DEF IsTree
<1>. QED
  BY <1>1, <1>3, <1>4, <1>5 DEF IsTree

LEMMA CountingStays ==
    ASSUME Counting, UNCHANGED <<where, pc, bound, todo, tally, result>>
    PROVE  Counting'
BY DEF Counting, IsItem, Uncounted, Queued, There

LEMMA TaskStepKeeps == IInv /\ TaskStep => IInv'
<1>. SUFFICES ASSUME IInv, TaskStep PROVE IInv'
  OBVIOUS
<1>. USE DEF IInv
<1>1. Bound \subseteq Task
  BY BoundTasks
<1>2. /\ Fading
      /\ UNCHANGED <<pc, op, bound, local, tally, result>>
      /\ UNCHANGED where \/ \E m \in Member : MoveDir(m)
  BY <1>1, TasksFade DEF TypeOK, Numbered
<1>3. UNCHANGED <<pids, tids, todo, handles, late>>
  BY <1>2 DEF local
<1>4. IsTree' /\ where' \in [Dir -> Slot \cup Dir \cup {Nowhere}]
  <2>1. where \in [Dir -> Slot \cup Dir \cup {Nowhere}]
    BY DEF TypeOK, HarnessTypes
  <2>. QED
    BY <1>2, <2>1, MovesKeepTree DEF IsTree
<1>5. TypeOK'
  BY <1>2, <1>3, <1>4 DEF TypeOK, HarnessTypes, Fading
<1>6. \A h \in handles : h[2] \in Bound
  BY DEF Bound
<1>7. Numbered'
  BY <1>2, <1>3, <1>6 DEF Fading, Numbered, Present
<1>8. Looping' /\ RoundsLeft'
  BY <1>2, <1>3 DEF Looping, RoundsLeft, HandlePids
<1>9. NoForeign'
  BY <1>2, <1>3, <1>6 DEF Fading, NoForeign, Present
<1>10. ForeignUntouched'
  BY <1>2 DEF Fading, ForeignUntouched
<1>11. HeldAreBound'
  <2>1. \A t \in Task : IsHeld(t)' => IsHeld(t)
    BY <1>2 DEF Fading, IsHeld
  <2>. QED
    BY <1>2, <1>3, <2>1 DEF HeldAreBound, Bound
<1>12. Converging'
  BY <1>2, <1>3, FadingConverges
<1>13. Counting'
  <2>1. CASE UNCHANGED where
    BY <1>2, <1>3, <2>1, CountingStays
  <2>2. ASSUME NEW m \in Member, MoveDir(m) PROVE Counting'
    <3>1. Able # {}
      BY <2>2 DEF MoveDir
    <3>2. ~(bound /\ pc \in {"scanning", "scanned"})
      BY <3>1 DEF Converging
    <3>. QED
      BY <1>2, <3>2 DEF Counting
  <2>. QED
    BY <1>2, <2>1, <2>2
<1>. QED
  BY <1>4, <1>5, <1>7, <1>8, <1>9, <1>10, <1>11, <1>12, <1>13

-----------------------------------------------------------------------------
(***************************************************************************)
(* What the steps of the harness have in common: they leave every identity *)
(* its number and its threads, and but for two of them bind nobody new.    *)
(***************************************************************************)
NobodyHeld == \A t \in Task : ~IsHeld(t)

LEMMA HarnessKeeps ==
    ASSUME IInv, pc # "open", handles' \subseteq handles,
           UNCHANGED <<life, pid, threads, where>>,
           KernelTypes', HarnessTypes', ForeignUntouched', HeldAreBound',
           Looping', Converging', Counting', RoundsLeft'
    PROVE  IInv'
<1>1. Numbered' /\ NoForeign' /\ IsTree'
  BY DEF IInv, Numbered, Unshared, NoForeign, IsTree, Present
<1>. QED
  BY <1>1 DEF IInv, TypeOK

LEMMA KernelStays ==
    ASSUME IInv, UNCHANGED kernel
    PROVE  /\ UNCHANGED <<life, pid, threads, running, stopping, doomed>>
           /\ KernelTypes' /\ ForeignUntouched'
           /\ \A t : IsHeld(t)' <=> IsHeld(t)
           /\ Alive' = Alive /\ Able' = Able
BY DEF kernel, IInv, TypeOK, KernelTypes, ForeignUntouched, IsHeld, Alive, Able, Members

\* Outside a suspension a step that sends no signal leaves nobody stopped.
LEMMA StillNobody ==
    ASSUME IInv, pc \notin Suspending, UNCHANGED kernel
    PROVE  /\ UNCHANGED <<life, pid, threads>>
           /\ KernelTypes' /\ ForeignUntouched' /\ NobodyHeld'
BY KernelStays DEF IInv, HeldAreBound, NobodyHeld

\* Continuing what is bound leaves nobody stopped.
LEMMA ReleaseFreesAll ==
    ASSUME IInv, Release
    PROVE  /\ UNCHANGED <<life, pid, threads>>
           /\ KernelTypes' /\ ForeignUntouched' /\ NobodyHeld'
<1>. USE DEF Release, Continued
<1>1. \A t \in Task : running'[t] = IF t \in Bound THEN threads[t] ELSE running[t]
  OBVIOUS
<1>2. KernelTypes'
  <2>1. running' \in [Task -> SUBSET Thread]
    <3>1. \A t \in Task : threads[t] \in SUBSET Thread
      BY DEF IInv, TypeOK, KernelTypes, Thread
    <3>. QED
      BY <3>1 DEF IInv, TypeOK, KernelTypes
  <2>. QED
    BY <1>1, <2>1 DEF IInv, TypeOK, KernelTypes, Alive
<1>3. ForeignUntouched'
  BY DEF IInv, ForeignUntouched
<1>4. NobodyHeld'
  BY <1>1 DEF IInv, HeldAreBound, NobodyHeld, IsHeld
<1>. QED
  BY <1>2, <1>3, <1>4

\* An operation that returns forgets what it bound.
LEMMA Returning ==
    ASSUME IInv, pc # "open" \/ UNCHANGED kernel,
           NEW answer \in {"none", "ok", "failed"}, Return(answer),
           UNCHANGED <<life, pid, threads, tally>>,
           KernelTypes', ForeignUntouched', NobodyHeld'
    PROVE  IInv'
<1>. USE DEF Return, Goto, Forget
<1>1. TypeOK'
  BY DEF IInv, TypeOK, HarnessTypes
<1>2. Numbered' /\ NoForeign' /\ IsTree' /\ Looping' /\ RoundsLeft'
  BY DEF IInv, Numbered, Unshared, NoForeign, IsTree, Looping, RoundsLeft, Suspending
<1>3. Converging' /\ Counting'
  BY DEF Converging, Counting
<1>4. HeldAreBound'
  BY DEF HeldAreBound, NobodyHeld
<1>. QED
  BY <1>1, <1>2, <1>3, <1>4 DEF IInv

\* The membership is read again.
LEMMA ListingAgain ==
    ASSUME IInv, pc \notin {"open", "idle", "scanning", "scanned", "resume"},
           pc' = "list", op = "check",
           UNCHANGED <<op, bound, where, local, tally, result, life, pid, threads>>,
           KernelTypes', ForeignUntouched', NobodyHeld'
    PROVE  IInv'
<1>1. UNCHANGED <<pids, tids, todo, handles, late>>
  BY DEF local
<1>2. HarnessTypes'
  BY <1>1 DEF IInv, TypeOK, HarnessTypes
<1>3. HeldAreBound' /\ Looping' /\ Converging' /\ Counting' /\ RoundsLeft'
  BY DEF IInv, HeldAreBound, NobodyHeld, Looping, Converging, Counting, RoundsLeft, Suspending
<1>. QED
  BY <1>1, <1>2, <1>3, HarnessKeeps

-----------------------------------------------------------------------------
(***************************************************************************)
(* The steps of the harness, one lemma each.                               *)
(***************************************************************************)
LEMMA Bounds ==
    /\ \A n \in Nat : 0 \in 0..n /\ (n # 0 => 0 < n)
    /\ \A n \in Nat : \A i \in 0..n : i < n => i + 1 \in 0..n
OBVIOUS

LEMMA CallKeeps ==
    ASSUME IInv, NEW what \in {"check", "kill"}, Call(what)
    PROVE  IInv'
<1>. USE DEF Call
<1>1. KernelTypes' /\ ForeignUntouched' /\ NobodyHeld' /\ UNCHANGED <<life, pid, threads>>
  BY StillNobody DEF Suspending
<1>2. UNCHANGED <<pids, tids, todo, handles, late>>
  BY DEF local
<1>3. /\ tally' \in [units : 0..MaxUnits, restarts : 0..MaxRestarts, rounds : 0..KillRounds]
      /\ tally'.rounds < KillRounds
  <2>1. MaxUnits \in Nat /\ MaxRestarts \in Nat /\ KillRounds \in Nat /\ KillRounds # 0
    BY ProbeAssumption
  <2>. QED
    BY <2>1, Bounds
<1>4. HarnessTypes'
  <2>1. pc' \in {"list", "probe cgroup"}
    OBVIOUS
  <2>. QED
    BY <1>2, <1>3, <2>1 DEF IInv, TypeOK, HarnessTypes
<1>5. HeldAreBound' /\ Looping' /\ Converging' /\ Counting' /\ RoundsLeft'
  <2>1. pc' = IF what = "kill" THEN "list" ELSE "probe cgroup"
    OBVIOUS
  <2>2. RoundsLeft'
    BY <1>3, <2>1 DEF RoundsLeft, Suspending
  <2>. QED
    BY <1>1, <2>1, <2>2 DEF HeldAreBound, NobodyHeld, Looping, Converging, Counting
<1>. QED
  BY <1>1, <1>2, <1>4, <1>5, HarnessKeeps

\* Without members nobody of the probe can run.
LEMMA NoMembers ==
    ASSUME MemberPids = {}
    PROVE  Able = {}
BY DEF MemberPids, Able

LEMMA LookForTasksKeeps == IInv /\ LookForTasks => IInv'
<1>. SUFFICES ASSUME IInv, LookForTasks PROVE IInv'
  OBVIOUS
<1>. USE DEF LookForTasks, Goto
<1>1. KernelTypes' /\ ForeignUntouched' /\ NobodyHeld' /\ UNCHANGED <<life, pid, threads>>
  BY StillNobody DEF Suspending
<1>2. UNCHANGED <<pids, tids, todo, handles, late>>
  BY DEF local
<1>3. HarnessTypes'
  BY <1>2 DEF IInv, TypeOK, HarnessTypes, Suspending
<1>4. HeldAreBound' /\ Looping' /\ Counting' /\ RoundsLeft'
  BY <1>1 DEF IInv, HeldAreBound, NobodyHeld, Looping, Counting, RoundsLeft, Suspending
<1>5. bound' /\ pc' = "scan" => Able' = {}
  BY NoMembers, KernelStays
<1>6. Converging'
  BY <1>5 DEF Converging
<1>. QED
  BY <1>1, <1>2, <1>3, <1>4, <1>6, HarnessKeeps

LEMMA ListKeeps == IInv /\ List => IInv'
<1>. SUFFICES ASSUME IInv, List PROVE IInv'
  OBVIOUS
<1>. USE DEF List, Goto
<1>1. KernelTypes' /\ ForeignUntouched' /\ NobodyHeld' /\ UNCHANGED <<life, pid, threads>>
  BY StillNobody DEF Suspending
<1>2. MemberPids \subseteq Pid
  BY DEF MemberPids, Members, Alive, IInv, TypeOK, KernelTypes
<1>3. HarnessTypes'
  BY <1>2 DEF IInv, TypeOK, HarnessTypes, Suspending
<1>4. HeldAreBound' /\ Looping' /\ Counting' /\ RoundsLeft'
  BY <1>1 DEF IInv, HeldAreBound, NobodyHeld, Looping, HandlePids, Counting, RoundsLeft, Suspending
<1>5. bound' /\ pc' = "scan" => Able' = {}
  BY NoMembers, KernelStays
<1>6. Converging'
  BY <1>5 DEF Converging
<1>. QED
  BY <1>1, <1>3, <1>4, <1>6, HarnessKeeps

\* Whoever has the number now is bound, and nobody was by this number.
LEMMA OpenPidfdKeeps == IInv /\ OpenPidfd => IInv'
<1>. SUFFICES ASSUME IInv, OpenPidfd PROVE IInv'
  OBVIOUS
<1>. USE DEF OpenPidfd
<1>1. /\ KernelTypes' /\ ForeignUntouched' /\ NobodyHeld'
      /\ UNCHANGED <<life, pid, threads>>
  BY StillNobody DEF Suspending
<1>2. PICK n \in todo :
        /\ handles' = handles \cup {<<n, t>> : t \in Holders(n)}
        /\ todo' = todo \ {n}
  OBVIOUS
<1>3. \A h \in handles' :
         h \in handles \/ (h[1] = n /\ h[2] \in Holders(n) /\ h = <<n, h[2]>>)
  <2>. SUFFICES ASSUME NEW h \in handles', h \notin handles
                PROVE  h[1] = n /\ h[2] \in Holders(n) /\ h = <<n, h[2]>>
    OBVIOUS
  <2>1. PICK t \in Holders(n) : h = <<n, t>>
    BY <1>2
  <2>. QED
    BY <2>1
<1>4. \A h \in handles : h[1] # n
  BY DEF IInv, Looping, HandlePids
<1>5. \A t \in Holders(n) : t \in Task /\ life[t] # "none" /\ pid[t] = n
  BY DEF Holders
<1>6. HarnessTypes'
  <2>1. n \in Pid \/ Holders(n) = {}
    BY <1>5 DEF IInv, TypeOK, KernelTypes
  <2>2. \A h \in handles' : h \in Pid \X Task
    BY <1>3, <1>5, <2>1 DEF IInv, TypeOK, HarnessTypes
  <2>3. \A h, g \in handles' : h[1] = g[1] => h = g
    <3>. SUFFICES ASSUME NEW h \in handles', NEW g \in handles', h[1] = g[1]
                  PROVE  h = g
      OBVIOUS
    <3>1. CASE h \in handles /\ g \in handles
      BY <3>1 DEF IInv, TypeOK, HarnessTypes
    <3>2. CASE h \notin handles /\ g \notin handles
      <4>1. h[2] = g[2]
        BY <1>3, <1>5, <3>2 DEF IInv, Numbered, Unshared
      <4>. QED
        BY <1>3, <3>2, <4>1
    <3>. QED
      BY <1>3, <1>4, <3>1, <3>2
  <2>. QED
    BY <2>2, <2>3 DEF IInv, TypeOK, HarnessTypes
<1>7. Numbered'
  BY <1>1, <1>3, <1>5 DEF IInv, Numbered, Unshared, Present
<1>8. Looping'
  BY <1>2, <1>3 DEF IInv, Looping, HandlePids
<1>9. /\ NoForeign' /\ HeldAreBound' /\ Converging' /\ IsTree' /\ Counting' /\ RoundsLeft'
  BY <1>1 DEF IInv, NoForeign, HeldAreBound, NobodyHeld, Converging, IsTree, Counting, RoundsLeft
<1>. QED
  BY <1>1, <1>6, <1>7, <1>8, <1>9 DEF IInv, TypeOK

\* A foreign task has no number that a member has.
LEMMA RevalidateKeeps == IInv /\ Revalidate => IInv'
<1>. SUFFICES ASSUME IInv, Revalidate PROVE IInv'
  OBVIOUS
<1>. USE DEF Revalidate, Goto
<1>1. /\ KernelTypes' /\ ForeignUntouched' /\ NobodyHeld'
      /\ UNCHANGED <<life, pid, threads>>
  BY StillNobody DEF Suspending
<1>2. handles' \subseteq handles /\ todo' = handles'
  BY DEF StillMembers
<1>3. HarnessTypes'
  BY <1>2 DEF IInv, TypeOK, HarnessTypes
<1>4. NoForeign'
  <2>. SUFFICES ASSUME NEW h \in handles', h[2] \in Foreign, life[h[2]] # "none"
                PROVE  FALSE
    BY <1>1 DEF NoForeign, Present
  <2>1. pid[h[2]] = h[1]
    BY <1>2 DEF IInv, Numbered, Present
  <2>2. PICK m \in Members : pid[m] = h[1]
    BY DEF StillMembers, MemberPids
  <2>3. m \in Task /\ h[2] \in Task /\ m \in Member /\ life[m] # "none"
    BY <2>2 DEF Members, Alive, Task
  <2>4. m = h[2]
    BY <2>1, <2>2, <2>3 DEF IInv, Numbered, Unshared
  <2>. QED
    BY <2>3, <2>4, ProbeAssumption
<1>5. Numbered'
  BY <1>1, <1>2 DEF IInv, Numbered, Unshared, Present
<1>6. /\ Looping' /\ HeldAreBound' /\ Converging' /\ IsTree' /\ Counting' /\ RoundsLeft'
  BY <1>1, <1>2 DEF IInv, Looping, HeldAreBound, NobodyHeld, Converging, IsTree, Counting,
                    RoundsLeft, Suspending
<1>. QED
  BY <1>1, <1>3, <1>4, <1>5, <1>6 DEF IInv, TypeOK

LEMMA ProveIdentityKeeps == IInv /\ ProveIdentity => IInv'
<1>. SUFFICES ASSUME IInv, ProveIdentity PROVE IInv'
  OBVIOUS
<1>. USE DEF ProveIdentity
<1>1. /\ KernelTypes' /\ ForeignUntouched' /\ NobodyHeld'
      /\ UNCHANGED <<life, pid, threads>>
  BY StillNobody DEF Suspending
<1>2. PICK h \in todo :
        /\ handles' = IF Present(h) THEN handles ELSE handles \ {h}
        /\ todo' = todo \ {h}
  OBVIOUS
<1>3. handles' \subseteq handles
  BY <1>2
<1>4. HarnessTypes'
  BY <1>3 DEF IInv, TypeOK, HarnessTypes
<1>5. Looping'
  <2>1. todo \subseteq handles
    BY DEF IInv, Looping
  <2>2. todo' \subseteq handles'
    BY <1>2, <2>1
  <2>. QED
    BY <2>2 DEF Looping
<1>6. HeldAreBound' /\ Converging' /\ Counting' /\ RoundsLeft'
  BY <1>1 DEF IInv, HeldAreBound, NobodyHeld, Converging, Counting, RoundsLeft
<1>. QED
  BY <1>1, <1>3, <1>4, <1>5, <1>6, HarnessKeeps

LEMMA CompareKeeps == IInv /\ Compare => IInv'
<1>. SUFFICES ASSUME IInv, Compare PROVE IInv'
  OBVIOUS
<1>. USE DEF Compare
<1>1. /\ KernelTypes' /\ ForeignUntouched' /\ NobodyHeld'
      /\ UNCHANGED <<life, pid, threads>>
  BY StillNobody DEF Suspending
<1>2. op \in {"check", "kill"}
  BY DEF IInv, TypeOK, HarnessTypes
<1>3. CASE op = "kill" \/ HandlePids = pids
  <2>1. /\ pc' = IF op = "kill" THEN "kill" ELSE "stop"
        /\ todo' = handles
        /\ UNCHANGED <<op, bound, where, pids, tids, handles, late, tally, result>>
    BY <1>3 DEF Goto
  <2>2. HarnessTypes'
    BY <2>1 DEF IInv, TypeOK, HarnessTypes, Suspending
  <2>3. HeldAreBound' /\ Looping' /\ Converging'
    BY <1>1, <2>1 DEF HeldAreBound, NobodyHeld, Looping, Converging
  <2>4. Counting' /\ RoundsLeft'
    BY <1>2, <2>1 DEF IInv, Counting, RoundsLeft, Suspending
  <2>. QED
    BY <1>1, <2>1, <2>2, <2>3, <2>4, HarnessKeeps
<1>4. CASE ~(op = "kill" \/ HandlePids = pids) /\ late
  <2>1. Return("failed")
    BY <1>4
  <2>. QED
    BY <1>1, <2>1, Returning
<1>5. CASE ~(op = "kill" \/ HandlePids = pids) /\ ~late
  BY <1>1, <1>2, <1>5, ListingAgain DEF Goto
<1>. QED
  BY <1>3, <1>4, <1>5

(***************************************************************************)
(* While a check suspends: a step that signals nobody keeps what is bound, *)
(* and one that releases leaves nobody stopped.                            *)
(***************************************************************************)
LEMMA WatchingKeeps ==
    ASSUME IInv, pc \in Suspending, pc' \in Suspending,
           UNCHANGED <<kernel, where, op, bound, handles>>,
           HarnessTypes', Looping', Converging', Counting'
    PROVE  IInv'
<1>1. /\ KernelTypes' /\ ForeignUntouched' /\ UNCHANGED <<life, pid, threads>>
      /\ \A t : IsHeld(t)' <=> IsHeld(t)
  BY KernelStays
<1>2. pc # "open" /\ op = "check"
  BY DEF IInv, RoundsLeft, Suspending
<1>3. HeldAreBound'
  BY <1>1 DEF IInv, HeldAreBound, Bound
<1>4. RoundsLeft'
  BY <1>2 DEF RoundsLeft, Suspending
<1>. QED
  BY <1>1, <1>2, <1>3, <1>4, HarnessKeeps

\* Nothing is counted before the directories are scanned.
LEMMA NotYetCounting ==
    ASSUME IInv, pc \notin {"idle", "scanning", "scanned", "resume"}, UNCHANGED tally,
           pc' \notin {"scanning", "scanned"}
    PROVE  Counting'
BY DEF IInv, Counting

LEMMA StopKeeps ==
    ASSUME IInv, NEW label \in {"stop", "restop"}, NEW mayGiveUp \in BOOLEAN,
           StopBound(label, "converge", mayGiveUp)
    PROVE  IInv'
<1>. USE DEF StopBound
<1>1. /\ pc = label /\ UNCHANGED tally /\ op = "check" /\ todo \subseteq handles
      /\ pc \in Suspending
  BY DEF IInv, RoundsLeft, Looping, Suspending
<1>2. CASE todo = {}
  <2>1. pc' = "converge" /\ UNCHANGED <<kernel, op, bound, where, local, result, tally>>
    BY <1>2 DEF Goto
  <2>2. UNCHANGED <<pids, tids, todo, handles, late>>
    BY <2>1 DEF local
  <2>3. HarnessTypes'
    BY <2>1, <2>2 DEF IInv, TypeOK, HarnessTypes, Suspending
  <2>4. Looping' /\ Converging' /\ pc' \in Suspending
    BY <2>1 DEF Looping, Converging, Suspending
  <2>5. Counting'
    BY <1>1, <2>1, NotYetCounting
  <2>. QED
    BY <1>1, <2>1, <2>2, <2>3, <2>4, <2>5, WatchingKeeps
<1>3. ASSUME NEW h \in todo, Present(h), Stopped(h[2]), todo' = todo \ {h}, Goto(label),
             UNCHANGED <<pids, tids, handles, late, result>>
      PROVE  IInv'
  <2>. USE <1>3 DEF Stopped, Goto
  <2>1. /\ stopping' = stopping \cup ({h[2]} \cap Alive)
        /\ UNCHANGED <<life, pid, threads, running, doomed>>
    OBVIOUS
  <2>2. h \in handles /\ h[2] \in Bound /\ h[2] \notin Foreign
    BY <1>1 DEF IInv, NoForeign, Bound
  <2>3. KernelTypes'
    BY <2>1 DEF IInv, TypeOK, KernelTypes, Alive
  <2>4. ForeignUntouched'
    BY <2>1, <2>2 DEF IInv, ForeignUntouched
  <2>5. HarnessTypes'
    BY <1>1 DEF IInv, TypeOK, HarnessTypes
  <2>6. HeldAreBound'
    <3>1. \A t \in Task : IsHeld(t)' => IsHeld(t) \/ t = h[2]
      BY <2>1 DEF IsHeld
    <3>2. Bound' = Bound /\ pc' = pc
      BY <1>1 DEF Bound
    <3>. QED
      BY <1>1, <2>2, <3>1, <3>2 DEF IInv, HeldAreBound
  <2>7. Looping' /\ Converging' /\ RoundsLeft'
    BY <1>1 DEF Looping, Converging, RoundsLeft
  <2>8. Counting'
    BY <1>1, NotYetCounting
  <2>. QED
    BY <1>1, <2>1, <2>3, <2>4, <2>5, <2>6, <2>7, <2>8, HarnessKeeps
<1>4. ASSUME Release, Return("failed") \/ (Goto("list") /\ UNCHANGED <<local, result>>)
      PROVE  IInv'
  <2>1. /\ KernelTypes' /\ ForeignUntouched' /\ NobodyHeld'
        /\ UNCHANGED <<life, pid, threads>>
    BY <1>4, ReleaseFreesAll
  <2>2. CASE Return("failed")
    BY <1>1, <2>1, <2>2, Returning
  <2>3. CASE Goto("list") /\ UNCHANGED <<local, result>>
    BY <1>1, <2>1, <2>3, ListingAgain DEF Goto
  <2>. QED
    BY <1>4, <2>2, <2>3
<1>. QED
  BY <1>1, <1>2, <1>3, <1>4

LEMMA ConvergeKeeps == IInv /\ Converge => IInv'
<1>. SUFFICES ASSUME IInv, Converge PROVE IInv'
  OBVIOUS
<1>. USE DEF Converge
<1>1. /\ pc = "converge" /\ op = "check" /\ pc \in Suspending
      /\ UNCHANGED <<local, tally, result>> /\ UNCHANGED <<pids, tids, todo, handles, late>>
  BY DEF IInv, RoundsLeft, Suspending, local
<1>2. CASE MemberPids = pids
  <2>1. pc' = "threads" /\ UNCHANGED <<kernel, op, bound, where>>
    BY <1>2 DEF Goto
  <2>2. HarnessTypes'
    BY <1>1, <2>1 DEF IInv, TypeOK, HarnessTypes, Suspending
  <2>3. Looping' /\ Converging' /\ pc' \in Suspending
    BY <2>1 DEF Looping, Converging, Suspending
  <2>4. Counting'
    BY <1>1, <2>1, NotYetCounting
  <2>. QED
    BY <1>1, <2>1, <2>2, <2>3, <2>4, WatchingKeeps
<1>3. CASE MemberPids # pids
  <2>1. Release /\ Goto("list")
    BY <1>3
  <2>2. /\ KernelTypes' /\ ForeignUntouched' /\ NobodyHeld'
        /\ UNCHANGED <<life, pid, threads>>
    BY <2>1, ReleaseFreesAll
  <2>. QED
    BY <1>1, <2>1, <2>2, ListingAgain DEF Goto
<1>. QED
  BY <1>2, <1>3

LEMMA ReadThreadsKeeps == IInv /\ ReadThreads => IInv'
<1>. SUFFICES ASSUME IInv, ReadThreads PROVE IInv'
  OBVIOUS
<1>. USE DEF ReadThreads, Goto
<1>1. MemberTids \subseteq Pid \X Thread
  <2>1. \A m \in Members : m \in Task
    BY DEF Members, Alive
  <2>2. \A m \in Members : pid[m] \in Pid /\ threads[m] \subseteq Thread
    BY <2>1 DEF IInv, TypeOK, KernelTypes, Thread
  <2>. QED
    BY <2>2 DEF MemberTids
<1>2. pc = "threads" /\ pc \in Suspending /\ pc' \in {"again", "status"} /\ pc' \in Suspending
  BY DEF Suspending
<1>3. HarnessTypes'
  BY <1>1, <1>2 DEF IInv, TypeOK, HarnessTypes
<1>4. Looping' /\ Converging'
  BY <1>2 DEF Looping, Converging
<1>5. Counting'
  BY <1>2, NotYetCounting
<1>. QED
  BY <1>2, <1>3, <1>4, <1>5, WatchingKeeps

\* A thread is seen stopped only where the harness holds its process.
LEMMA StoppedIsSettled ==
    ASSUME IInv, NEW tid, TaskStopped(tid)
    PROVE  Settled(tid) /\ ~Lost(tid[1])
<1>1. PICK t \in Holders(tid[1]) : tid[2] \in threads[t] \ running[t]
  BY DEF TaskStopped
<1>2. t \in Task /\ life[t] # "none" /\ pid[t] = tid[1] /\ t \in Alive
  BY <1>1 DEF Holders, IInv, TypeOK, KernelTypes
<1>3. t \in Bound
  BY <1>1, <1>2 DEF IInv, HeldAreBound, IsHeld
<1>4. PICK h \in handles : h[2] = t
  BY <1>3 DEF Bound
<1>5. h[1] = tid[1]
  BY <1>2, <1>4 DEF IInv, Numbered, Present
<1>. QED
  BY <1>1, <1>2, <1>4, <1>5 DEF Settled, Lost

LEMMA ReadStatusKeeps ==
    ASSUME IInv,
           \/ ReadStatus("status", "confirm threads")
           \/ ReadStatus("confirm status", "scan")
    PROVE  IInv'
<1>1. PICK label \in {"status", "confirm status"}, next \in {"confirm threads", "scan"} :
         /\ label = "status" <=> next = "confirm threads"
         /\ ReadStatus(label, next)
  OBVIOUS
<1>. USE <1>1 DEF ReadStatus, Goto
<1>2. /\ pc = label /\ pc \in Suspending
      /\ UNCHANGED <<kernel, op, bound, where, pids, tids, handles, late, tally, result>>
  BY DEF Suspending
<1>3. pc' \in {label, next, "again"} /\ pc' \in Suspending
  BY DEF Suspending
<1>4. HarnessTypes'
  BY <1>2, <1>3 DEF IInv, TypeOK, HarnessTypes
<1>5. Looping'
  BY <1>3 DEF Looping
<1>6. Counting'
  BY <1>2, <1>3, NotYetCounting
<1>7. /\ \A tid : Settled(tid)' <=> Settled(tid)
      /\ \A numbers : Still(numbers)' <=> Still(numbers)
  BY <1>2, KernelStays DEF Settled, Still, Lost
<1>8. Converging'
  <2>1. CASE todo = {}
    <3>1. pc' = next /\ todo' = {}
      BY <2>1
    <3>2. CASE label = "status"
      <4>1. \A tid \in tids : Settled(tid)
        BY <1>2, <2>1, <3>2 DEF IInv, Converging
      <4>. QED
        BY <1>1, <1>2, <1>7, <3>1, <3>2, <4>1 DEF Converging
    <3>3. CASE label = "confirm status"
      <4>1. Able = {}
        BY <1>2, <2>1, <3>3 DEF IInv, Converging, Still
      <4>2. Able' = {}
        BY <1>2, <4>1, KernelStays
      <4>. QED
        BY <1>1, <3>1, <3>3, <4>2 DEF Converging
    <3>. QED
      BY <3>2, <3>3
  <2>2. ASSUME NEW t \in todo, TaskStopped(t), todo' = todo \ {t}, pc' = label
        PROVE  Converging'
    <3>1. Settled(t) /\ ~Lost(t[1])
      BY <2>2, StoppedIsSettled
    <3>2. CASE label = "status"
      <4>1. \A tid \in tids \ todo' : Settled(tid)
        BY <1>2, <2>2, <3>1, <3>2 DEF IInv, Converging
      <4>. QED
        BY <1>2, <1>7, <2>2, <3>2, <4>1 DEF Converging
    <3>3. CASE label = "confirm status"
      <4>1. Still(todo)
        BY <1>2, <3>3 DEF IInv, Converging
      <4>2. Still(todo')
        BY <2>2, <3>1, <4>1 DEF Still
      <4>3. Still(todo)'
        BY <1>2, <4>2, KernelStays DEF Still, Lost
      <4>. QED
        BY <2>2, <3>3, <4>3 DEF Converging
    <3>. QED
      BY <3>2, <3>3
  <2>3. CASE pc' = "again"
    BY <2>3 DEF Converging
  <2>. QED
    BY <2>1, <2>2, <2>3
<1>. QED
  BY <1>2, <1>3, <1>4, <1>5, <1>6, <1>8, WatchingKeeps

\* The threads are those that were seen stopped: whoever can run has a number
\* that somebody else had when it was bound.
LEMMA SettledAreStill ==
    ASSUME IInv, MemberTids = tids, \A tid \in tids : Settled(tid)
    PROVE  Still(tids)
<1>. SUFFICES ASSUME NEW m \in Able PROVE \E tid \in tids : Lost(tid[1])
  BY DEF Still
<1>1. m \in Members /\ m \in Task /\ life[m] = "alive" /\ running[m] # {}
  BY DEF Able, Members, Alive
<1>2. PICK i \in running[m] : i \in threads[m]
  BY <1>1 DEF IInv, TypeOK, KernelTypes
<1>3. <<pid[m], i>> \in tids
  BY <1>1, <1>2 DEF MemberTids
<1>4. CASE Lost(pid[m])
  BY <1>3, <1>4
<1>5. ASSUME NEW h \in handles, h[1] = pid[m], i \in threads[h[2]] \ running[h[2]]
      PROVE  FALSE
  <2>1. h[2] \in Task
    BY DEF IInv, TypeOK, HarnessTypes
  <2>2. life[h[2]] # "none"
    BY <1>5, <2>1 DEF IInv, TypeOK, KernelTypes, Alive
  <2>3. h[2] = m
    BY <1>1, <1>5, <2>1, <2>2 DEF IInv, Numbered, Unshared, Present
  <2>. QED
    BY <1>2, <1>5, <2>3
<1>. QED
  BY <1>3, <1>4, <1>5 DEF Settled

LEMMA ConfirmThreadsKeeps == IInv /\ ConfirmThreads => IInv'
<1>. SUFFICES ASSUME IInv, ConfirmThreads PROVE IInv'
  OBVIOUS
<1>. USE DEF ConfirmThreads, Goto
<1>1. /\ pc = "confirm threads" /\ pc \in Suspending
      /\ pc' \in {"confirm pids", "again"} /\ pc' \in Suspending
      /\ UNCHANGED <<pids, tids, todo, handles, late>>
  BY DEF Suspending, local
<1>2. HarnessTypes'
  BY <1>1 DEF IInv, TypeOK, HarnessTypes
<1>3. Looping'
  BY <1>1 DEF Looping
<1>4. Counting'
  BY <1>1, NotYetCounting
<1>5. Converging'
  <2>1. pc' = "confirm pids" => Still(tids)
    BY SettledAreStill DEF IInv, Converging, SameThreads
  <2>2. Still(tids)' <=> Still(tids)
    BY <1>1, KernelStays DEF Still, Lost
  <2>. QED
    BY <1>1, <2>1, <2>2 DEF Converging
<1>. QED
  BY <1>1, <1>2, <1>3, <1>4, <1>5, WatchingKeeps

LEMMA ConfirmPidsKeeps == IInv /\ ConfirmPids => IInv'
<1>. SUFFICES ASSUME IInv, ConfirmPids PROVE IInv'
  OBVIOUS
<1>. USE DEF ConfirmPids, Goto
<1>1. /\ pc = "confirm pids" /\ pc \in Suspending
      /\ pc' \in {"confirm status", "again"} /\ pc' \in Suspending
  BY DEF Suspending
<1>2. HarnessTypes'
  BY <1>1 DEF IInv, TypeOK, HarnessTypes
<1>3. Looping'
  BY <1>1 DEF Looping
<1>4. Counting'
  BY <1>1, NotYetCounting
<1>5. Converging'
  <2>1. Still(tids)
    BY DEF IInv, Converging
  <2>2. Still(tids)' <=> Still(tids)
    BY KernelStays DEF Still, Lost
  <2>. QED
    BY <1>1, <2>1, <2>2 DEF Converging, Still, Lost
<1>. QED
  BY <1>1, <1>2, <1>3, <1>4, <1>5, WatchingKeeps

LEMMA AgainKeeps == IInv /\ Again => IInv'
<1>. SUFFICES ASSUME IInv, Again PROVE IInv'
  OBVIOUS
<1>. USE DEF Again
<1>1. CASE late
  <2>1. Release /\ Return("failed") /\ pc # "open"
    BY <1>1
  <2>2. /\ KernelTypes' /\ ForeignUntouched' /\ NobodyHeld'
        /\ UNCHANGED <<life, pid, threads>>
    BY <2>1, ReleaseFreesAll
  <2>. QED
    BY <2>1, <2>2, Returning
<1>2. CASE ~late
  <2>1. /\ pc = "again" /\ pc \in Suspending /\ pc' = "restop" /\ pc' \in Suspending
        /\ todo' = handles
        /\ UNCHANGED <<kernel, where, op, bound, pids, tids, handles, late, tally, result>>
    BY <1>2 DEF Goto, Suspending
  <2>2. HarnessTypes'
    BY <2>1 DEF IInv, TypeOK, HarnessTypes
  <2>3. Looping' /\ Converging'
    BY <2>1 DEF Looping, Converging
  <2>4. Counting'
    BY <2>1, NotYetCounting
  <2>. QED
    BY <2>1, <2>2, <2>3, <2>4, WatchingKeeps
<1>. QED
  BY <1>1, <1>2

LEMMA TickKeeps == IInv /\ Tick => IInv'
<1>. SUFFICES ASSUME IInv, Tick PROVE IInv'
  OBVIOUS
<1>. USE DEF Tick
<1>1. /\ KernelTypes' /\ ForeignUntouched' /\ \A t : IsHeld(t)' <=> IsHeld(t)
      /\ UNCHANGED <<life, pid, threads, running, stopping>> /\ Alive' = Alive /\ Able' = Able
  BY KernelStays
<1>2. HarnessTypes'
  BY DEF IInv, TypeOK, HarnessTypes
<1>3. Numbered' /\ NoForeign' /\ IsTree' /\ Looping' /\ RoundsLeft'
  BY <1>1 DEF IInv, Numbered, Unshared, NoForeign, IsTree, Looping, RoundsLeft, Present, HandlePids
<1>4. HeldAreBound'
  BY <1>1 DEF IInv, HeldAreBound, Bound
<1>5. Converging'
  BY <1>1 DEF IInv, Converging, Settled, Still, Lost
<1>6. Counting'
  BY CountingStays DEF IInv
<1>. QED
  BY <1>1, <1>2, <1>3, <1>4, <1>5, <1>6 DEF IInv, TypeOK

LEMMA ReadFailsKeeps == IInv /\ ReadFails => IInv'
<1>. SUFFICES ASSUME IInv, ReadFails PROVE IInv'
  OBVIOUS
<1>. USE DEF ReadFails
<1>1. CASE pc \in {"probe cgroup", "list", "open", "resume"} /\ UNCHANGED kernel
  <2>1. /\ KernelTypes' /\ ForeignUntouched' /\ NobodyHeld'
        /\ UNCHANGED <<life, pid, threads>>
    BY <1>1, StillNobody DEF Suspending
  <2>. QED
    BY <1>1, <2>1, Returning
<1>2. CASE pc \in {"converge", "threads", "confirm threads", "confirm pids"} /\ Release
  <2>1. /\ KernelTypes' /\ ForeignUntouched' /\ NobodyHeld'
        /\ UNCHANGED <<life, pid, threads>>
    BY <1>2, ReleaseFreesAll
  <2>. QED
    BY <1>2, <2>1, Returning
<1>. QED
  BY <1>1, <1>2

LEMMA EndScanKeeps == IInv /\ EndScan => IInv'
<1>. SUFFICES ASSUME IInv, EndScan PROVE IInv'
  OBVIOUS
<1>. USE DEF EndScan
<1>1. CASE handles = {}
  <2>1. Return(result) /\ UNCHANGED <<kernel, tally>> /\ pc # "open"
    BY <1>1
  <2>2. NobodyHeld
    BY <1>1 DEF IInv, HeldAreBound, Bound, NobodyHeld
  <2>3. /\ KernelTypes' /\ ForeignUntouched' /\ NobodyHeld'
        /\ UNCHANGED <<life, pid, threads>>
    BY <2>1, <2>2, KernelStays DEF NobodyHeld, IsHeld
  <2>4. result \in {"none", "ok", "failed"}
    BY DEF IInv, TypeOK, HarnessTypes
  <2>. QED
    BY <2>1, <2>3, <2>4, Returning
<1>2. CASE handles # {}
  <2>1. /\ Release /\ late' = FALSE /\ pc = "scanned" /\ pc' = "resume"
        /\ UNCHANGED <<op, bound, where, pids, tids, todo, handles, result, tally>>
    BY <1>2 DEF Goto
  <2>2. /\ KernelTypes' /\ ForeignUntouched' /\ NobodyHeld'
        /\ UNCHANGED <<life, pid, threads>>
    BY <2>1, ReleaseFreesAll
  <2>3. HarnessTypes'
    BY <2>1 DEF IInv, TypeOK, HarnessTypes
  <2>4. /\ HeldAreBound' /\ Looping' /\ Converging' /\ Counting' /\ RoundsLeft'
    BY <2>1, <2>2 DEF IInv, HeldAreBound, NobodyHeld, Looping, Converging, Counting, RoundsLeft,
                      Suspending
  <2>. QED
    BY <2>1, <2>2, <2>3, <2>4, HarnessKeeps
<1>. QED
  BY <1>1, <1>2

LEMMA ResumedKeeps == IInv /\ (Resumed \/ Killed) => IInv'
<1>. SUFFICES ASSUME IInv, Resumed \/ Killed PROVE IInv'
  OBVIOUS
<1>1. /\ pc \in {"resume", "killed"} /\ UNCHANGED <<kernel, tally>>
      /\ \E answer \in {result, "ok", "failed"} : Return(answer)
  BY DEF Resumed, Killed
<1>2. PICK answer \in {result, "ok", "failed"} : Return(answer)
  BY <1>1
<1>3. answer \in {"none", "ok", "failed"}
  BY DEF IInv, TypeOK, HarnessTypes
<1>4. /\ KernelTypes' /\ ForeignUntouched' /\ NobodyHeld'
      /\ UNCHANGED <<life, pid, threads>>
  BY <1>1, StillNobody DEF Suspending
<1>. QED
  BY <1>1, <1>2, <1>3, <1>4, Returning

LEMMA KillKeeps == IInv /\ Kill => IInv'
<1>. SUFFICES ASSUME IInv, Kill PROVE IInv'
  OBVIOUS
<1>. USE DEF Kill
<1>1. /\ pc = "kill" /\ op = "kill" /\ todo \subseteq handles /\ tally.rounds < KillRounds
      /\ UNCHANGED <<life, pid, threads, running, stopping>> /\ tally.units = 0
  BY DEF IInv, RoundsLeft, Looping, Counting
<1>2. NobodyHeld'
  <2>1. NobodyHeld
    BY <1>1 DEF IInv, HeldAreBound, NobodyHeld, Suspending
  <2>. QED
    BY <1>1, <2>1 DEF NobodyHeld, IsHeld
<1>3. ASSUME NEW h \in todo, doomed' = doomed \cup ({h[2]} \cap Alive), todo' = todo \ {h},
             UNCHANGED <<pc, op, bound, where, pids, tids, handles, late, tally, result>>
      PROVE  IInv'
  <2>1. h[2] \notin Foreign \/ h[2] \notin Alive
    BY <1>1 DEF IInv, NoForeign, Present, Alive
  <2>2. KernelTypes'
    BY <1>1, <1>3 DEF IInv, TypeOK, KernelTypes, Alive
  <2>3. ForeignUntouched'
    BY <1>1, <1>3, <2>1 DEF IInv, ForeignUntouched
  <2>4. HarnessTypes'
    BY <1>3 DEF IInv, TypeOK, HarnessTypes
  <2>5. HeldAreBound' /\ Looping' /\ Converging' /\ Counting' /\ RoundsLeft'
    BY <1>1, <1>2, <1>3 DEF HeldAreBound, NobodyHeld, Looping, Converging, Counting, RoundsLeft,
                            Suspending
  <2>. QED
    BY <1>1, <1>3, <2>2, <2>3, <2>4, <2>5, HarnessKeeps
<1>4. CASE todo = {}
  <2>1. /\ tally' = [tally EXCEPT !.rounds = tally.rounds + 1] /\ handles' = {}
        /\ pc' = IF tally.rounds + 1 < KillRounds THEN "list" ELSE "killed"
        /\ UNCHANGED <<op, bound, where, doomed, pids, tids, todo, late, result>>
    BY <1>4 DEF Goto
  <2>2. KernelTypes' /\ ForeignUntouched'
    BY <1>1, <2>1 DEF IInv, TypeOK, KernelTypes, Alive, ForeignUntouched
  <2>3. /\ tally' \in [units : 0..MaxUnits, restarts : 0..MaxRestarts, rounds : 0..KillRounds]
        /\ tally'.units = 0 /\ tally'.rounds = tally.rounds + 1
    <3>1. tally \in [units : 0..MaxUnits, restarts : 0..MaxRestarts, rounds : 0..KillRounds]
      BY DEF IInv, TypeOK, HarnessTypes
    <3>2. tally.rounds \in 0..KillRounds /\ KillRounds \in Nat
      BY <3>1, ProbeAssumption
    <3>3. tally.rounds + 1 \in 0..KillRounds
      BY <1>1, <3>2, Bounds
    <3>. QED
      BY <1>1, <2>1, <3>1, <3>3
  <2>4. pc' \in {"list", "killed"}
    BY <2>1
  <2>5. HarnessTypes'
    BY <2>1, <2>3, <2>4 DEF IInv, TypeOK, HarnessTypes
  <2>6. RoundsLeft'
    BY <1>1, <2>1, <2>3 DEF RoundsLeft, Suspending
  <2>7. HeldAreBound' /\ Looping' /\ Converging' /\ Counting'
    BY <1>2, <2>3, <2>4 DEF HeldAreBound, NobodyHeld, Looping, Converging, Counting
  <2>. QED
    BY <1>1, <2>1, <2>2, <2>5, <2>6, <2>7, HarnessKeeps
<1>. QED
  BY <1>1, <1>3, <1>4

-----------------------------------------------------------------------------
(***************************************************************************)
(* The accounting. Each directory that is found becomes one item, so that  *)
(* as many units are counted as directories were found; what the queue     *)
(* still holds is not counted, and it shrinks by what is counted.          *)
(***************************************************************************)
LEMMA FiniteDir == \A D \in SUBSET Dir : IsFiniteSet(D) /\ Cardinality(D) \in Nat
<1>1. IsFiniteSet(Dir)
  <2>1. IsFiniteSet({} \cup {"d1"})
    BY FS_EmptySet, FS_AddElement
  <2>2. IsFiniteSet(({} \cup {"d1"}) \cup {"d2"})
    BY <2>1, FS_AddElement
  <2>3. Dir = ({} \cup {"d1"}) \cup {"d2"}
    BY DEF Dir
  <2>. QED
    BY <2>2, <2>3
<1>2. ASSUME NEW D \in SUBSET Dir PROVE IsFiniteSet(D)
  BY <1>1, FS_Subset
<1>. QED
  BY <1>2, FS_CardinalityType

AreItems(F, D, name, parent) ==
    /\ \A i \in F : \E d \in D : i = <<name[d], parent, d>>
    /\ \A d \in D : <<name[d], parent, d>> \in F

LEMMA AsManyItems ==
    ASSUME NEW D \in SUBSET Dir, NEW name, NEW parent, NEW F, AreItems(F, D, name, parent)
    PROVE  /\ Cardinality(F) = Cardinality(D)
           /\ {i[3] : i \in F} = D
<1>. USE DEF AreItems
<1>. DEFINE f == [d \in D |-> <<name[d], parent, d>>]
<1>1. f \in Bijection(D, F)
  <2>1. f \in [D -> F]
    OBVIOUS
  <2>2. \A d, e \in D : f[d] = f[e] => d = e
    OBVIOUS
  <2>3. \A i \in F : \E d \in D : f[d] = i
    OBVIOUS
  <2>. QED
    BY <2>1, <2>2, <2>3 DEF Bijection, Injection, IsInjective, Surjection
<1>2. ExistsBijection(D, F)
  BY <1>1 DEF ExistsBijection
<1>3. Cardinality(F) = Cardinality(D)
  BY <1>2, FiniteDir, FS_Bijection
<1>4. \A i \in F : i[3] \in D
  OBVIOUS
<1>5. \A d \in D : \E i \in F : i[3] = d
  <2>. TAKE d \in D
  <2>. WITNESS <<name[d], parent, d>> \in F
  <2>. QED
    OBVIOUS
<1>. QED
  BY <1>3, <1>4, <1>5

\* What a pass adds, or that it goes over its limit.
LEMMA AccountKeeps ==
    ASSUME IInv, pc \in {"scan", "scanning"},
           UNCHANGED <<kernel, pids, tids, handles, late>>,
           NEW found, NEW queue, Cardinality(found) \in Nat, Account(found, queue),
           bound => /\ \A item \in queue \cup found : IsItem(item)
                    /\ tally.units + Cardinality(found) =
                         Cardinality(There \ {d \in Dir : where[d] \in
                                                 {item[3] : item \in queue \cup found}})
    PROVE  IInv'
<1>1. /\ pc' \in {"scanning", "scanned"} /\ UNCHANGED <<op, bound, where>>
      /\ pc \in Suspending /\ pc' \in Suspending
  BY DEF Account, Goto, Suspending
<1>2. tally \in [units : 0..MaxUnits, restarts : 0..MaxRestarts, rounds : 0..KillRounds]
  BY DEF IInv, TypeOK, HarnessTypes
<1>3. tally' \in [units : 0..MaxUnits, restarts : 0..MaxRestarts, rounds : 0..KillRounds]
  <2>1. CASE tally.units + Cardinality(found) > MaxUnits
    BY <1>2, <2>1 DEF Account
  <2>2. CASE ~(tally.units + Cardinality(found) > MaxUnits)
    <3>1. tally' = [tally EXCEPT !.units = tally.units + Cardinality(found)]
      BY <2>2 DEF Account
    <3>2. tally.units \in 0..MaxUnits /\ MaxUnits \in Nat
      BY <1>2, ProbeAssumption
    <3>3. tally.units + Cardinality(found) \in 0..MaxUnits
      BY <2>2, <3>2
    <3>. QED
      BY <1>2, <3>1, <3>3
  <2>. QED
    BY <2>1, <2>2
<1>4. result' \in {"none", "ok", "failed"}
  BY DEF Account, IInv, TypeOK, HarnessTypes
<1>5. HarnessTypes'
  BY <1>1, <1>3, <1>4 DEF IInv, TypeOK, HarnessTypes
<1>6. Looping' /\ Converging'
  <2>1. bound => Able = {}
    BY DEF IInv, Converging
  <2>2. bound' => Able' = {}
    BY <1>1, <2>1, KernelStays
  <2>. QED
    BY <1>1, <2>2 DEF Looping, Converging
<1>7. Counting'
  <2>1. CASE tally.units + Cardinality(found) > MaxUnits
    BY <2>1 DEF Account, Counting, Goto
  <2>2. CASE ~(tally.units + Cardinality(found) > MaxUnits)
    <3>1. /\ tally' = [tally EXCEPT !.units = tally.units + Cardinality(found)]
          /\ todo' = queue \cup found /\ pc' = "scanning"
      BY <2>2 DEF Account, Goto
    <3>2. tally'.units = tally.units + Cardinality(found)
      BY <1>2, <3>1
    <3>3. \A item : IsItem(item)' <=> IsItem(item)
      BY <1>1 DEF IsItem
    <3>4. There' = There /\ Uncounted' = {d \in Dir : where[d] \in
                                            {item[3] : item \in queue \cup found}}
      BY <1>1, <3>1 DEF There, Uncounted, Queued
    <3>. QED
      BY <1>1, <3>1, <3>2, <3>3, <3>4 DEF Counting
  <2>. QED
    BY <2>1, <2>2
<1>. QED
  BY <1>1, <1>5, <1>6, <1>7, WatchingKeeps

LEMMA RestartKeeps ==
    ASSUME IInv, pc = "scanning", Restart, UNCHANGED <<kernel, pids, tids, handles, late>>
    PROVE  IInv'
<1>1. /\ pc' \in {"scan", "scanned"} /\ UNCHANGED <<op, bound, where>>
      /\ pc \in Suspending /\ pc' \in Suspending
      /\ pc' = "scanned" => result' = "failed"
  BY DEF Restart, Goto, Suspending
<1>2. tally \in [units : 0..MaxUnits, restarts : 0..MaxRestarts, rounds : 0..KillRounds]
  BY DEF IInv, TypeOK, HarnessTypes
<1>3. MaxUnits \in Nat /\ MaxRestarts \in Nat
  BY ProbeAssumption
<1>4. /\ tally' \in [units : 0..MaxUnits, restarts : 0..MaxRestarts, rounds : 0..KillRounds]
      /\ tally'.units = 0
  <2>1. 0 \in 0..MaxUnits
    BY <1>3, Bounds
  <2>2. CASE tally.restarts < MaxRestarts
    <3>1. tally' = [tally EXCEPT !.restarts = tally.restarts + 1, !.units = 0]
      BY <2>2 DEF Restart
    <3>2. tally.restarts \in 0..MaxRestarts
      BY <1>2
    <3>3. tally.restarts + 1 \in 0..MaxRestarts
      BY <1>3, <2>2, <3>2, Bounds
    <3>. QED
      BY <1>2, <2>1, <3>1, <3>3
  <2>3. CASE ~(tally.restarts < MaxRestarts)
    <3>1. tally' = [tally EXCEPT !.units = 0]
      BY <2>3 DEF Restart
    <3>. QED
      BY <1>2, <2>1, <3>1
  <2>. QED
    BY <2>2, <2>3
<1>5. result' \in {"none", "ok", "failed"}
  BY DEF Restart, IInv, TypeOK, HarnessTypes
<1>6. HarnessTypes'
  BY <1>1, <1>4, <1>5 DEF IInv, TypeOK, HarnessTypes
<1>7. Looping' /\ Converging'
  <2>1. bound => Able = {}
    BY DEF IInv, Converging
  <2>2. bound' => Able' = {}
    BY <1>1, <2>1, KernelStays
  <2>. QED
    BY <1>1, <2>2 DEF Looping, Converging
<1>8. Counting'
  BY <1>1, <1>4 DEF Counting
<1>. QED
  BY <1>1, <1>6, <1>7, <1>8, WatchingKeeps

LEMMA ScanRootKeeps == IInv /\ ScanRoot => IInv'
<1>. SUFFICES ASSUME IInv, ScanRoot PROVE IInv'
  OBVIOUS
<1>. DEFINE roots == {e \in Dir : where[e] \in Slot}
            found == {<<where[d], Nowhere, d>> : d \in roots}
<1>1. /\ pc = "scan" /\ UNCHANGED <<kernel, pids, tids, handles, late>>
      /\ Account(found, {}) /\ tally.units = 0
  BY DEF ScanRoot, IInv, Counting
<1>2. roots \in SUBSET Dir /\ Cardinality(roots) \in Nat
  BY FiniteDir
<1>3. AreItems(found, roots, where, Nowhere)
  BY DEF AreItems
<1>4. \A item \in {} \cup found : IsItem(item)
  BY DEF IsItem
<1>5. Cardinality(found) = Cardinality(roots) /\ {item[3] : item \in found} = roots
  <2>. HIDE DEF roots, found
  <2>. QED
    BY <1>2, <1>3, AsManyItems
<1>6. There \ {d \in Dir : where[d] \in roots} = roots
  <2>1. \A d \in Dir : where[d] \in Slot \cup Dir \cup {Nowhere}
    BY DEF IInv, TypeOK, HarnessTypes
  <2>2. \A d \in Dir : where[d] \in Dir => where[d] \in roots
    BY DEF IInv, IsTree
  <2>3. \A s \in Slot : s # Nowhere /\ s \notin Dir
    BY DEF Slot, Dir, Nowhere
  <2>. QED
    BY <2>1, <2>2, <2>3 DEF There
<1>. HIDE DEF roots, found
<1>7. {} \cup found = found
  OBVIOUS
<1>8. tally.units + Cardinality(found) =
        Cardinality(There \ {d \in Dir : where[d] \in {item[3] : item \in {} \cup found}})
  <2>1. {item[3] : item \in {} \cup found} = roots
    BY <1>5, <1>7
  <2>2. There \ {d \in Dir : where[d] \in {item[3] : item \in {} \cup found}} = roots
    BY <1>6, <2>1
  <2>3. tally.units + Cardinality(found) = Cardinality(roots)
    BY <1>1, <1>2, <1>5
  <2>. QED
    BY <2>2, <2>3
<1>. QED
  BY <1>1, <1>2, <1>4, <1>5, <1>8, AccountKeeps

\* A directory is queued once: where it is says under which name it was found.
LEMMA QueuedOnce ==
    ASSUME NEW item, NEW other, IsItem(item), IsItem(other), item[3] = other[3],
           \A d \in Dir : where[d] \in Slot \cup Dir \cup {Nowhere}
    PROVE  item = other
<1>1. \A s \in Slot : s # Nowhere /\ s \notin Dir
  BY DEF Slot, Dir, Nowhere
<1>2. item[1] = other[1] /\ item[2] = other[2]
  BY <1>1 DEF IsItem
<1>. QED
  BY <1>2 DEF IsItem

LEMMA VisitKeeps == IInv /\ Visit => IInv'
<1>. SUFFICES ASSUME IInv, Visit PROVE IInv'
  OBVIOUS
<1>1. pc = "scanning" /\ UNCHANGED <<kernel, pids, tids, handles, late>>
  BY DEF Visit
<1>2. CASE todo = {}
  <2>1. /\ pc' = "scanned" /\ result' = "ok" /\ UNCHANGED <<op, bound, where, todo, tally>>
        /\ pc \in Suspending /\ pc' \in Suspending
    BY <1>1, <1>2 DEF Visit, Goto, Suspending
  <2>2. HarnessTypes'
    BY <1>1, <2>1 DEF IInv, TypeOK, HarnessTypes
  <2>3. Looping' /\ Converging'
    <3>1. bound => Able = {}
      BY <1>1 DEF IInv, Converging
    <3>2. bound' => Able' = {}
      BY <1>1, <2>1, <3>1, KernelStays
    <3>. QED
      BY <2>1, <3>2 DEF Looping, Converging
  <2>4. Counting'
    <3>1. There \ Uncounted = There
      BY <1>2 DEF Uncounted, Queued
    <3>2. There' = There
      BY <2>1 DEF There
    <3>. QED
      BY <1>1, <2>1, <3>1, <3>2 DEF IInv, Counting
  <2>. QED
    BY <1>1, <2>1, <2>2, <2>3, <2>4, WatchingKeeps
<1>3. ASSUME NEW item \in todo, Opened(item) = {item[3]},
             Account({<<item[1], item[3], d>> : d \in In(item[3])}, todo \ {item})
      PROVE  IInv'
  <2>. DEFINE inside == In(item[3])
              found == {<<item[1], item[3], d>> : d \in inside}
              queue == todo \ {item}
              left == {d \in Dir : where[d] \in {i[3] : i \in queue \cup found}}
  <2>1. inside \in SUBSET Dir /\ Cardinality(inside) \in Nat /\ IsFiniteSet(inside)
    BY FiniteDir DEF In
  <2>2. Cardinality(found) = Cardinality(inside) /\ {i[3] : i \in found} = inside
    <3>. DEFINE name == [d \in Dir |-> item[1]]
    <3>1. \A d \in inside : name[d] = item[1]
      BY <2>1
    <3>2. AreItems(found, inside, name, item[3])
      BY <3>1 DEF AreItems
    <3>. HIDE DEF name, found, inside
    <3>. QED
      BY <2>1, <3>2, AsManyItems
  <2>3. ASSUME bound
        PROVE  /\ \A i \in queue \cup found : IsItem(i)
               /\ tally.units + Cardinality(found) = Cardinality(There \ left)
    <3>1. /\ \A i \in todo : IsItem(i)
          /\ tally.units = Cardinality(There \ Uncounted)
      BY <1>1, <2>3 DEF IInv, Counting
    <3>2. \A d \in Dir : where[d] \in Slot \cup Dir \cup {Nowhere}
      BY DEF IInv, TypeOK, HarnessTypes
    <3>3. \A s \in Slot : s # Nowhere /\ s \notin Dir
      BY DEF Slot, Dir, Nowhere
    <3>4. \A d \in Dir : d # Nowhere
      BY DEF Dir, Nowhere
    <3>5. item[3] \in Dir /\ \A d \in inside : d \in Dir /\ where[d] = item[3]
      BY <3>1 DEF IsItem, In
    <3>6. inside # {} => where[item[3]] \in Slot
      BY <3>5 DEF IInv, IsTree
    <3>7. \A i \in found : IsItem(i)
      <4>. SUFFICES ASSUME NEW d \in inside PROVE IsItem(<<item[1], item[3], d>>)
        OBVIOUS
      <4>1. where[item[3]] \in Slot
        BY <3>6
      <4>2. where[item[3]] = item[1]
        BY <3>1, <3>3, <4>1 DEF IsItem
      <4>. QED
        BY <3>5, <4>2 DEF IsItem
    <3>8. {i[3] : i \in queue \cup found} = (Queued \ {item[3]}) \cup inside
      <4>1. {i[3] : i \in queue} = Queued \ {item[3]}
        BY <3>1, <3>2, QueuedOnce DEF Queued
      <4>2. {i[3] : i \in queue \cup found} = {i[3] : i \in queue} \cup {i[3] : i \in found}
        OBVIOUS
      <4>. HIDE DEF queue, found, inside
      <4>. QED
        BY <2>2, <4>1, <4>2
    <3>9. left = Uncounted \ inside
      <4>1. \A d \in Dir : where[d] \notin inside
        BY <3>3, <3>5, <3>6 DEF IInv, IsTree
      <4>2. \A d \in Dir : d \in inside <=> where[d] = item[3]
        BY DEF In
      <4>3. left = {d \in Dir : where[d] \in (Queued \ {item[3]}) \cup inside}
        BY <3>8
      <4>. HIDE DEF left, inside
      <4>. QED
        BY <4>1, <4>2, <4>3 DEF Uncounted
    <3>10. inside \subseteq There /\ inside \subseteq Uncounted
      BY <3>4, <3>5 DEF There, Uncounted, Queued
    <3>. HIDE DEF inside, left
    <3>11. There \ left = (There \ Uncounted) \cup inside
      BY <3>9, <3>10
    <3>12. (There \ Uncounted) \cap inside = {}
      BY <3>10
    <3>13. There \ Uncounted \in SUBSET Dir
      BY DEF There
    <3>14. IsFiniteSet(There \ Uncounted) /\ Cardinality(There \ Uncounted) \in Nat
      BY <3>13, FiniteDir
    <3>15. Cardinality(There \ left) =
             Cardinality(There \ Uncounted) + Cardinality(inside) - Cardinality({})
      BY <2>1, <3>11, <3>12, <3>14, FS_Union
    <3>16. Cardinality({}) = 0
      BY FS_EmptySet
    <3>17. tally.units + Cardinality(found) = Cardinality(There \ left)
      BY <2>1, <2>2, <3>1, <3>14, <3>15, <3>16
    <3>. QED
      BY <3>1, <3>7, <3>17
  <2>4. Account(found, queue)
    BY <1>3
  <2>. HIDE DEF inside, found, queue
  <2>. QED
    BY <1>1, <2>1, <2>2, <2>3, <2>4, AccountKeeps
<1>4. CASE Restart
  BY <1>1, <1>4, RestartKeeps
<1>. QED
  BY <1>2, <1>3, <1>4 DEF Visit

-----------------------------------------------------------------------------
(***************************************************************************)
(* The invariant, and what follows from it.                                *)
(***************************************************************************)
LEMMA InitKeeps == Init => IInv
<1>. SUFFICES ASSUME Init PROVE IInv
  OBVIOUS
<1>1. PICK first \in Member, number \in Pid :
        /\ life = [t \in Task |-> IF t = first THEN "alive" ELSE "none"]
        /\ pid = [t \in Task |-> number]
        /\ threads = [t \in Task |-> IF t = first THEN {1} ELSE {}]
  BY DEF Init
<1>2. /\ running = threads /\ stopping = {} /\ doomed = {}
      /\ where \in {[d1 |-> "a", d2 |-> "d1"], [d1 |-> "a", d2 |-> "b"]}
      /\ pc = "idle" /\ op = "check" /\ bound \in BOOLEAN
      /\ pids = {} /\ tids = {} /\ todo = {} /\ handles = {} /\ late = FALSE
      /\ tally = [units |-> 0, restarts |-> 0, rounds |-> 0] /\ result = "none"
  BY DEF Init
<1>3. KernelTypes
  <2>1. \A t \in Task : /\ life[t] = IF t = first THEN "alive" ELSE "none"
                        /\ threads[t] = IF t = first THEN {1} ELSE {}
    BY <1>1
  <2>2. threads \in [Task -> {{}, {1}, Thread}] /\ running \in [Task -> SUBSET Thread]
    BY <1>1, <1>2 DEF Thread
  <2>3. life \in [Task -> {"none", "alive", "zombie"}] /\ pid \in [Task -> Pid]
    BY <1>1
  <2>4. \A t \in Task : running[t] \subseteq threads[t] /\ (threads[t] # {} <=> t \in Alive)
    BY <1>2, <2>1 DEF Alive
  <2>. QED
    BY <1>2, <2>2, <2>3, <2>4 DEF KernelTypes
<1>4. where \in [Dir -> Slot \cup Dir \cup {Nowhere}]
  <2>1. [d1 |-> "a", d2 |-> "d1"] \in [Dir -> Slot \cup Dir \cup {Nowhere}]
    BY DEF Dir, Slot
  <2>2. [d1 |-> "a", d2 |-> "b"] \in [Dir -> Slot \cup Dir \cup {Nowhere}]
    BY DEF Dir, Slot
  <2>. QED
    BY <1>2, <2>1, <2>2
<1>5. tally \in [units : 0..MaxUnits, restarts : 0..MaxRestarts, rounds : 0..KillRounds]
  <2>1. MaxUnits \in Nat /\ MaxRestarts \in Nat /\ KillRounds \in Nat
    BY ProbeAssumption
  <2>2. 0 \in 0..MaxUnits /\ 0 \in 0..MaxRestarts /\ 0 \in 0..KillRounds
    BY <2>1, Bounds
  <2>. QED
    BY <1>2, <2>2
<1>6. HarnessTypes
  BY <1>2, <1>4, <1>5 DEF HarnessTypes
<1>7. Unshared
  BY <1>1 DEF Unshared
<1>8. IsTree
  BY <1>2 DEF IsTree, Dir, Slot
<1>9. /\ Numbered /\ Looping /\ NoForeign /\ ForeignUntouched /\ HeldAreBound
      /\ Converging /\ Counting /\ RoundsLeft
  BY <1>2, <1>7 DEF Numbered, Looping, NoForeign, ForeignUntouched, HeldAreBound, IsHeld,
                    Converging, Counting, RoundsLeft, Suspending
<1>. QED
  BY <1>3, <1>6, <1>8, <1>9 DEF IInv, TypeOK

LEMMA StutterKeeps == IInv /\ UNCHANGED vars => IInv'
<1>. SUFFICES ASSUME IInv, UNCHANGED vars PROVE IInv'
  OBVIOUS
<1>. USE DEF vars, local
<1>1. /\ KernelTypes' /\ ForeignUntouched' /\ \A t : IsHeld(t)' <=> IsHeld(t)
      /\ UNCHANGED <<life, pid, threads, running, stopping>> /\ Alive' = Alive /\ Able' = Able
  BY KernelStays
<1>2. HarnessTypes'
  BY DEF IInv, TypeOK, HarnessTypes
<1>3. Numbered' /\ NoForeign' /\ IsTree' /\ Looping' /\ RoundsLeft'
  BY <1>1 DEF IInv, Numbered, Unshared, NoForeign, IsTree, Looping, RoundsLeft, Present, HandlePids
<1>4. HeldAreBound'
  BY <1>1 DEF IInv, HeldAreBound, Bound
<1>5. Converging'
  BY <1>1 DEF IInv, Converging, Settled, Still, Lost
<1>6. Counting'
  BY CountingStays DEF IInv
<1>. QED
  BY <1>1, <1>2, <1>3, <1>4, <1>5, <1>6 DEF IInv, TypeOK

LEMMA NextKeeps == IInv /\ [Next]_vars => IInv'
<1>. SUFFICES ASSUME IInv, [Next]_vars PROVE IInv'
  OBVIOUS
<1>1. CASE TaskStep
  BY <1>1, TaskStepKeeps
<1>2. CASE Call("check") \/ Call("kill")
  BY <1>2, CallKeeps
<1>3. CASE HarnessStep
  <2>1. CASE LookForTasks \/ List \/ OpenPidfd \/ Revalidate \/ ProveIdentity \/ Compare
    BY <2>1, LookForTasksKeeps, ListKeeps, OpenPidfdKeeps, RevalidateKeeps, ProveIdentityKeeps,
       CompareKeeps
  <2>2. CASE Stop \/ Restop
    BY <2>2, StopKeeps DEF Stop, Restop
  <2>3. CASE Converge \/ ReadThreads \/ ConfirmThreads \/ ConfirmPids \/ Again
    BY <2>3, ConvergeKeeps, ReadThreadsKeeps, ConfirmThreadsKeeps, ConfirmPidsKeeps, AgainKeeps
  <2>4. CASE \/ ReadStatus("status", "confirm threads")
             \/ ReadStatus("confirm status", "scan")
    BY <2>4, ReadStatusKeeps
  <2>5. CASE ScanRoot \/ Visit \/ EndScan \/ Resumed \/ Killed \/ Kill
    BY <2>5, ScanRootKeeps, VisitKeeps, EndScanKeeps, ResumedKeeps, KillKeeps
  <2>. QED
    BY <1>3, <2>1, <2>2, <2>3, <2>4, <2>5 DEF HarnessStep
<1>4. CASE ReadFails \/ Tick
  BY <1>4, ReadFailsKeeps, TickKeeps
<1>5. CASE UNCHANGED vars
  BY <1>5, StutterKeeps
<1>. QED
  BY <1>1, <1>2, <1>3, <1>4, <1>5 DEF Next

\* The strengthened invariant: numbers and pidfds agree, whoever is held stopped
\* is bound while a check suspends, and what the looks at the threads have shown
\* by then keeps every member from running while the directories are counted.
THEOREM CgroupInductive == Spec => []IInv
<1>. QED
  BY InitKeeps, NextKeeps, PTL DEF Spec

\* Every variable of the kernel's and of the harness's side keeps its type; a
\* pidfd is the only one of its number, and no bound is exceeded.
THEOREM CgroupTypeCorrect == Spec => []TypeOK
<1>1. IInv => TypeOK
  BY DEF IInv
<1>. QED
  BY <1>1, CgroupInductive, PTL

\* What a check of a probe's cgroup accepts counts every directory that is there
\* once, however the tasks moved them before they were held
\* (probe_writable_tree_within_limits).
THEOREM SnapshotsAreCoherent == Spec => []CoherentSnapshot
<1>1. IInv => CoherentSnapshot
  BY DEF IInv, Counting, CoherentSnapshot, There
<1>. QED
  BY <1>1, CgroupInductive, PTL

\* No process outside the cgroup is stopped or killed, whatever numbers are
\* reused between the reads (_open_probe_cgroup_pidfds).
THEOREM ForeignersAreUntouched == Spec => []ForeignUntouched
<1>1. IInv => ForeignUntouched
  BY DEF IInv
<1>. QED
  BY <1>1, CgroupInductive, PTL

\* An operation that returned, with whatever answer, left nothing stopped
\* (_suspend_probe_cgroup_tasks, _resume_probe_cgroup_tasks).
THEOREM NothingStaysStopped == Spec => []NothingLeftStopped
<1>1. IInv => NothingLeftStopped
  <2>. SUFFICES ASSUME IInv, pc = "idle" PROVE stopping = {} /\ running = threads
    BY DEF NothingLeftStopped
  <2>1. \A t \in Task : ~IsHeld(t)
    BY DEF IInv, HeldAreBound, Suspending
  <2>2. stopping \subseteq Task
    BY DEF IInv, TypeOK, KernelTypes, Alive
  <2>3. running = threads
    <3>1. \A t \in Task : running[t] = threads[t]
      BY <2>1 DEF IsHeld
    <3>2. DOMAIN running = Task /\ DOMAIN threads = Task
      BY DEF IInv, TypeOK, KernelTypes
    <3>3. running = [t \in Task |-> running[t]] /\ threads = [t \in Task |-> threads[t]]
      BY DEF IInv, TypeOK, KernelTypes
    <3>. QED
      BY <3>1, <3>2, <3>3
  <2>. QED
    BY <2>1, <2>2, <2>3 DEF IsHeld
<1>. QED
  BY <1>1, CgroupInductive, PTL

\* The policy a probe's first process starts under is the one the docstrings
\* promise: the filters on each machine, the rules beneath each root, the places
\* of the environment, the limits and the file system of the private directories.
THEOREM SandboxFollowsPolicy == Spec => []SandboxIsPolicy
<1>1. AsPromised
  BY NothingIsMisjudged, NothingIsMisplaced, NothingIsUnusable, NothingIsUnrestrained,
     NothingIsUnbounded DEF AsPromised
<1>2. SandboxIsPolicy
  BY <1>1 DEF SandboxIsPolicy
<1>. QED
  BY <1>2, PTL
=============================================================================
