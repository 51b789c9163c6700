---------------------------- MODULE TeLoadProofs ----------------------------
(* Proofs about TeLoad: the counts of a load are true and it keeps the right *)
(* rows, for any number of loads, files, chunk sizes and keys.               *)
EXTENDS TeLoad, FiniteSetTheorems, TLAPS

-----------------------------------------------------------------------------
(* The inductive invariant, on the locals x of a load of the file f. *)

EndOf(x) ==
    IF x.start + ChunkSize - 1 <= Len(x.survivors)
    THEN x.start + ChunkSize - 1 ELSE Len(x.survivors)

\* The survivors are different rows, among those checked.
Numbering(x) ==
    /\ \A p \in 1 .. Len(x.survivors) : x.survivors[p] \in 1 .. x.checked
    /\ \A p, q \in 1 .. Len(x.survivors) : x.survivors[p] = x.survivors[q] => p = q

ErrorsTrue(x) == x.errors = IF x.failed < MaxErrors THEN x.failed ELSE MaxErrors

\* While rows are checked each one either survives or is counted as failed.
Checking(f, x) ==
    /\ x.mine = {} /\ x.inserted = 0 /\ x.start = 1 /\ x.at = 1
    /\ x.failed + Len(x.survivors) = x.checked
    /\ x.checked <= Len(f.rows)

\* i rows inserted and f failed of r, s of them survivors: all but those from
\* position b on.
Balanced(i, f, s, r, b) == i + f + s + 1 = r + b

\* While they are inserted, the positions before base are counted: those
\* inserted are mine, the others failed.
Counted(f, x, base) ==
    /\ x.checked = Len(f.rows)
    /\ x.mine \subseteq 1 .. base - 1
    /\ base <= Len(x.survivors) + 1
    /\ Cardinality(x.mine) = x.inserted
    /\ Balanced(x.inserted, x.failed, Len(x.survivors), Len(f.rows), base)

Sound(f, x, step) ==
    /\ Numbering(x)
    /\ ErrorsTrue(x)
    /\ step \in {"idle", "validate"} => Checking(f, x)
    /\ step = "chunk" => /\ Counted(f, x, x.start)
                         /\ x.start <= x.at /\ x.at <= EndOf(x) + 1
    /\ step = "row" => Counted(f, x, x.at) /\ x.at <= EndOf(x) + 1
    /\ step \in {"register", "commit"} =>
          Counted(f, x, x.at) /\ x.at = Len(x.survivors) + 1

Landed(l) == {t \in table : t.from = l}

LoadSound(l) ==
    /\ load[l].start >= 1 /\ load[l].at >= 1
    /\ pc[l] = "done" <=> answer[l] # "none"
    /\ pc[l] # "done" => Sound(file[l], load[l], pc[l])
    /\ IF answer[l] = "ok"
       THEN Sound(file[l], load[l], "commit") /\ Landed(l) = TuplesOf(l)
       ELSE Landed(l) = {}

LoadInv == TypeOK /\ \A l \in Loads : LoadSound(l)

Positive(x) == x.start >= 1 /\ x.at >= 1

-----------------------------------------------------------------------------
(* What each statement does to the locals. *)

\* The balance n positions later, all inserted, or one position later, failed.
LEMMA Balance ==
    ASSUME NEW i \in Nat, NEW f \in Nat, NEW s \in Nat, NEW r \in Nat, NEW b \in Nat,
           Balanced(i, f, s, r, b)
    PROVE  /\ \A n \in Nat : Balanced(i + n, f, s, r, b + n)
           /\ Balanced(i, f + 1, s, r, b + 1)
  BY DEF Balanced

LEMMA EndOfType ==
    ASSUME NEW x \in Locals, Positive(x)
    PROVE  /\ EndOf(x) \in Nat
           /\ EndOf(x) <= Len(x.survivors)
           /\ x.start <= Len(x.survivors) + 1 => x.start <= EndOf(x) + 1
  BY ConstantsAssumption DEF Locals, Positive, EndOf

LEMMA PlaceType ==
    ASSUME NEW f \in File, NEW x \in Locals, Positive(x)
    PROVE  /\ EndOf(x) \in Nat /\ EndOf(x) <= Len(x.survivors) /\ Len(x.survivors) \in Nat
           /\ x.at \in Nat \ {0} /\ Len(f.rows) \in Nat /\ x.inserted \in Nat /\ x.failed \in Nat
  <1>1. EndOf(x) \in Nat /\ EndOf(x) <= Len(x.survivors)
    BY EndOfType
  <1>2. Len(x.survivors) \in Nat /\ x.inserted \in Nat /\ x.failed \in Nat
    BY DEF Locals
  <1>3. x.at \in Nat \ {0}
    BY DEF Locals, Positive
  <1>4. Len(f.rows) \in Nat
    BY DEF File
  <1> QED BY <1>1, <1>2, <1>3, <1>4

LEMMA FailType ==
    ASSUME NEW x \in Locals
    PROVE  Fail(x) \in Locals
  <1>1. x.failed + 1 \in Nat /\ (IF x.errors < MaxErrors THEN x.errors + 1 ELSE x.errors) \in Nat
    BY ConstantsAssumption DEF Locals
  <1>2. Fail(x) = [x EXCEPT !.failed = x.failed + 1,
                            !.errors = IF x.errors < MaxErrors THEN x.errors + 1 ELSE x.errors]
    BY DEF Fail
  <1> QED BY <1>1, <1>2 DEF Locals

\* The cap of the error list goes with the count.
LEMMA FailErrors ==
    ASSUME NEW x \in Locals, ErrorsTrue(x)
    PROVE  ErrorsTrue(Fail(x))
  BY ConstantsAssumption DEF Fail, Locals, ErrorsTrue

LEMMA StartSound ==
    ASSUME NEW f \in File
    PROVE  /\ NoLocals \in Locals /\ Positive(NoLocals)
           /\ Sound(f, NoLocals, "validate") /\ Sound(f, NoLocals, "idle")
  <1>1. Len(f.rows) \in Nat
    BY DEF File
  <1>2. NoLocals \in Locals /\ Positive(NoLocals)
    BY DEF NoLocals, Locals, Positive
  <1>3. Numbering(NoLocals) /\ ErrorsTrue(NoLocals) /\ Checking(f, NoLocals)
    BY <1>1, ConstantsAssumption DEF NoLocals, Numbering, ErrorsTrue, Checking
  <1> QED BY <1>2, <1>3 DEF Sound

\* A checked row survives or is counted.
LEMMA ValidateSound ==
    ASSUME NEW f \in File, NEW x \in Locals, Positive(x), Sound(f, x, "validate"),
           x.checked < Len(f.rows),
           NEW y, \/ y = Fail([x EXCEPT !.checked = x.checked + 1])
                  \/ y = [x EXCEPT !.checked = x.checked + 1,
                                   !.survivors = Append(@, x.checked + 1)]
    PROVE  y \in Locals /\ Positive(y) /\ Sound(f, y, "validate")
  <1> DEFINE n == x.checked + 1
  <1>1. n \in Nat /\ Len(f.rows) \in Nat /\ n <= Len(f.rows) /\ n \in 1 .. n
    BY DEF Locals, File
  <1>2. CASE y = Fail([x EXCEPT !.checked = n])
    <2> DEFINE z == [x EXCEPT !.checked = n]
    <2>0. z \in Locals /\ z.survivors = x.survivors /\ z.checked = n
          /\ z.errors = x.errors /\ z.failed = x.failed
      BY <1>1 DEF Locals
    <2>a. ErrorsTrue(z)
      BY <2>0 DEF Sound, ErrorsTrue
    <2>b. \A k \in 1 .. x.checked : k \in 1 .. n
      BY <1>1 DEF Locals
    <2>c. Numbering(z)
      BY <2>0, <2>b DEF Sound, Numbering
    <2>1. z \in Locals /\ ErrorsTrue(z) /\ Numbering(z)
      BY <2>0, <2>a, <2>c
    <2>2. y \in Locals /\ ErrorsTrue(y)
      BY <2>1, <1>2, FailType, FailErrors
    <2>3. /\ y.survivors = x.survivors /\ y.checked = n /\ y.failed = x.failed + 1
          /\ y.mine = x.mine /\ y.inserted = x.inserted /\ y.start = x.start /\ y.at = x.at
      BY <1>2 DEF Fail, Locals
    <2>4. Numbering(y)
      BY <2>1, <2>3 DEF Numbering
    <2>5. Checking(f, y)
      BY <1>1, <2>3 DEF Sound, Checking, Locals
    <2> QED BY <2>2, <2>3, <2>4, <2>5 DEF Sound, Positive
  <1>3. CASE y = [x EXCEPT !.checked = n, !.survivors = Append(@, n)]
    <2>1. /\ y.survivors = Append(x.survivors, n) /\ y.checked = n /\ y.failed = x.failed
          /\ y.mine = x.mine /\ y.inserted = x.inserted /\ y.start = x.start /\ y.at = x.at
          /\ y.errors = x.errors
      BY <1>3 DEF Locals
    <2>a. Append(x.survivors, n) \in Seq(Nat)
      BY <1>1 DEF Locals
    <2>2. y \in Locals
      BY <1>1, <1>3, <2>a DEF Locals
    <2>3. /\ Len(y.survivors) = Len(x.survivors) + 1
          /\ \A p \in 1 .. Len(x.survivors) : y.survivors[p] = x.survivors[p]
          /\ y.survivors[Len(x.survivors) + 1] = n
      BY <1>1, <2>1 DEF Locals
    <2>4. \A p \in 1 .. Len(y.survivors) :
             p = Len(x.survivors) + 1 \/ p \in 1 .. Len(x.survivors)
      BY <2>3 DEF Locals
    <2>5. \A p \in 1 .. Len(x.survivors) :
             y.survivors[p] \in 1 .. x.checked /\ y.survivors[p] # n /\ y.survivors[p] \in 1 .. n
      <3>1. \A p \in 1 .. Len(x.survivors) : x.survivors[p] \in 1 .. x.checked
        BY DEF Sound, Numbering
      <3>2. \A k \in 1 .. x.checked : k # n /\ k \in 1 .. n
        BY <1>1 DEF Locals
      <3> HIDE DEF n
      <3> QED BY <2>3, <3>1, <3>2
    <2>6. \A p \in 1 .. Len(y.survivors) : y.survivors[p] \in 1 .. y.checked
      BY <2>1, <2>3, <2>4, <2>5, <1>1
    <2>7. \A p, q \in 1 .. Len(y.survivors) : y.survivors[p] = y.survivors[q] => p = q
      BY <2>3, <2>4, <2>5 DEF Sound, Numbering
    <2>8. Numbering(y) /\ ErrorsTrue(y)
      BY <2>1, <2>6, <2>7 DEF Numbering, ErrorsTrue, Sound
    <2>9. Checking(f, y)
      BY <1>1, <2>1, <2>3 DEF Sound, Checking, Locals
    <2> QED BY <2>1, <2>2, <2>8, <2>9 DEF Sound, Positive
  <1> QED BY <1>2, <1>3

\* The loop goes on at a chunk or ends, with the same counts.
LEMMA NextChunkSound ==
    ASSUME NEW f \in File, NEW x \in Locals, Positive(x),
           Numbering(x), ErrorsTrue(x), Counted(f, x, x.at),
           NEW y, y = [x EXCEPT !.start = x.at]
    PROVE  /\ y \in Locals /\ Positive(y)
           /\ x.at <= Len(x.survivors) => Sound(f, y, "chunk")
           /\ ~(x.at <= Len(x.survivors)) => Sound(f, y, "register")
  <1>1. /\ y \in Locals /\ Positive(y)
        /\ y.survivors = x.survivors /\ y.checked = x.checked /\ y.failed = x.failed
        /\ y.mine = x.mine /\ y.inserted = x.inserted /\ y.start = x.at /\ y.at = x.at
        /\ y.errors = x.errors
    BY DEF Locals, Positive
  <1>2. Numbering(y) /\ ErrorsTrue(y) /\ Counted(f, y, y.at) /\ y.start = y.at
    BY <1>1 DEF Numbering, ErrorsTrue, Counted
  <1>3. EndOf(y) \in Nat /\ y.at <= EndOf(y) + 1 /\ Len(x.survivors) \in Nat
    <2>1. Len(x.survivors) \in Nat /\ x.at \in Nat
      BY DEF Locals
    <2>2. x.at <= Len(x.survivors) + 1
      BY DEF Counted
    <2> QED BY <1>1, <2>1, <2>2, EndOfType
  <1>4. x.at <= Len(x.survivors) => Sound(f, y, "chunk")
    BY <1>1, <1>2, <1>3 DEF Sound, Locals
  <1>5. ~(x.at <= Len(x.survivors)) => Sound(f, y, "register")
    <2>1. x.at <= Len(x.survivors) + 1
      BY DEF Counted
    <2> QED BY <1>1, <1>2, <1>3, <2>1 DEF Sound, Locals
  <1> QED BY <1>1, <1>4, <1>5

\* A tuple inserted in a chunk is counted when the chunk is released.
LEMMA ChunkTupleSound ==
    ASSUME NEW f \in File, NEW x \in Locals, Positive(x), Sound(f, x, "chunk"),
           x.at <= EndOf(x), NEW y, y = [x EXCEPT !.at = x.at + 1]
    PROVE  y \in Locals /\ Positive(y) /\ Sound(f, y, "chunk")
  <1>1. /\ y \in Locals /\ Positive(y)
        /\ y.survivors = x.survivors /\ y.checked = x.checked /\ y.failed = x.failed
        /\ y.mine = x.mine /\ y.inserted = x.inserted /\ y.start = x.start
        /\ y.at = x.at + 1 /\ y.errors = x.errors
    <2>1. x.at + 1 \in Nat /\ x.at + 1 >= 1
      BY DEF Locals
    <2> QED BY <2>1 DEF Locals, Positive
  <1>2. Numbering(y) /\ ErrorsTrue(y) /\ Counted(f, y, y.start) /\ EndOf(y) = EndOf(x)
    BY <1>1 DEF Sound, Numbering, ErrorsTrue, Counted, EndOf
  <1>3. EndOf(x) \in Nat /\ x.at \in Nat /\ x.start \in Nat /\ x.start <= x.at
    <2>1. x.at \in Nat /\ x.start \in Nat
      BY DEF Locals
    <2> QED BY <2>1, EndOfType DEF Sound
  <1>4. y.start <= y.at /\ y.at <= EndOf(y) + 1
    BY <1>1, <1>2, <1>3
  <1> QED BY <1>1, <1>2, <1>4 DEF Sound

\* A row inserted on its own is counted at once.
LEMMA RowTupleSound ==
    ASSUME NEW f \in File, NEW x \in Locals, Positive(x), Sound(f, x, "row"),
           x.at <= EndOf(x),
           NEW y, y = [x EXCEPT !.mine = x.mine \cup {x.at}, !.at = x.at + 1,
                                !.inserted = x.inserted + 1]
    PROVE  y \in Locals /\ Positive(y) /\ Sound(f, y, "row")
  <1>1. /\ y \in Locals /\ Positive(y)
        /\ y.survivors = x.survivors /\ y.checked = x.checked /\ y.failed = x.failed
        /\ y.mine = x.mine \cup {x.at} /\ y.inserted = x.inserted + 1 /\ y.start = x.start
        /\ y.at = x.at + 1 /\ y.errors = x.errors
    <2>1. /\ x.at + 1 \in Nat /\ x.at + 1 >= 1 /\ x.inserted + 1 \in Nat
          /\ x.mine \cup {x.at} \in SUBSET Nat
      BY DEF Locals
    <2> QED BY <2>1 DEF Locals, Positive
  <1>2. Numbering(y) /\ ErrorsTrue(y) /\ EndOf(y) = EndOf(x)
    BY <1>1 DEF Sound, Numbering, ErrorsTrue, EndOf
  <1>3. /\ EndOf(x) \in Nat /\ EndOf(x) <= Len(x.survivors) /\ Len(x.survivors) \in Nat
        /\ x.at \in Nat \ {0} /\ Len(f.rows) \in Nat /\ x.inserted \in Nat /\ x.failed \in Nat
    BY PlaceType
  <1>4. Counted(f, x, x.at)
    BY DEF Sound
  <1>5. x.at \notin x.mine /\ IsFiniteSet(x.mine) /\ x.mine \cup {x.at} \subseteq 1 .. x.at
    <2>1. x.mine \subseteq 1 .. x.at - 1
      BY <1>4 DEF Counted
    <2>2. 1 .. x.at - 1 \subseteq 1 .. x.at /\ x.at \in 1 .. x.at /\ x.at \notin 1 .. x.at - 1
      BY <1>3
    <2>a. 1 \in Int /\ x.at \in Int
      BY <1>3
    <2>3. IsFiniteSet(1 .. x.at)
      BY <2>a, FS_Interval
    <2>4. x.mine \in SUBSET (1 .. x.at)
      BY <2>1, <2>2
    <2> QED BY <2>1, <2>2, <2>3, <2>4, FS_Subset
  <1>6. Cardinality(y.mine) = y.inserted
    BY <1>1, <1>4, <1>5, FS_AddElement DEF Counted
  <1>7. Counted(f, y, y.at)
    <2>1. y.at - 1 = x.at /\ y.at <= Len(y.survivors) + 1
      BY <1>1, <1>3
    <2>2. y.mine \subseteq 1 .. y.at - 1 /\ y.checked = Len(f.rows)
      BY <1>1, <1>4, <1>5, <2>1 DEF Counted
    <2>3. Balanced(x.inserted + 1, x.failed, Len(x.survivors), Len(f.rows), x.at + 1)
      <3>1. Balanced(x.inserted, x.failed, Len(x.survivors), Len(f.rows), x.at)
        BY <1>4 DEF Counted
      <3> QED BY <1>3, <3>1, Balance
    <2>4. Balanced(y.inserted, y.failed, Len(y.survivors), Len(f.rows), y.at)
      BY <1>1, <2>3
    <2> QED BY <1>6, <2>1, <2>2, <2>4 DEF Counted
  <1>8. y.at <= EndOf(y) + 1
    BY <1>1, <1>2, <1>3
  <1> QED BY <1>1, <1>2, <1>7, <1>8 DEF Sound

\* A row refused on its own is counted as failed.
LEMMA RowFailedSound ==
    ASSUME NEW f \in File, NEW x \in Locals, Positive(x), Sound(f, x, "row"),
           x.at <= EndOf(x), NEW y, y = [Fail(x) EXCEPT !.at = x.at + 1]
    PROVE  y \in Locals /\ Positive(y) /\ Sound(f, y, "row")
  <1>1. Fail(x) \in Locals /\ ErrorsTrue(Fail(x))
    BY FailType, FailErrors DEF Sound
  <1>2. /\ Fail(x).survivors = x.survivors /\ Fail(x).checked = x.checked
        /\ Fail(x).failed = x.failed + 1 /\ Fail(x).mine = x.mine
        /\ Fail(x).inserted = x.inserted /\ Fail(x).start = x.start /\ Fail(x).at = x.at
    BY DEF Fail, Locals
  <1>3. /\ y \in Locals
        /\ y.survivors = x.survivors /\ y.checked = x.checked
        /\ y.failed = x.failed + 1 /\ y.mine = x.mine
        /\ y.inserted = x.inserted /\ y.start = x.start /\ y.at = x.at + 1
        /\ y.errors = Fail(x).errors
    <2>1. x.at + 1 \in Nat
      BY DEF Locals
    <2> HIDE DEF Fail
    <2> QED BY <1>1, <1>2, <2>1 DEF Locals
  <1>4. Numbering(y) /\ ErrorsTrue(y) /\ EndOf(y) = EndOf(x)
    BY <1>1, <1>2, <1>3 DEF Sound, Numbering, ErrorsTrue, EndOf
  <1>5. /\ EndOf(x) \in Nat /\ EndOf(x) <= Len(x.survivors) /\ Len(x.survivors) \in Nat
        /\ x.at \in Nat \ {0} /\ Len(f.rows) \in Nat /\ x.inserted \in Nat /\ x.failed \in Nat
    BY PlaceType
  <1>6. Counted(f, y, y.at)
    <2>1. Counted(f, x, x.at)
      BY DEF Sound
    <2>2. y.at <= Len(y.survivors) + 1 /\ 1 .. x.at - 1 \subseteq 1 .. y.at - 1
      BY <1>3, <1>5
    <2>3. Balanced(x.inserted, x.failed + 1, Len(x.survivors), Len(f.rows), x.at + 1)
      <3>1. Balanced(x.inserted, x.failed, Len(x.survivors), Len(f.rows), x.at)
        BY <2>1 DEF Counted
      <3> QED BY <1>5, <3>1, Balance
    <2>4. Balanced(y.inserted, y.failed, Len(y.survivors), Len(f.rows), y.at)
      BY <1>3, <2>3
    <2> QED BY <1>3, <2>1, <2>2, <2>4 DEF Counted
  <1>7. y.at <= EndOf(y) + 1 /\ Positive(y)
    BY <1>3, <1>4, <1>5 DEF Positive
  <1> QED BY <1>3, <1>4, <1>6, <1>7 DEF Sound

\* A refused chunk is gone over from its start, with the counts it began with.
LEMMA FallBackSound ==
    ASSUME NEW f \in File, NEW x \in Locals, Positive(x), Sound(f, x, "chunk"),
           NEW y, y = [x EXCEPT !.at = x.start]
    PROVE  y \in Locals /\ Positive(y) /\ Sound(f, y, "row")
  <1>1. /\ y \in Locals /\ Positive(y)
        /\ y.survivors = x.survivors /\ y.checked = x.checked /\ y.failed = x.failed
        /\ y.mine = x.mine /\ y.inserted = x.inserted /\ y.start = x.start
        /\ y.at = x.start /\ y.errors = x.errors
    BY DEF Locals, Positive
  <1>2. Numbering(y) /\ ErrorsTrue(y) /\ Counted(f, y, y.at) /\ EndOf(y) = EndOf(x)
    BY <1>1 DEF Sound, Numbering, ErrorsTrue, Counted, EndOf
  <1>3. EndOf(x) \in Nat /\ x.at \in Nat /\ x.start \in Nat
    BY EndOfType DEF Locals
  <1>4. y.at <= EndOf(y) + 1
    BY <1>1, <1>2, <1>3 DEF Sound
  <1> QED BY <1>1, <1>2, <1>4 DEF Sound

\* Released, the tuples of a chunk are counted together.
LEMMA ReleaseSound ==
    ASSUME NEW f \in File, NEW x \in Locals, Positive(x), Sound(f, x, "chunk"),
           NEW y, y = [x EXCEPT !.mine = x.mine \cup (x.start .. x.at - 1),
                                !.inserted = x.inserted + (x.at - x.start)]
    PROVE  /\ y \in Locals /\ Positive(y) /\ Numbering(y) /\ ErrorsTrue(y)
           /\ Counted(f, y, y.at)
  <1> DEFINE chunk == x.start .. x.at - 1
  <1>1. /\ EndOf(x) \in Nat /\ EndOf(x) <= Len(x.survivors) /\ Len(x.survivors) \in Nat
        /\ x.at \in Nat /\ x.start \in Nat /\ x.start >= 1 /\ x.start <= x.at
        /\ x.at <= Len(x.survivors) + 1
        /\ Len(f.rows) \in Nat /\ x.inserted \in Nat /\ x.failed \in Nat
    <2>1. x.start \in Nat /\ x.start >= 1
      BY DEF Locals, Positive
    <2>2. x.start <= x.at /\ x.at <= EndOf(x) + 1
      BY DEF Sound
    <2> QED BY <2>1, <2>2, PlaceType
  <1>2. x.at - x.start \in Nat /\ chunk \subseteq Nat
    BY <1>1
  <1>3. /\ y \in Locals /\ Positive(y)
        /\ y.survivors = x.survivors /\ y.checked = x.checked /\ y.failed = x.failed
        /\ y.mine = x.mine \cup chunk /\ y.inserted = x.inserted + (x.at - x.start)
        /\ y.start = x.start /\ y.at = x.at /\ y.errors = x.errors
    <2>1. x.mine \cup chunk \in SUBSET Nat /\ x.inserted + (x.at - x.start) \in Nat
      BY <1>1, <1>2 DEF Locals
    <2> HIDE DEF chunk
    <2> QED BY <2>1 DEF Locals, Positive, chunk
  <1>4. Numbering(y) /\ ErrorsTrue(y)
    BY <1>3 DEF Sound, Numbering, ErrorsTrue
  <1>5. Counted(f, x, x.start)
    BY DEF Sound
  <1>6. IsFiniteSet(x.mine) /\ x.mine \cap chunk = {} /\ x.mine \cup chunk \subseteq 1 .. x.at - 1
    <2>1. x.mine \subseteq 1 .. x.start - 1
      BY <1>5 DEF Counted
    <2>2. /\ 1 .. x.start - 1 \subseteq 1 .. x.at - 1 /\ chunk \subseteq 1 .. x.at - 1
          /\ (1 .. x.start - 1) \cap chunk = {}
      BY <1>1
    <2>a. 1 \in Int /\ x.at - 1 \in Int
      BY <1>1
    <2>3. IsFiniteSet(1 .. x.at - 1)
      BY <2>a, FS_Interval
    <2>4. x.mine \in SUBSET (1 .. x.at - 1)
      BY <2>1, <2>2
    <2> HIDE DEF chunk
    <2> QED BY <2>1, <2>2, <2>3, <2>4, FS_Subset
  <1>7. IsFiniteSet(chunk) /\ Cardinality(chunk) = x.at - x.start
    <2>1. x.start \in Int /\ x.at - 1 \in Int
      BY <1>1
    <2>2. /\ IsFiniteSet(chunk)
          /\ Cardinality(chunk) = IF x.start > x.at - 1 THEN 0 ELSE (x.at - 1) - x.start + 1
      BY <2>1, FS_Interval
    <2> HIDE DEF chunk
    <2> QED BY <1>1, <2>2
  <1>8. Cardinality(y.mine) = y.inserted
    <2> HIDE DEF chunk
    <2>1. Cardinality(x.mine \cup chunk) = Cardinality(x.mine) + Cardinality(chunk)
          - Cardinality(x.mine \cap chunk)
      BY <1>6, <1>7, FS_Union
    <2>2. Cardinality(x.mine \cap chunk) = 0
      BY <1>6, FS_EmptySet
    <2>3. Cardinality(x.mine) = x.inserted
      BY <1>5 DEF Counted
    <2>4. Cardinality(x.mine \cup chunk) = x.inserted + (x.at - x.start)
      <3>1. \A c \in Nat : c + (x.at - x.start) - 0 = c + (x.at - x.start)
        BY <1>2
      <3> QED BY <1>1, <1>7, <2>1, <2>2, <2>3, <3>1
    <2> QED BY <1>3, <2>4
  <1>9. Counted(f, y, y.at)
    <2>1. Balanced(y.inserted, y.failed, Len(y.survivors), Len(f.rows), y.at)
      <3>1. Balanced(x.inserted, x.failed, Len(x.survivors), Len(f.rows), x.start)
        BY <1>5 DEF Counted
      <3>2. Balanced(x.inserted + (x.at - x.start), x.failed, Len(x.survivors), Len(f.rows),
                     x.start + (x.at - x.start))
        BY <1>1, <1>2, <3>1, Balance
      <3>3. x.start + (x.at - x.start) = x.at
        BY <1>1
      <3> QED BY <1>3, <3>2, <3>3
    <2> QED BY <1>1, <1>3, <1>5, <1>6, <1>8, <2>1 DEF Counted
  <1> QED BY <1>3, <1>4, <1>9

-----------------------------------------------------------------------------
(* What each action does to the invariant. *)

LEMMA FileType ==
    ASSUME TypeOK, NEW l \in Loads
    PROVE  /\ file[l] \in File /\ load[l] \in Locals
           /\ Len(RowsOf(l)) \in Nat /\ Len(load[l].survivors) \in Nat
  BY ConstantsAssumption DEF TypeOK, File, Locals, RowsOf

\* What a load leaves alone stays sound.
LEMMA Frame ==
    ASSUME NEW q \in Loads, LoadSound(q), Landed(q)' = Landed(q),
           file' = file, pc'[q] = pc[q], load'[q] = load[q], answer'[q] = answer[q]
    PROVE  LoadSound(q)'
  <1>1. TuplesOf(q)' = TuplesOf(q)
    BY DEF TuplesOf, RowAt, RowsOf
  <1> QED BY <1>1 DEF LoadSound

LEMMA InitSound == Init => LoadInv
  <1> SUFFICES ASSUME Init PROVE LoadInv
    OBVIOUS
  <1>1. NoLocals \in Locals
    BY DEF NoLocals, Locals
  <1>2. TypeOK
    <2>1. table \in SUBSET Tuple
      BY DEF Init, Tuple
    <2> QED BY <1>1, <2>1 DEF Init, TypeOK, Steps, Answers
  <1>3. ASSUME NEW l \in Loads PROVE LoadSound(l)
    <2>1. file[l] \in File
      BY <1>2, FileType
    <2>2. Landed(l) = {}
      BY ConstantsAssumption DEF Init, Landed
    <2>3. Sound(file[l], NoLocals, "idle") /\ Positive(NoLocals)
      BY <2>1, StartSound
    <2> QED BY <2>2, <2>3 DEF Init, LoadSound, Positive
  <1> QED BY <1>2, <1>3 DEF LoadInv

\* A load moves on inside its transaction.
LEMMA SetStep ==
    ASSUME LoadInv, NEW l \in Loads, NEW y \in Locals, NEW step \in Steps \ {"done"},
           pc[l] # "done", Set(l, y, step), Positive(y), Sound(file[l], y, step)
    PROVE  LoadInv'
  <1>1. TypeOK'
    BY DEF LoadInv, TypeOK, Set
  <1>2. /\ pc'[l] = step /\ load'[l] = y /\ answer' = answer /\ file' = file
        /\ answer[l] = "none"
        /\ \A q \in Loads \ {l} : pc'[q] = pc[q] /\ load'[q] = load[q]
    BY DEF LoadInv, LoadSound, TypeOK, Set
  <1>3. \A q \in Loads : Landed(q)' = Landed(q)
    BY DEF Set, Landed
  <1>4. LoadSound(l)'
    BY <1>2, <1>3 DEF LoadSound, Positive, LoadInv
  <1>5. ASSUME NEW q \in Loads \ {l} PROVE LoadSound(q)'
    BY <1>2, <1>3, Frame DEF LoadInv
  <1> QED BY <1>1, <1>4, <1>5 DEF LoadInv

\* A load that is rolled back has nothing in the table.
LEMMA GiveUpStep ==
    ASSUME LoadInv, NEW l \in Loads, NEW told \in Answers \ {"none", "ok"},
           pc[l] # "done", GiveUp(l, told)
    PROVE  LoadInv'
  <1>0. load[l] \in Locals
    BY FileType DEF LoadInv
  <1>1. TypeOK'
    <2>1. [load[l] EXCEPT !.mine = {}] \in Locals
      BY <1>0 DEF Locals
    <2> QED BY <2>1 DEF LoadInv, TypeOK, GiveUp, Steps
  <1>2. /\ pc'[l] = "done" /\ load'[l] = [load[l] EXCEPT !.mine = {}]
        /\ answer'[l] = told /\ file' = file
        /\ answer[l] = "none"
        /\ \A q \in Loads \ {l} :
              pc'[q] = pc[q] /\ load'[q] = load[q] /\ answer'[q] = answer[q]
    BY DEF LoadInv, LoadSound, TypeOK, GiveUp
  <1>3. \A q \in Loads : Landed(q)' = Landed(q)
    BY DEF GiveUp, Landed
  <1>4. LoadSound(l)'
    <2>1. Landed(l) = {} /\ load[l].start >= 1 /\ load[l].at >= 1
      BY <1>2 DEF LoadInv, LoadSound
    <2>2. load'[l].start >= 1 /\ load'[l].at >= 1
      BY <1>0, <1>2, <2>1 DEF Locals
    <2> QED BY <1>2, <1>3, <2>1, <2>2 DEF LoadSound
  <1>5. ASSUME NEW q \in Loads \ {l} PROVE LoadSound(q)'
    BY <1>2, <1>3, Frame DEF LoadInv
  <1> QED BY <1>1, <1>4, <1>5 DEF LoadInv

\* The positions a load keeps are survivors, and their rows are rows of its file.
LEMMA TuplesType ==
    ASSUME TypeOK, NEW l \in Loads, Sound(file[l], load[l], "commit")
    PROVE  /\ load[l].mine \subseteq 1 .. Len(load[l].survivors)
           /\ TuplesOf(l) \subseteq Tuple
  <1>1. load[l] \in Locals /\ file[l] \in File
    BY FileType
  <1>2. load[l].mine \subseteq 1 .. Len(load[l].survivors)
    <2>1. /\ load[l].mine \subseteq 1 .. load[l].at - 1
          /\ load[l].at = Len(load[l].survivors) + 1
      BY DEF Sound, Counted
    <2> QED BY <1>1, <2>1 DEF Locals
  <1>3. ASSUME NEW p \in load[l].mine
        PROVE  load[l].survivors[p] \in 1 .. Len(RowsOf(l)) /\ load[l].survivors[p] \in Nat
    BY <1>1, <1>2 DEF Sound, Counted, Numbering, RowsOf, File
  <1>4. ASSUME NEW p \in load[l].mine PROVE RowAt(l, p).key \in Keys \cup {None}
    <2>1. RowsOf(l) \in Seq(Row)
      BY <1>1 DEF File, RowsOf
    <2>2. RowAt(l, p) \in Row
      BY <1>3, <2>1 DEF RowAt
    <2> QED BY <2>2 DEF Row
  <1> QED BY <1>2, <1>3, <1>4 DEF TuplesOf, Tuple

LEMMA CommitStep ==
    ASSUME LoadInv, NEW l \in Loads, Commit(l)
    PROVE  LoadInv'
  <1>1. Sound(file[l], load[l], "commit") /\ answer[l] = "none" /\ Landed(l) = {}
    BY DEF LoadInv, LoadSound, Commit
  <1>2. TuplesOf(l) \subseteq Tuple
    BY <1>1, TuplesType DEF LoadInv
  <1>3. TypeOK'
    BY <1>2 DEF LoadInv, TypeOK, Commit, Steps, Answers
  <1>4. /\ pc'[l] = "done" /\ load' = load /\ answer'[l] = "ok" /\ file' = file
        /\ table' = table \cup TuplesOf(l)
        /\ \A q \in Loads \ {l} : pc'[q] = pc[q] /\ answer'[q] = answer[q]
    BY DEF LoadInv, TypeOK, Commit
  <1>5. \A t \in TuplesOf(l) : t.from = l
    BY DEF TuplesOf
  <1>6. Landed(l)' = TuplesOf(l) /\ \A q \in Loads \ {l} : Landed(q)' = Landed(q)
    BY <1>1, <1>4, <1>5 DEF Landed
  <1>7. LoadSound(l)'
    <2>1. TuplesOf(l)' = TuplesOf(l)
      BY <1>4 DEF TuplesOf, RowAt, RowsOf
    <2> QED BY <1>1, <1>4, <1>6, <2>1 DEF LoadSound, LoadInv
  <1>8. ASSUME NEW q \in Loads \ {l} PROVE LoadSound(q)'
    BY <1>4, <1>6, Frame DEF LoadInv
  <1> QED BY <1>3, <1>7, <1>8 DEF LoadInv

\* The loop over chunks goes on with sound counts.
LEMMA NextChunkStep ==
    ASSUME LoadInv, NEW l \in Loads, NEW x \in Locals, Positive(x), pc[l] # "done",
           Numbering(x), ErrorsTrue(x), Counted(file[l], x, x.at), NextChunk(l, x)
    PROVE  LoadInv'
  <1> DEFINE y == [x EXCEPT !.start = x.at]
             step == IF x.at <= Len(x.survivors) THEN "chunk" ELSE "register"
  <1>1. file[l] \in File
    BY FileType DEF LoadInv
  <1>2. y \in Locals /\ Positive(y) /\ Sound(file[l], y, step)
    BY <1>1, NextChunkSound
  <1>3. Set(l, y, step) /\ step \in Steps \ {"done"}
    BY DEF NextChunk, Steps
  <1> HIDE DEF y, step
  <1> QED BY <1>2, <1>3, SetStep

LEMMA RollbackStep ==
    ASSUME LoadInv, NEW l \in Loads, Inserting(l), RollbackToSavepoint(l)
    PROVE  LoadInv'
  <1>1. /\ file[l] \in File /\ load[l] \in Locals /\ Positive(load[l])
        /\ pc[l] \in {"chunk", "row"} /\ Sound(file[l], load[l], pc[l])
        /\ load[l].at <= EndOf(load[l])
    BY FileType DEF LoadInv, LoadSound, Positive, Inserting, ChunkEnd, Left, EndOf
  <1>2. CASE pc[l] = "chunk"
    <2> DEFINE y == [load[l] EXCEPT !.at = load[l].start]
    <2>1. y \in Locals /\ Positive(y) /\ Sound(file[l], y, "row")
      BY <1>1, <1>2, FallBackSound
    <2>2. Set(l, y, "row")
      BY <1>2 DEF RollbackToSavepoint
    <2> HIDE DEF y
    <2> QED BY <1>2, <2>1, <2>2, SetStep DEF Steps
  <1>3. CASE pc[l] = "row"
    <2> DEFINE y == [Fail(load[l]) EXCEPT !.at = load[l].at + 1]
    <2>1. y \in Locals /\ Positive(y) /\ Sound(file[l], y, "row")
      BY <1>1, <1>3, RowFailedSound
    <2>2. Set(l, y, "row")
      <3>1. Fail(load[l]).at = load[l].at
        BY <1>1 DEF Fail, Locals
      <3> QED BY <1>3, <3>1 DEF RollbackToSavepoint
    <2> HIDE DEF y
    <2> QED BY <1>3, <2>1, <2>2, SetStep DEF Steps
  <1> QED BY <1>1, <1>2, <1>3

LEMMA InsertStep ==
    ASSUME LoadInv, NEW l \in Loads, InsertTuple(l)
    PROVE  LoadInv'
  <1>1. /\ file[l] \in File /\ load[l] \in Locals /\ Positive(load[l])
        /\ pc[l] \in {"chunk", "row"} /\ Sound(file[l], load[l], pc[l])
        /\ load[l].at <= EndOf(load[l])
    BY FileType DEF LoadInv, LoadSound, Positive, InsertTuple, Inserting, ChunkEnd, Left, EndOf
  <1>2. CASE pc[l] = "chunk"
    <2> DEFINE y == [load[l] EXCEPT !.at = load[l].at + 1]
    <2>1. y \in Locals /\ Positive(y) /\ Sound(file[l], y, "chunk")
      BY <1>1, <1>2, ChunkTupleSound
    <2>2. Set(l, y, "chunk")
      BY <1>2 DEF InsertTuple
    <2> HIDE DEF y
    <2> QED BY <1>2, <2>1, <2>2, SetStep DEF Steps
  <1>3. CASE pc[l] = "row"
    <2> DEFINE y == [load[l] EXCEPT !.mine = load[l].mine \cup {load[l].at},
                                    !.at = load[l].at + 1, !.inserted = load[l].inserted + 1]
    <2>1. y \in Locals /\ Positive(y) /\ Sound(file[l], y, "row")
      BY <1>1, <1>3, RowTupleSound
    <2>2. Set(l, y, "row")
      BY <1>3 DEF InsertTuple
    <2> HIDE DEF y
    <2> QED BY <1>3, <2>1, <2>2, SetStep DEF Steps
  <1> QED BY <1>1, <1>2, <1>3

LEMMA ValidateStep ==
    ASSUME LoadInv, NEW l \in Loads, ValidateRow(l)
    PROVE  LoadInv'
  <1> DEFINE n == load[l].checked + 1
             failed == Fail([load[l] EXCEPT !.checked = n])
             kept == [load[l] EXCEPT !.checked = n, !.survivors = Append(@, n)]
             y == IF RowsOf(l)[n].kind \in {"wide", "mistyped"} THEN failed ELSE kept
  <1>1. /\ file[l] \in File /\ load[l] \in Locals /\ Positive(load[l])
        /\ pc[l] = "validate" /\ Sound(file[l], load[l], "validate")
        /\ load[l].checked < Len(file[l].rows)
    BY FileType DEF LoadInv, LoadSound, Positive, ValidateRow, RowsOf
  <1>2. y = failed \/ y = kept
    OBVIOUS
  <1>3. y \in Locals /\ Positive(y) /\ Sound(file[l], y, "validate")
    <2>1. \A z : z = failed \/ z = kept =>
             z \in Locals /\ Positive(z) /\ Sound(file[l], z, "validate")
      BY <1>1, ValidateSound
    <2> HIDE DEF y, failed, kept
    <2> QED BY <1>2, <2>1
  <1>4. Set(l, y, "validate")
    <2>1. load[l].survivors = [load[l] EXCEPT !.checked = n].survivors
      BY <1>1 DEF Locals
    <2>2. [[load[l] EXCEPT !.checked = n] EXCEPT !.survivors = Append(@, n)] = kept
      BY <1>1 DEF Locals
    <2> QED BY <2>1, <2>2 DEF ValidateRow
  <1> HIDE DEF y
  <1> QED BY <1>1, <1>3, <1>4, SetStep DEF Steps

LEMMA EndChunkStep ==
    ASSUME LoadInv, NEW l \in Loads, EndChunk(l)
    PROVE  LoadInv'
  <1>1. /\ file[l] \in File /\ load[l] \in Locals /\ Positive(load[l])
        /\ pc[l] \in {"chunk", "row"} /\ Sound(file[l], load[l], pc[l])
    BY FileType DEF LoadInv, LoadSound, Positive, EndChunk
  <1>2. CASE pc[l] = "chunk"
    <2> DEFINE x == load[l]
               y == [x EXCEPT !.mine = x.mine \cup (x.start .. x.at - 1),
                              !.inserted = x.inserted + (x.at - x.start)]
    <2>1. y \in Locals /\ Positive(y) /\ Numbering(y) /\ ErrorsTrue(y)
          /\ Counted(file[l], y, y.at)
      BY <1>1, <1>2, ReleaseSound
    <2>2. NextChunk(l, y)
      BY <1>2 DEF EndChunk, Pending
    <2> HIDE DEF y
    <2> QED BY <1>2, <2>1, <2>2, NextChunkStep
  <1>3. CASE pc[l] = "row"
    <2>1. Numbering(load[l]) /\ ErrorsTrue(load[l]) /\ Counted(file[l], load[l], load[l].at)
      BY <1>1, <1>3 DEF Sound
    <2>2. NextChunk(l, load[l])
      BY <1>3 DEF EndChunk
    <2> QED BY <1>1, <1>3, <2>1, <2>2, NextChunkStep
  <1> QED BY <1>1, <1>2, <1>3

LEMMA EndValidationStep ==
    ASSUME LoadInv, NEW l \in Loads, EndValidation(l)
    PROVE  LoadInv'
  <1>1. /\ file[l] \in File /\ load[l] \in Locals /\ Positive(load[l])
        /\ pc[l] = "validate" /\ Sound(file[l], load[l], "validate")
        /\ load[l].checked = Len(file[l].rows)
    BY FileType DEF LoadInv, LoadSound, Positive, EndValidation, RowsOf
  <1>2. Counted(file[l], load[l], load[l].at)
    <2> DEFINE x == load[l]
    <2>1. /\ x.mine = {} /\ x.inserted = 0 /\ x.at = 1
          /\ x.failed + Len(x.survivors) = x.checked
      BY <1>1 DEF Sound, Checking
    <2>2. Len(x.survivors) \in Nat /\ x.failed \in Nat /\ Len(file[l].rows) \in Nat
      BY <1>1 DEF Locals, File
    <2>3. Cardinality(x.mine) = 0
      BY <2>1, FS_EmptySet
    <2>4. Balanced(0, x.failed, Len(x.survivors), Len(file[l].rows), 1)
      BY <1>1, <2>1, <2>2 DEF Balanced
    <2>5. x.at <= Len(x.survivors) + 1
      BY <2>1, <2>2
    <2> QED BY <1>1, <2>1, <2>3, <2>4, <2>5 DEF Counted
  <1>3. Numbering(load[l]) /\ ErrorsTrue(load[l])
    BY <1>1 DEF Sound
  <1> QED BY <1>1, <1>2, <1>3, NextChunkStep DEF EndValidation

LEMMA StepSound == LoadInv /\ [Next]_vars => LoadInv'
  <1> SUFFICES ASSUME LoadInv, [Next]_vars PROVE LoadInv'
    OBVIOUS
  <1>1. ASSUME NEW l \in Loads, RefuseFile(l) PROVE LoadInv'
    <2>1. GiveUp(l, "invalid_structure") \/ GiveUp(l, "error")
      BY <1>1 DEF RefuseFile
    <2> QED BY <1>1, <2>1, GiveUpStep DEF RefuseFile, Answers
  <1>2. ASSUME NEW l \in Loads, Begin(l) PROVE LoadInv'
    <2>1. NoLocals \in Locals /\ Positive(NoLocals) /\ Sound(file[l], NoLocals, "validate")
      BY FileType, StartSound DEF LoadInv
    <2> QED BY <1>2, <2>1, SetStep DEF Begin, Steps
  <1>3. ASSUME NEW l \in Loads, ValidateRow(l) PROVE LoadInv'
    BY <1>3, ValidateStep
  <1>4. ASSUME NEW l \in Loads, EndValidation(l) PROVE LoadInv'
    BY <1>4, EndValidationStep
  <1>5. ASSUME NEW l \in Loads, InsertTuple(l) PROVE LoadInv'
    BY <1>5, InsertStep
  <1>6. ASSUME NEW l \in Loads, TupleRefused(l) PROVE LoadInv'
    BY <1>6, RollbackStep DEF TupleRefused
  <1>7. ASSUME NEW l \in Loads, DeadlockVictim(l) PROVE LoadInv'
    <2>1. Inserting(l)
      BY <1>7 DEF DeadlockVictim, WaitsFor
    <2> QED BY <1>7, <2>1, RollbackStep DEF DeadlockVictim
  <1>8. ASSUME NEW l \in Loads, EndChunk(l) PROVE LoadInv'
    BY <1>8, EndChunkStep
  <1>9. ASSUME NEW l \in Loads, Register(l) PROVE LoadInv'
    <2>1. /\ load[l] \in Locals /\ Positive(load[l]) /\ pc[l] = "register"
          /\ Sound(file[l], load[l], "commit")
      BY <1>9, FileType DEF Register, LoadInv, LoadSound, Positive, Sound
    <2> QED BY <1>9, <2>1, SetStep DEF Register, Steps
  <1>10. ASSUME NEW l \in Loads, LoseRace(l) PROVE LoadInv'
    BY <1>10, GiveUpStep DEF LoseRace, Answers
  <1>11. ASSUME NEW l \in Loads, Commit(l) PROVE LoadInv'
    BY <1>11, CommitStep
  <1>12. ASSUME NEW l \in Loads, LoseConnection(l) PROVE LoadInv'
    BY <1>12, GiveUpStep DEF LoseConnection, Answers
  <1>13. CASE UNCHANGED vars
    <2>1. TypeOK'
      BY <1>13 DEF LoadInv, TypeOK, vars
    <2>2. ASSUME NEW q \in Loads PROVE LoadSound(q)'
      BY <1>13, Frame DEF LoadInv, vars, Landed
    <2> QED BY <2>1, <2>2 DEF LoadInv
  <1> QED BY <1>1, <1>2, <1>3, <1>4, <1>5, <1>6, <1>7, <1>8, <1>9, <1>10, <1>11, <1>12, <1>13
        DEF Next, Step

-----------------------------------------------------------------------------
(* The theorems. *)

\* Every reachable state of upload_te's loads satisfies the invariant: the
\* counts of a load follow the rows it holds, through chunks, fallbacks and
\* rollbacks.
THEOREM LoadInvariant == Spec => []LoadInv
  <1> QED BY InitSound, StepSound, PTL DEF Spec

\* The tuples of a load are as many as the positions it keeps.
LEMMA TuplesCount ==
    ASSUME TypeOK, NEW l \in Loads, Sound(file[l], load[l], "commit")
    PROVE  Cardinality(TuplesOf(l)) = load[l].inserted
  <1> DEFINE tuple(p) == [key |-> RowAt(l, p).key, from |-> l, row |-> load[l].survivors[p]]
             f == [p \in load[l].mine |-> tuple(p)]
  <1>1. load[l].mine \subseteq 1 .. Len(load[l].survivors)
    BY TuplesType
  <1>2. IsFiniteSet(load[l].mine)
    <2>1. 1 \in Int /\ Len(load[l].survivors) \in Int
      BY FileType
    <2>2. IsFiniteSet(1 .. Len(load[l].survivors))
      BY <2>1, FS_Interval
    <2> QED BY <1>1, <2>2, FS_Subset
  <1>3. f \in Injection(load[l].mine, TuplesOf(l))
    <2>1. f \in [load[l].mine -> TuplesOf(l)]
      BY DEF TuplesOf
    <2>2. ASSUME NEW p \in load[l].mine, NEW q \in load[l].mine, f[p] = f[q] PROVE p = q
      <3>1. load[l].survivors[p] = load[l].survivors[q]
        <4>1. f[p].row = load[l].survivors[p] /\ f[q].row = load[l].survivors[q]
          OBVIOUS
        <4> QED BY <2>2, <4>1
      <3> QED BY <1>1, <3>1 DEF Sound, Numbering
    <2> QED BY <2>1, <2>2 DEF Injection, IsInjective
  <1>4. f \in Surjection(load[l].mine, TuplesOf(l))
    BY DEF TuplesOf, Surjection
  <1>5. f \in Bijection(load[l].mine, TuplesOf(l))
    BY <1>3, <1>4 DEF Bijection
  <1>6. Cardinality(load[l].mine) = load[l].inserted
    BY DEF Sound, Counted
  <1> HIDE DEF f
  <1> QED BY <1>2, <1>5, <1>6, FS_Bijection DEF ExistsBijection

\* The counts a client is given are true: what counts as inserted is in the
\* table, and with what failed makes up the file.
THEOREM CountsTrueHolds == Spec => []CountsTrue
  <1>1. LoadInv => CountsTrue
    <2> SUFFICES ASSUME LoadInv, NEW l \in Loads
                 PROVE  IF answer[l] # "ok" THEN Landed(l) = {}
                        ELSE /\ load[l].inserted = Cardinality(Landed(l))
                             /\ load[l].inserted + load[l].failed = Len(RowsOf(l))
                             /\ load[l].errors = IF load[l].failed < MaxErrors
                                                 THEN load[l].failed ELSE MaxErrors
      BY DEF CountsTrue, Landed
    <2>1. CASE answer[l] # "ok"
      BY <2>1 DEF LoadInv, LoadSound
    <2>2. CASE answer[l] = "ok"
      <3>1. Sound(file[l], load[l], "commit") /\ Landed(l) = TuplesOf(l)
        BY <2>2 DEF LoadInv, LoadSound
      <3>2. Cardinality(Landed(l)) = load[l].inserted
        BY <3>1, TuplesCount DEF LoadInv
      <3>3. Balanced(load[l].inserted, load[l].failed, Len(load[l].survivors),
                     Len(RowsOf(l)), Len(load[l].survivors) + 1)
        BY <3>1 DEF Sound, Counted, RowsOf
      <3>4. load[l].inserted + load[l].failed = Len(RowsOf(l))
        <4>1. load[l].inserted \in Nat /\ load[l].failed \in Nat
              /\ Len(load[l].survivors) \in Nat /\ Len(RowsOf(l)) \in Nat
          BY FileType DEF LoadInv, Locals
        <4>2. \A i, f, s, r \in Nat : Balanced(i, f, s, r, s + 1) => i + f = r
          BY DEF Balanced
        <4> QED BY <3>3, <4>1, <4>2
      <3> QED BY <2>2, <3>1, <3>2, <3>4 DEF Sound, ErrorsTrue
    <2> QED BY <2>1, <2>2
  <1> QED BY <1>1, LoadInvariant, PTL

-----------------------------------------------------------------------------
(* Which rows of a file are kept.  F: the files, T: the table; x: the locals *)
(* of load l.                                                                *)

\* The survivors are the checked rows that may go to the database, in order.
Ordered(f, x) ==
    /\ \A p \in 1 .. Len(x.survivors) : f.rows[x.survivors[p]].kind \notin {"wide", "mistyped"}
    /\ \A n \in 1 .. x.checked :
          \/ f.rows[n].kind \in {"wide", "mistyped"}
          \/ \E p \in 1 .. Len(x.survivors) : x.survivors[p] = n
    /\ \A p, q \in 1 .. Len(x.survivors) : p < q => x.survivors[p] < x.survivors[q]

\* No earlier row equals row n; another file has the key; the key is committed
\* with another load; the load keeps a row with the key.
FirstAt(f, n) == \A m \in 1 .. n - 1 : f.rows[m] # f.rows[n]

Disputed(F, l, k) ==
    \E q \in Loads \ {l} : \E m \in DOMAIN F[q].rows : F[q].rows[m].key = k

Taken(T, l, k) == \E t \in T : t.key = k /\ t.from # l

MineHas(f, x, k) == \E p \in x.mine : f.rows[x.survivors[p]].key = k

MayLand(F, l, n) ==
    /\ F[l].rows[n].kind = "fine"
    /\ \/ F[l].rows[n].key = None
       \/ FirstAt(F[l], n)
       \/ Disputed(F, l, F[l].rows[n].key)

\* Why a row in order may still be refused for good.
Spoken(F, T, l, x, k) == k # None /\ (MineHas(F[l], x, k) \/ Disputed(F, l, k) \/ Taken(T, l, k))

MayFail(F, T, l, x, n) ==
    F[l].rows[n].kind # "fine" \/ Spoken(F, T, l, x, F[l].rows[n].key)

HeldBy(x, step) == x.mine \cup (IF step = "chunk" THEN x.start .. x.at - 1 ELSE {})

Base(x, step) == IF step = "chunk" THEN x.start ELSE x.at

Fate(F, T, l, x, step) ==
    /\ Ordered(F[l], x)
    /\ \A p \in HeldBy(x, step) : MayLand(F, l, x.survivors[p])
    /\ \A p \in 1 .. Base(x, step) - 1 :
          p \in x.mine \/ MayFail(F, T, l, x, x.survivors[p])

FateOf(l) ==
    IF answer[l] \in {"none", "ok"} THEN Fate(file, table, l, load[l], pc[l])
    ELSE load[l].mine = {}

\* What a load keeps it may keep, and what it passed over it had a reason to.
FateInv == LoadInv /\ \A l \in Loads : FateOf(l)

\* A reason to pass a row over stays one.
LEMMA MayFailStays ==
    ASSUME NEW F, NEW T, NEW T2, NEW l, NEW x, NEW y, NEW n, T \subseteq T2,
           y.survivors = x.survivors, x.mine \subseteq y.mine, MayFail(F, T, l, x, n)
    PROVE  MayFail(F, T2, l, y, n)
  BY DEF MayFail, Spoken, MineHas, Taken

LEMMA FateStays ==
    ASSUME NEW F, NEW T, NEW T2, NEW l, NEW x, NEW step, T \subseteq T2,
           Fate(F, T, l, x, step)
    PROVE  Fate(F, T2, l, x, step)
  <1>1. ASSUME NEW p \in 1 .. Base(x, step) - 1
        PROVE  p \in x.mine \/ MayFail(F, T2, l, x, x.survivors[p])
    BY MayFailStays DEF Fate
  <1> QED BY <1>1 DEF Fate

\* Where every load stands, the survivors are rows of the file.
LEMMA Standing ==
    ASSUME LoadInv, NEW l \in Loads, pc[l] # "done" \/ answer[l] = "ok"
    PROVE  /\ file[l] \in File /\ load[l] \in Locals /\ Positive(load[l])
           /\ Numbering(load[l])
           /\ load[l].checked \in 0 .. Len(file[l].rows) /\ Len(file[l].rows) \in Nat
           /\ DOMAIN file[l].rows = 1 .. Len(file[l].rows)
           /\ \A p \in 1 .. Len(load[l].survivors) :
                 load[l].survivors[p] \in 1 .. Len(file[l].rows)
           /\ HeldBy(load[l], pc[l]) \subseteq 1 .. Len(load[l].survivors)
           /\ Base(load[l], pc[l]) <= Len(load[l].survivors) + 1
  <1> DEFINE x == load[l]
             f == file[l]
  <1>1. /\ f \in File /\ x \in Locals /\ Positive(x)
        /\ Len(f.rows) \in Nat /\ Len(x.survivors) \in Nat
        /\ DOMAIN f.rows = 1 .. Len(f.rows)
    BY FileType DEF LoadInv, LoadSound, Positive, RowsOf, File
  <1>2. PICK step \in Steps \ {"done"} : Sound(f, x, step) /\ (pc[l] # "done" => step = pc[l])
                                        /\ (pc[l] = "done" => step = "commit")
    BY DEF LoadInv, LoadSound, TypeOK, Steps
  <1>3. x.checked \in Nat /\ x.at \in Nat /\ x.start \in Nat /\ x.at >= 1 /\ x.start >= 1
    BY <1>1 DEF Locals, Positive
  <1>4. Numbering(x) /\ x.checked <= Len(f.rows)
    BY <1>1, <1>2, <1>3 DEF Sound, Checking, Counted, Steps
  <1>5. \A p \in 1 .. Len(x.survivors) : x.survivors[p] \in 1 .. Len(f.rows)
    <2>1. 1 .. x.checked \subseteq 1 .. Len(f.rows)
      BY <1>1, <1>3, <1>4
    <2> HIDE DEF x, f
    <2> QED BY <1>4, <2>1 DEF Numbering
  <1>6. EndOf(x) \in Nat /\ EndOf(x) <= Len(x.survivors)
    BY <1>1, EndOfType
  <1>7. HeldBy(x, pc[l]) \subseteq 1 .. Len(x.survivors)
        /\ Base(x, pc[l]) <= Len(x.survivors) + 1
    <2>1. CASE step \in {"idle", "validate"}
      BY <1>1, <1>2, <1>3, <2>1 DEF Sound, Checking, HeldBy, Base
    <2>2. CASE step = "chunk"
      <3>1. /\ x.mine \subseteq 1 .. x.start - 1 /\ x.start <= Len(x.survivors) + 1
            /\ x.start <= x.at /\ x.at <= EndOf(x) + 1
        BY <1>2, <2>2 DEF Sound, Counted
      <3>2. 1 .. x.start - 1 \subseteq 1 .. Len(x.survivors)
        BY <1>1, <1>3, <3>1
      <3>3. x.start .. x.at - 1 \subseteq 1 .. Len(x.survivors)
        BY <1>1, <1>3, <1>6, <3>1
      <3>4. pc[l] = "chunk"
        BY <1>2, <2>2
      <3> HIDE DEF x
      <3> QED BY <3>1, <3>2, <3>3, <3>4 DEF HeldBy, Base
    <2>3. CASE step \in {"row", "register", "commit"}
      <3>1. Counted(f, x, x.at) /\ pc[l] # "chunk"
        BY <1>2, <2>3 DEF Sound
      <3>2. 1 .. x.at - 1 \subseteq 1 .. Len(x.survivors)
        BY <1>1, <1>3, <3>1 DEF Counted
      <3> HIDE DEF x, f
      <3> QED BY <3>1, <3>2 DEF Counted, HeldBy, Base
    <2> QED BY <1>2, <2>1, <2>2, <2>3 DEF Steps
  <1> QED BY <1>1, <1>3, <1>4, <1>5, <1>7

LEMMA FateFrame ==
    ASSUME NEW q \in Loads, FateOf(q), file' = file, table \subseteq table',
           pc'[q] = pc[q], load'[q] = load[q], answer'[q] = answer[q]
    PROVE  FateOf(q)'
  BY FateStays DEF FateOf

\* A load moves on inside its transaction.
LEMMA SetFate ==
    ASSUME FateInv, NEW l \in Loads, NEW y, NEW step, pc[l] # "done",
           Set(l, y, step), Fate(file, table, l, y, step)
    PROVE  \A q \in Loads : FateOf(q)'
  <1>1. /\ pc'[l] = step /\ load'[l] = y /\ answer' = answer /\ file' = file /\ table' = table
        /\ answer[l] = "none"
        /\ \A q \in Loads \ {l} : pc'[q] = pc[q] /\ load'[q] = load[q]
    BY DEF FateInv, LoadInv, LoadSound, TypeOK, Set
  <1>2. FateOf(l)'
    BY <1>1 DEF FateOf
  <1>3. ASSUME NEW q \in Loads \ {l} PROVE FateOf(q)'
    BY <1>1, FateFrame DEF FateInv
  <1> QED BY <1>2, <1>3

LEMMA GiveUpFate ==
    ASSUME FateInv, NEW l \in Loads, NEW told \in Answers \ {"none", "ok"}, GiveUp(l, told)
    PROVE  \A q \in Loads : FateOf(q)'
  <1>1. /\ load'[l].mine = {} /\ answer'[l] = told /\ file' = file /\ table' = table
        /\ \A q \in Loads \ {l} :
              pc'[q] = pc[q] /\ load'[q] = load[q] /\ answer'[q] = answer[q]
    <2>1. load[l] \in Locals
      BY FileType DEF FateInv, LoadInv
    <2> QED BY <2>1 DEF FateInv, LoadInv, TypeOK, GiveUp, Locals
  <1>2. FateOf(l)'
    BY <1>1 DEF FateOf
  <1>3. ASSUME NEW q \in Loads \ {l} PROVE FateOf(q)'
    BY <1>1, FateFrame DEF FateInv
  <1> QED BY <1>2, <1>3

\* The tuple a load is at is a row of its file that passed the checks, and all
\* rows of the file have been checked.
LEMMA CurrentRow ==
    ASSUME FateInv, NEW l \in Loads, Inserting(l)
    PROVE  /\ load[l].at \in 1 .. Len(load[l].survivors)
           /\ load[l].survivors[load[l].at] \in 1 .. Len(file[l].rows)
           /\ Current(l) = file[l].rows[load[l].survivors[load[l].at]]
           /\ Current(l) \in Row /\ Current(l).kind \notin {"wide", "mistyped"}
           /\ load[l].checked = Len(file[l].rows)
           /\ answer[l] = "none" /\ Landed(l) = {}
           /\ Fate(file, table, l, load[l], pc[l])
           /\ pc[l] = "chunk" => load[l].start <= load[l].at
  <1>1. /\ pc[l] \in {"chunk", "row"} /\ load[l].at <= EndOf(load[l])
        /\ Sound(file[l], load[l], pc[l]) /\ answer[l] = "none" /\ Landed(l) = {}
    BY DEF FateInv, LoadInv, LoadSound, Inserting, ChunkEnd, EndOf, Left
  <1>2. /\ file[l] \in File /\ load[l] \in Locals /\ Positive(load[l])
        /\ \A p \in 1 .. Len(load[l].survivors) :
              load[l].survivors[p] \in 1 .. Len(file[l].rows)
    BY <1>1, Standing DEF FateInv
  <1>3. load[l].at \in 1 .. Len(load[l].survivors)
    <2>1. /\ EndOf(load[l]) \in Nat /\ EndOf(load[l]) <= Len(load[l].survivors)
          /\ Len(load[l].survivors) \in Nat /\ load[l].at \in Nat /\ load[l].at >= 1
      BY <1>2, EndOfType DEF Locals, Positive
    <2> QED BY <1>1, <2>1
  <1>4. Fate(file, table, l, load[l], pc[l])
    BY <1>1 DEF FateInv, FateOf
  <1>5. Current(l) = file[l].rows[load[l].survivors[load[l].at]]
    BY DEF Current, RowAt, RowsOf
  <1>6. Current(l) \in Row /\ Current(l).kind \notin {"wide", "mistyped"}
    BY <1>2, <1>3, <1>4, <1>5 DEF File, Fate, Ordered
  <1> QED BY <1>1, <1>2, <1>3, <1>4, <1>5, <1>6 DEF Sound, Counted

\* A tuple the database takes may land: had an equal row come before it, this
\* load or another one would have the key.
LEMMA TakenMayLand ==
    ASSUME FateInv, NEW l \in Loads, Inserting(l), ~Refused(l)
    PROVE  MayLand(file, l, load[l].survivors[load[l].at])
  <1> DEFINE x == load[l]
             f == file[l]
             n == x.survivors[x.at]
             k == f.rows[n].key
  <1>1. /\ x.at \in 1 .. Len(x.survivors) /\ n \in 1 .. Len(f.rows)
        /\ Current(l) = f.rows[n] /\ f.rows[n] \in Row
        /\ f.rows[n].kind \notin {"wide", "mistyped"}
        /\ x.checked = Len(f.rows)
        /\ Fate(file, table, l, x, pc[l])
        /\ pc[l] \in {"chunk", "row"}
        /\ pc[l] = "chunk" => x.start <= x.at
    BY CurrentRow DEF Inserting
  <1>2. f.rows[n].kind = "fine"
    BY <1>1 DEF Refused, Row, RowKinds
  <1>3. ASSUME NEW p \in HeldBy(x, pc[l]), f.rows[x.survivors[p]].key = k, k # None
        PROVE  FALSE
    <2>1. Held(l) = HeldBy(x, pc[l])
      BY DEF Held, Pending, HeldBy
    <2>2. k \in HeldKeys(l)
      BY <1>3, <2>1 DEF HeldKeys, RowAt, RowsOf
    <2> QED BY <1>1, <1>3, <2>2 DEF Refused
  <1>4. ASSUME k # None, ~FirstAt(f, n), ~Disputed(file, l, k) PROVE FALSE
    <2>1. PICK m \in 1 .. n - 1 : f.rows[m] = f.rows[n]
      BY <1>4 DEF FirstAt
    <2>2. /\ x \in Locals /\ Len(f.rows) \in Nat /\ Len(x.survivors) \in Nat
          /\ Positive(x) /\ x.at \in Nat /\ x.start \in Nat /\ n \in Nat
      <3>1. pc[l] # "done"
        BY <1>1
      <3>2. x \in Locals /\ Positive(x) /\ Len(f.rows) \in Nat
        BY <3>1, Standing DEF FateInv
      <3>3. x.at \in Nat /\ x.start \in Nat /\ Len(x.survivors) \in Nat
        BY <3>2 DEF Locals
      <3> HIDE DEF x, f, n
      <3> QED BY <1>1, <3>2, <3>3
    <2>3. m \in 1 .. x.checked /\ m < n
      BY <1>1, <2>1, <2>2
    <2>4. PICK p \in 1 .. Len(x.survivors) : x.survivors[p] = m
      <3>1. f.rows[m].kind \notin {"wide", "mistyped"}
        BY <1>1, <2>1
      <3> QED BY <1>1, <2>3, <3>1 DEF Fate, Ordered
    <2>5. p < x.at
      <3>1. x.at < p => n < m
        BY <1>1, <2>4 DEF Fate, Ordered
      <3>2. x.at = p => n = m
        BY <2>4
      <3> QED BY <2>2, <2>3, <2>4, <3>1, <3>2
    <2>6. f.rows[x.survivors[p]].key = k /\ f.rows[x.survivors[p]].kind = "fine"
      BY <1>2, <2>1, <2>4
    <2>7. p \notin HeldBy(x, pc[l])
      BY <1>3, <1>4, <2>6
    <2>8. p \in 1 .. Base(x, pc[l]) - 1
      <3>1. pc[l] = "chunk" => p \notin x.start .. x.at - 1
        BY <2>7 DEF HeldBy
      <3> QED BY <1>1, <2>2, <2>4, <2>5, <3>1 DEF Base
    <2>9. MayFail(file, table, l, x, x.survivors[p])
      BY <1>1, <2>7, <2>8 DEF Fate, HeldBy
    <2>10. ~MineHas(f, x, k)
      BY <1>3, <1>4 DEF MineHas, HeldBy
    <2>11. Taken(table, l, k)
      BY <1>4, <2>6, <2>9, <2>10 DEF MayFail, Spoken
    <2>12. k \in Committed
      BY <2>11 DEF Taken, Committed
    <2> QED BY <1>1, <1>4, <2>12 DEF Refused
  <1> HIDE DEF x, f, n
  <1>5. MayLand(file, l, n)
    BY <1>2, <1>4 DEF MayLand, f
  <1> QED BY <1>5 DEF x, n

\* A row passed over on its own had a reason: it is bad, its key is committed or
\* this load's, or another file has it.
LEMMA PassedMayFail ==
    ASSUME FateInv, NEW l \in Loads, Inserting(l), pc[l] = "row",
           Refused(l) \/ WaitsFor(l) # {}
    PROVE  MayFail(file, table, l, load[l], load[l].survivors[load[l].at])
  <1> DEFINE x == load[l]
             n == x.survivors[x.at]
             k == file[l].rows[n].key
  <1>1. Current(l) = file[l].rows[n] /\ Landed(l) = {}
    BY CurrentRow
  <1>2. CASE Current(l).kind = "refused"
    BY <1>1, <1>2 DEF MayFail
  <1>3. CASE k # None /\ k \in Committed
    <2>1. PICK t \in table : t.key = k
      BY <1>3 DEF Committed
    <2>2. t.from # l
      BY <1>1, <2>1 DEF Landed
    <2> QED BY <1>3, <2>1, <2>2 DEF MayFail, Spoken, Taken
  <1>4. CASE k # None /\ k \in HeldKeys(l)
    <2>1. PICK p \in x.mine : file[l].rows[x.survivors[p]].key = k
      BY <1>4 DEF HeldKeys, Held, Pending, RowAt, RowsOf
    <2> QED BY <1>4, <2>1 DEF MayFail, Spoken, MineHas
  <1>5. CASE ~Refused(l) /\ WaitsFor(l) # {}
    <2>1. PICK q \in Loads \ {l} : k \in HeldKeys(q)
      BY <1>1, <1>5 DEF WaitsFor
    <2>2. k # None
      BY <2>1 DEF HeldKeys
    <2>3. PICK p \in Held(q) : file[q].rows[load[q].survivors[p]].key = k
      BY <2>1 DEF HeldKeys, RowAt, RowsOf
    <2>4. pc[q] # "done" \/ answer[q] = "ok"
      <3>1. pc[q] = "done" /\ answer[q] # "ok" => load[q].mine = {}
        BY DEF FateInv, FateOf, LoadInv, LoadSound
      <3> QED BY <2>3, <3>1 DEF Held, Pending
    <2>5. p \in HeldBy(load[q], pc[q])
      BY <2>3 DEF Held, Pending, HeldBy
    <2>6. load[q].survivors[p] \in DOMAIN file[q].rows
      BY <2>4, <2>5, Standing DEF FateInv
    <2>7. Disputed(file, l, k)
      BY <2>3, <2>6 DEF Disputed
    <2> QED BY <2>2, <2>7 DEF MayFail, Spoken
  <1> QED BY <1>1, <1>2, <1>3, <1>4, <1>5 DEF Refused

-----------------------------------------------------------------------------
(* What each action does to what is kept. *)

LEMMA InsertFate ==
    ASSUME FateInv, NEW l \in Loads, InsertTuple(l)
    PROVE  \A q \in Loads : FateOf(q)'
  <1>1. /\ load[l] \in Locals /\ pc[l] \in {"chunk", "row"}
        /\ load[l].at \in Nat /\ load[l].start \in Nat /\ load[l].at >= 1
        /\ Fate(file, table, l, load[l], pc[l])
        /\ MayLand(file, l, load[l].survivors[load[l].at])
    <2>1. load[l] \in Locals /\ pc[l] \in {"chunk", "row"} /\ Positive(load[l])
      BY FileType DEF FateInv, LoadInv, LoadSound, Positive, InsertTuple, Inserting
    <2> QED BY <2>1, CurrentRow, TakenMayLand DEF InsertTuple, Locals, Positive
  <1>2. CASE pc[l] = "chunk"
    <2> DEFINE y == [load[l] EXCEPT !.at = load[l].at + 1]
    <2>1. /\ y.survivors = load[l].survivors /\ y.checked = load[l].checked
          /\ y.mine = load[l].mine /\ y.start = load[l].start /\ y.at = load[l].at + 1
      BY <1>1 DEF Locals
    <2>2. HeldBy(y, "chunk") \subseteq HeldBy(load[l], "chunk") \cup {load[l].at}
      BY <1>1, <2>1 DEF HeldBy
    <2>3. Fate(file, table, l, y, "chunk")
      <3>1. Ordered(file[l], y)
        BY <1>1, <2>1 DEF Fate, Ordered
      <3>2. \A p \in HeldBy(y, "chunk") : MayLand(file, l, y.survivors[p])
        BY <1>1, <1>2, <2>1, <2>2 DEF Fate
      <3>3. \A p \in 1 .. Base(y, "chunk") - 1 :
               p \in y.mine \/ MayFail(file, table, l, y, y.survivors[p])
        BY <1>1, <1>2, <2>1, MayFailStays DEF Fate, Base
      <3> QED BY <3>1, <3>2, <3>3 DEF Fate
    <2>4. Set(l, y, "chunk")
      BY <1>2 DEF InsertTuple
    <2> HIDE DEF y
    <2> QED BY <1>2, <2>3, <2>4, SetFate
  <1>3. CASE pc[l] = "row"
    <2> DEFINE y == [load[l] EXCEPT !.mine = load[l].mine \cup {load[l].at},
                                    !.at = load[l].at + 1, !.inserted = load[l].inserted + 1]
    <2>1. /\ y.survivors = load[l].survivors /\ y.checked = load[l].checked
          /\ y.mine = load[l].mine \cup {load[l].at} /\ y.at = load[l].at + 1
      BY <1>1 DEF Locals
    <2>2. Fate(file, table, l, y, "row")
      <3>1. Ordered(file[l], y)
        BY <1>1, <2>1 DEF Fate, Ordered
      <3>2. \A p \in HeldBy(y, "row") : MayLand(file, l, y.survivors[p])
        BY <1>1, <1>3, <2>1 DEF Fate, HeldBy
      <3>3. ASSUME NEW p \in 1 .. Base(y, "row") - 1
            PROVE  p \in y.mine \/ MayFail(file, table, l, y, y.survivors[p])
        <4>1. p = load[l].at \/ p \in 1 .. Base(load[l], "row") - 1
          BY <1>1, <2>1 DEF Base
        <4> QED BY <1>1, <1>3, <2>1, <4>1, MayFailStays DEF Fate
      <3> QED BY <3>1, <3>2, <3>3 DEF Fate
    <2>3. Set(l, y, "row")
      BY <1>3 DEF InsertTuple
    <2> HIDE DEF y
    <2> QED BY <1>3, <2>2, <2>3, SetFate
  <1> QED BY <1>1, <1>2, <1>3

LEMMA RollbackFate ==
    ASSUME FateInv, NEW l \in Loads, Inserting(l), RollbackToSavepoint(l),
           Refused(l) \/ WaitsFor(l) # {}
    PROVE  \A q \in Loads : FateOf(q)'
  <1>1. /\ load[l] \in Locals /\ pc[l] \in {"chunk", "row"}
        /\ load[l].at \in Nat /\ load[l].at >= 1
        /\ Fate(file, table, l, load[l], pc[l])
    <2>1. load[l] \in Locals /\ pc[l] \in {"chunk", "row"} /\ Positive(load[l])
      BY FileType DEF FateInv, LoadInv, LoadSound, Positive, Inserting
    <2> QED BY <2>1, CurrentRow DEF Locals, Positive
  <1>2. CASE pc[l] = "chunk"
    <2> DEFINE y == [load[l] EXCEPT !.at = load[l].start]
    <2>1. /\ y.survivors = load[l].survivors /\ y.checked = load[l].checked
          /\ y.mine = load[l].mine /\ y.at = load[l].start
      BY <1>1 DEF Locals
    <2>2. Fate(file, table, l, y, "row")
      <3>1. Ordered(file[l], y)
        BY <1>1, <2>1 DEF Fate, Ordered
      <3>2. \A p \in HeldBy(y, "row") : MayLand(file, l, y.survivors[p])
        BY <1>1, <2>1 DEF Fate, HeldBy
      <3>3. \A p \in 1 .. Base(y, "row") - 1 :
               p \in y.mine \/ MayFail(file, table, l, y, y.survivors[p])
        BY <1>1, <1>2, <2>1, MayFailStays DEF Fate, Base
      <3> QED BY <3>1, <3>2, <3>3 DEF Fate
    <2>3. Set(l, y, "row")
      BY <1>2 DEF RollbackToSavepoint
    <2> HIDE DEF y
    <2> QED BY <1>2, <2>2, <2>3, SetFate
  <1>3. CASE pc[l] = "row"
    <2> DEFINE y == [Fail(load[l]) EXCEPT !.at = load[l].at + 1]
    <2>1. /\ y.survivors = load[l].survivors /\ y.checked = load[l].checked
          /\ y.mine = load[l].mine /\ y.at = load[l].at + 1
      BY <1>1 DEF Locals, Fail
    <2>2. Fate(file, table, l, y, "row")
      <3>1. Ordered(file[l], y)
        BY <1>1, <2>1 DEF Fate, Ordered
      <3>2. \A p \in HeldBy(y, "row") : MayLand(file, l, y.survivors[p])
        BY <1>1, <1>3, <2>1 DEF Fate, HeldBy
      <3>3. ASSUME NEW p \in 1 .. Base(y, "row") - 1
            PROVE  p \in y.mine \/ MayFail(file, table, l, y, y.survivors[p])
        <4>1. p = load[l].at \/ p \in 1 .. Base(load[l], "row") - 1
          BY <1>1, <2>1 DEF Base
        <4>2. MayFail(file, table, l, load[l], load[l].survivors[load[l].at])
          BY <1>3, PassedMayFail
        <4> QED BY <1>1, <1>3, <2>1, <4>1, <4>2, MayFailStays DEF Fate
      <3> QED BY <3>1, <3>2, <3>3 DEF Fate
    <2>3. Set(l, y, "row")
      <3>1. Fail(load[l]).at = load[l].at
        BY <1>1 DEF Fail, Locals
      <3> QED BY <1>3, <3>1 DEF RollbackToSavepoint
    <2> HIDE DEF y
    <2> QED BY <1>3, <2>2, <2>3, SetFate
  <1> QED BY <1>1, <1>2, <1>3

\* The loop over chunks goes on, or ends, with what is held so far kept.
LEMMA NextChunkFate ==
    ASSUME FateInv, NEW l \in Loads, NEW x \in Locals, pc[l] # "done",
           Fate(file, table, l, x, "row"), NextChunk(l, x)
    PROVE  \A q \in Loads : FateOf(q)'
  <1> DEFINE y == [x EXCEPT !.start = x.at]
             step == IF x.at <= Len(x.survivors) THEN "chunk" ELSE "register"
  <1>1. /\ y.survivors = x.survivors /\ y.checked = x.checked
        /\ y.mine = x.mine /\ y.at = x.at /\ y.start = x.at /\ x.at \in Nat
    BY DEF Locals
  <1>2. Ordered(file[l], y)
    BY <1>1 DEF Fate, Ordered
  <1>3. HeldBy(y, step) = HeldBy(x, "row") /\ Base(y, step) = Base(x, "row")
    BY <1>1 DEF HeldBy, Base
  <1>4. \A p \in 1 .. Base(y, step) - 1 :
           p \in y.mine \/ MayFail(file, table, l, y, y.survivors[p])
    <2> HIDE DEF step
    <2> QED BY <1>1, <1>3, MayFailStays DEF Fate
  <1>5. Set(l, y, step)
    BY DEF NextChunk
  <1> HIDE DEF y, step
  <1>6. Fate(file, table, l, y, step)
    BY <1>1, <1>2, <1>3, <1>4 DEF Fate
  <1> QED BY <1>5, <1>6, SetFate

\* The tuples of a released chunk are held already.
LEMMA EndChunkFate ==
    ASSUME FateInv, NEW l \in Loads, EndChunk(l)
    PROVE  \A q \in Loads : FateOf(q)'
  <1>1. /\ load[l] \in Locals /\ pc[l] \in {"chunk", "row"}
        /\ Fate(file, table, l, load[l], pc[l])
    <2>1. load[l] \in Locals /\ pc[l] \in {"chunk", "row"} /\ answer[l] = "none"
      BY FileType DEF FateInv, LoadInv, LoadSound, TypeOK, EndChunk
    <2> QED BY <2>1 DEF FateInv, FateOf
  <1>2. CASE pc[l] = "chunk"
    <2> DEFINE x == load[l]
               y == [x EXCEPT !.mine = x.mine \cup (x.start .. x.at - 1),
                              !.inserted = x.inserted + (x.at - x.start)]
    <2>1. /\ y.survivors = x.survivors /\ y.checked = x.checked
          /\ y.mine = x.mine \cup (x.start .. x.at - 1) /\ y.at = x.at
          /\ x.at \in Nat /\ x.start \in Nat /\ x.start >= 1 /\ x.start <= x.at
      BY <1>1, <1>2 DEF Locals, FateInv, LoadInv, LoadSound, Sound
    <2>2. y \in Locals
      <3>1. /\ x.mine \cup (x.start .. x.at - 1) \in SUBSET Nat
            /\ x.inserted + (x.at - x.start) \in Nat
        BY <1>1, <2>1 DEF Locals
      <3> QED BY <1>1, <3>1 DEF Locals
    <2>3. NextChunk(l, y)
      BY <1>2 DEF EndChunk, Pending
    <2> HIDE DEF y
    <2>4. Fate(file, table, l, y, "row")
      <3>1. Ordered(file[l], y)
        BY <1>1, <2>1 DEF Fate, Ordered
      <3>2. \A p \in HeldBy(y, "row") : MayLand(file, l, y.survivors[p])
        BY <1>1, <1>2, <2>1 DEF Fate, HeldBy
      <3>3. ASSUME NEW p \in 1 .. Base(y, "row") - 1
            PROVE  p \in y.mine \/ MayFail(file, table, l, y, y.survivors[p])
        <4>1. p \in x.start .. x.at - 1 \/ p \in 1 .. Base(x, "chunk") - 1
          BY <2>1 DEF Base
        <4> HIDE DEF x
        <4> QED BY <1>1, <1>2, <2>1, <4>1, MayFailStays DEF Fate, x
      <3> QED BY <3>1, <3>2, <3>3 DEF Fate
    <2> QED BY <1>2, <2>2, <2>3, <2>4, NextChunkFate
  <1>3. CASE pc[l] = "row"
    <2>1. NextChunk(l, load[l])
      BY <1>3 DEF EndChunk
    <2> QED BY <1>1, <1>3, <2>1, NextChunkFate
  <1> QED BY <1>1, <1>2, <1>3

\* While rows are checked nothing is held or passed over.
LEMMA CheckingFate ==
    ASSUME NEW F, NEW T, NEW l, NEW x, NEW step, Checking(F[l], x), Ordered(F[l], x),
           step \in {"idle", "validate", "row"}
    PROVE  Fate(F, T, l, x, step)
  BY DEF Checking, Fate, HeldBy, Base

LEMMA ValidateFate ==
    ASSUME FateInv, NEW l \in Loads, ValidateRow(l)
    PROVE  \A q \in Loads : FateOf(q)'
  <1> DEFINE x == load[l]
             f == file[l]
             n == x.checked + 1
  <1>1. /\ f \in File /\ x \in Locals /\ Positive(x) /\ pc[l] = "validate"
        /\ Sound(f, x, "validate") /\ x.checked < Len(f.rows) /\ answer[l] = "none"
        /\ Ordered(f, x)
    BY FileType DEF FateInv, FateOf, Fate, LoadInv, LoadSound, Positive, ValidateRow, RowsOf
  <1>2. /\ Len(x.survivors) \in Nat /\ x.checked \in Nat /\ x.survivors \in Seq(Nat)
        /\ \A p \in 1 .. Len(x.survivors) : x.survivors[p] \in 1 .. x.checked
    BY <1>1 DEF Locals, Sound, Numbering
  <1>3. \A m \in 1 .. n : m = n \/ m \in 1 .. x.checked
    BY <1>2
  <1>4. CASE f.rows[n].kind \in {"wide", "mistyped"}
    <2> DEFINE y == Fail([x EXCEPT !.checked = n])
    <2>1. y.survivors = x.survivors /\ y.checked = n
      BY <1>1 DEF Locals, Fail
    <2>2. Ordered(f, y)
      BY <1>1, <1>3, <1>4, <2>1 DEF Ordered
    <2>3. Sound(f, y, "validate")
      BY <1>1, ValidateSound
    <2>4. Set(l, y, "validate")
      BY <1>4 DEF ValidateRow, RowsOf
    <2> HIDE DEF y, n
    <2>5. Fate(file, table, l, y, "validate")
      BY <2>2, <2>3, CheckingFate DEF Sound
    <2> QED BY <1>1, <2>4, <2>5, SetFate
  <1>5. CASE f.rows[n].kind \notin {"wide", "mistyped"}
    <2> DEFINE y == [x EXCEPT !.checked = n, !.survivors = Append(@, n)]
    <2>1. y.survivors = Append(x.survivors, n) /\ y.checked = n
      BY <1>1 DEF Locals
    <2>2. /\ Len(y.survivors) = Len(x.survivors) + 1
          /\ \A p \in 1 .. Len(x.survivors) : y.survivors[p] = x.survivors[p]
          /\ y.survivors[Len(x.survivors) + 1] = n
      BY <1>2, <2>1
    <2>3. /\ \A p \in 1 .. Len(y.survivors) :
                p = Len(x.survivors) + 1 \/ p \in 1 .. Len(x.survivors)
          /\ \A p \in 1 .. Len(x.survivors) : p \in 1 .. Len(y.survivors)
          /\ Len(x.survivors) + 1 \in 1 .. Len(y.survivors)
      BY <1>2, <2>2
    <2>4. Set(l, y, "validate")
      <3>1. load[l].survivors = [load[l] EXCEPT !.checked = n].survivors
        BY <1>1 DEF Locals
      <3>2. [[load[l] EXCEPT !.checked = n] EXCEPT !.survivors = Append(@, n)] = y
        BY <1>1 DEF Locals
      <3> QED BY <1>5, <3>1, <3>2 DEF ValidateRow, RowsOf
    <2>5. Sound(f, y, "validate")
      BY <1>1, ValidateSound
    <2> HIDE DEF y
    <2>6. \A p \in 1 .. Len(y.survivors) : f.rows[y.survivors[p]].kind \notin {"wide", "mistyped"}
      BY <1>1, <1>5, <2>2, <2>3 DEF Ordered
    <2>7. \A m \in 1 .. y.checked :
             \/ f.rows[m].kind \in {"wide", "mistyped"}
             \/ \E p \in 1 .. Len(y.survivors) : y.survivors[p] = m
      <3> SUFFICES ASSUME NEW m \in 1 .. n, f.rows[m].kind \notin {"wide", "mistyped"}
                   PROVE  \E p \in 1 .. Len(y.survivors) : y.survivors[p] = m
        BY <2>1
      <3>1. CASE m = n
        BY <2>2, <2>3, <3>1
      <3>2. CASE m \in 1 .. x.checked
        <4>1. PICK p \in 1 .. Len(x.survivors) : x.survivors[p] = m
          BY <1>1, <3>2 DEF Ordered
        <4> QED BY <2>2, <2>3, <4>1
      <3> HIDE DEF n
      <3> QED BY <1>3, <3>1, <3>2
    <2>8. ASSUME NEW p \in 1 .. Len(y.survivors), NEW q \in 1 .. Len(y.survivors), p < q
          PROVE  y.survivors[p] < y.survivors[q]
      <3>1. p \in 1 .. Len(x.survivors) /\ x.survivors[p] \in Nat /\ x.survivors[p] < n
        <4>1. p \in 1 .. Len(x.survivors)
          BY <1>2, <2>2, <2>8
        <4> QED BY <1>2, <4>1
      <3>2. CASE q \in 1 .. Len(x.survivors)
        BY <1>1, <2>2, <2>8, <3>1, <3>2 DEF Ordered
      <3>3. CASE q = Len(x.survivors) + 1
        BY <2>2, <3>1, <3>3
      <3> QED BY <2>3, <3>2, <3>3
    <2> HIDE DEF n
    <2>9. Ordered(f, y)
      BY <2>6, <2>7, <2>8 DEF Ordered
    <2>10. Fate(file, table, l, y, "validate")
      BY <2>5, <2>9, CheckingFate DEF Sound
    <2> QED BY <1>1, <2>4, <2>10, SetFate
  <1> QED BY <1>4, <1>5

LEMMA CommitFate ==
    ASSUME FateInv, NEW l \in Loads, Commit(l)
    PROVE  \A q \in Loads : FateOf(q)'
  <1>1. /\ pc[l] = "commit" /\ pc'[l] = "done" /\ load' = load /\ answer'[l] = "ok"
        /\ file' = file /\ table \subseteq table' /\ answer[l] = "none"
        /\ \A q \in Loads \ {l} : pc'[q] = pc[q] /\ answer'[q] = answer[q]
    BY DEF FateInv, LoadInv, LoadSound, TypeOK, Commit
  <1>2. FateOf(l)'
    <2>1. Fate(file, table, l, load[l], "commit")
      BY <1>1 DEF FateInv, FateOf
    <2>2. Fate(file, table', l, load[l], "commit")
      BY <1>1, <2>1, FateStays
    <2>3. Fate(file, table', l, load[l], "done")
      BY <2>2 DEF Fate, HeldBy, Base
    <2> QED BY <1>1, <2>3 DEF FateOf
  <1>3. ASSUME NEW q \in Loads \ {l} PROVE FateOf(q)'
    BY <1>1, FateFrame DEF FateInv
  <1> QED BY <1>2, <1>3

LEMMA OrderedStart == ASSUME NEW f PROVE Ordered(f, NoLocals)
  BY DEF Ordered, NoLocals

LEMMA FateStep == FateInv /\ [Next]_vars => FateInv'
  <1> SUFFICES ASSUME FateInv, [Next]_vars PROVE \A q \in Loads : FateOf(q)'
    BY StepSound DEF FateInv
  <1>1. ASSUME NEW l \in Loads, RefuseFile(l) PROVE \A q \in Loads : FateOf(q)'
    <2>1. GiveUp(l, "invalid_structure") \/ GiveUp(l, "error")
      BY <1>1 DEF RefuseFile
    <2> QED BY <2>1, GiveUpFate DEF Answers
  <1>2. ASSUME NEW l \in Loads, Begin(l) PROVE \A q \in Loads : FateOf(q)'
    <2>1. Sound(file[l], NoLocals, "validate")
      BY FileType, StartSound DEF FateInv, LoadInv
    <2>2. Fate(file, table, l, NoLocals, "validate")
      BY <2>1, CheckingFate, OrderedStart DEF Sound
    <2> QED BY <1>2, <2>2, SetFate DEF Begin
  <1>3. ASSUME NEW l \in Loads, ValidateRow(l) PROVE \A q \in Loads : FateOf(q)'
    BY <1>3, ValidateFate
  <1>4. ASSUME NEW l \in Loads, EndValidation(l) PROVE \A q \in Loads : FateOf(q)'
    <2>1. /\ load[l] \in Locals /\ pc[l] = "validate" /\ Checking(file[l], load[l])
          /\ Ordered(file[l], load[l])
      BY <1>4, FileType DEF FateInv, FateOf, Fate, LoadInv, LoadSound, Sound, EndValidation
    <2>2. Fate(file, table, l, load[l], "row")
      BY <2>1, CheckingFate
    <2> QED BY <1>4, <2>1, <2>2, NextChunkFate DEF EndValidation
  <1>5. ASSUME NEW l \in Loads, InsertTuple(l) PROVE \A q \in Loads : FateOf(q)'
    BY <1>5, InsertFate
  <1>6. ASSUME NEW l \in Loads, TupleRefused(l) PROVE \A q \in Loads : FateOf(q)'
    BY <1>6, RollbackFate DEF TupleRefused
  <1>7. ASSUME NEW l \in Loads, DeadlockVictim(l) PROVE \A q \in Loads : FateOf(q)'
    <2>1. Inserting(l)
      BY <1>7 DEF DeadlockVictim, WaitsFor
    <2> QED BY <1>7, <2>1, RollbackFate DEF DeadlockVictim
  <1>8. ASSUME NEW l \in Loads, EndChunk(l) PROVE \A q \in Loads : FateOf(q)'
    BY <1>8, EndChunkFate
  <1>9. ASSUME NEW l \in Loads, Register(l) PROVE \A q \in Loads : FateOf(q)'
    <2>1. Fate(file, table, l, load[l], "register")
      BY <1>9 DEF Register, FateInv, FateOf, LoadInv, LoadSound, TypeOK
    <2>2. Fate(file, table, l, load[l], "commit")
      BY <2>1 DEF Fate, HeldBy, Base
    <2> QED BY <1>9, <2>2, SetFate DEF Register
  <1>10. ASSUME NEW l \in Loads, LoseRace(l) PROVE \A q \in Loads : FateOf(q)'
    BY <1>10, GiveUpFate DEF LoseRace, Answers
  <1>11. ASSUME NEW l \in Loads, Commit(l) PROVE \A q \in Loads : FateOf(q)'
    BY <1>11, CommitFate
  <1>12. ASSUME NEW l \in Loads, LoseConnection(l) PROVE \A q \in Loads : FateOf(q)'
    BY <1>12, GiveUpFate DEF LoseConnection, Answers
  <1>13. CASE UNCHANGED vars
    BY <1>13, FateFrame DEF FateInv, vars
  <1> QED BY <1>1, <1>2, <1>3, <1>4, <1>5, <1>6, <1>7, <1>8, <1>9, <1>10, <1>11, <1>12, <1>13
        DEF Next, Step

LEMMA FateInit == Init => FateInv
  <1> SUFFICES ASSUME Init PROVE FateInv
    OBVIOUS
  <1>1. LoadInv
    BY InitSound
  <1>2. ASSUME NEW l \in Loads PROVE FateOf(l)
    <2>1. load[l] = NoLocals /\ pc[l] = "idle" /\ answer[l] = "none"
      BY DEF Init
    <2>2. Checking(file[l], NoLocals)
      BY <1>1, <2>1, FileType, StartSound DEF LoadInv, Sound
    <2> QED BY <2>1, <2>2, CheckingFate, OrderedStart DEF FateOf
  <1> QED BY <1>1, <1>2 DEF FateInv

\* Every reachable state: what a load holds it may keep, and every row it passed
\* over is bad, or has a key that the table, another file or the load itself has
\* (te_loader 258-292).
THEOREM FateInvariant == Spec => []FateInv
  <1> QED BY FateInit, FateStep, PTL DEF Spec

\* A row is in the table exactly when the load that answered keeps its position.
LEMMA KeptRow ==
    ASSUME FateInv, NEW l \in Loads, answer[l] = "ok", NEW n \in DOMAIN RowsOf(l)
    PROVE  /\ [key |-> RowsOf(l)[n].key, from |-> l, row |-> n] \in table
                => \E p \in load[l].mine : load[l].survivors[p] = n
           /\ \A p \in load[l].mine : load[l].survivors[p] = n
                => [key |-> RowsOf(l)[n].key, from |-> l, row |-> n] \in table
  <1> DEFINE tuple == [key |-> RowsOf(l)[n].key, from |-> l, row |-> n]
  <1>1. Landed(l) = TuplesOf(l)
    BY DEF FateInv, LoadInv, LoadSound
  <1>2. tuple \in table <=> tuple \in TuplesOf(l)
    BY <1>1 DEF Landed
  <1>3. ASSUME tuple \in TuplesOf(l) PROVE \E p \in load[l].mine : load[l].survivors[p] = n
    <2>1. PICK p \in load[l].mine :
             tuple = [key |-> RowAt(l, p).key, from |-> l, row |-> load[l].survivors[p]]
      BY <1>3 DEF TuplesOf
    <2>2. tuple.row = n /\ tuple.row = load[l].survivors[p]
      BY <2>1
    <2> QED BY <2>2
  <1>4. ASSUME NEW p \in load[l].mine, load[l].survivors[p] = n PROVE tuple \in TuplesOf(l)
    BY <1>4 DEF TuplesOf, RowAt
  <1> HIDE DEF tuple
  <1> QED BY <1>2, <1>3, <1>4 DEF tuple

\* A good row is never lost with its chunk: of equal rows, a load that succeeds
\* keeps the first and no other, unless another load has the key or it was there.
THEOREM FirstOfKeyWinsHolds == Spec => []FirstOfKeyWins
  <1>1. ASSUME FateInv, NEW l \in Loads, answer[l] = "ok", NEW n \in DOMAIN RowsOf(l),
               [key |-> RowsOf(l)[n].key, from |-> l, row |-> n] \in table
        PROVE  MayLand(file, l, n)
    <2>1. PICK p \in load[l].mine : load[l].survivors[p] = n
      BY <1>1, KeptRow
    <2>2. Fate(file, table, l, load[l], pc[l])
      BY <1>1 DEF FateInv, FateOf
    <2> QED BY <2>1, <2>2 DEF Fate, HeldBy
  <1>2. ASSUME FateInv, NEW l \in Loads, answer[l] = "ok", NEW n \in DOMAIN RowsOf(l),
               RowsOf(l)[n].kind = "fine",
               \/ RowsOf(l)[n].key = None
               \/ /\ FirstAt(file[l], n)
                  /\ ~Taken(table, l, RowsOf(l)[n].key)
                  /\ ~Disputed(file, l, RowsOf(l)[n].key)
        PROVE  [key |-> RowsOf(l)[n].key, from |-> l, row |-> n] \in table
    <2> DEFINE x == load[l]
               f == file[l]
    <2>1. /\ Sound(f, x, "commit") /\ Fate(file, table, l, x, pc[l]) /\ pc[l] = "done"
          /\ answer[l] = "ok"
      BY <1>2 DEF FateInv, FateOf, LoadInv, LoadSound
    <2>2. /\ f \in File /\ x \in Locals /\ DOMAIN f.rows = 1 .. Len(f.rows)
          /\ Len(f.rows) \in Nat /\ Len(x.survivors) \in Nat
          /\ HeldBy(x, pc[l]) \subseteq 1 .. Len(x.survivors)
          /\ \A p \in 1 .. Len(x.survivors) : x.survivors[p] \in 1 .. Len(f.rows)
      BY <1>2, Standing, FileType DEF FateInv, LoadInv
    <2>3. x.checked = Len(f.rows) /\ x.at = Len(x.survivors) + 1
      BY <2>1 DEF Sound, Counted
    <2>4. PICK p \in 1 .. Len(x.survivors) : x.survivors[p] = n
      BY <1>2, <2>1, <2>2, <2>3 DEF Fate, Ordered, RowsOf
    <2>5. p \in x.mine \/ MayFail(file, table, l, x, n)
      <3>1. p \in 1 .. Base(x, pc[l]) - 1
        BY <2>1, <2>2, <2>3, <2>4 DEF Base
      <3> QED BY <2>1, <2>4, <3>1 DEF Fate
    <2>6. p \in x.mine
      <3> SUFFICES ASSUME p \notin x.mine PROVE FALSE
        OBVIOUS
      <3>1. f.rows[n].key # None /\ MineHas(f, x, f.rows[n].key)
        BY <1>2, <2>5 DEF MayFail, Spoken, RowsOf
      <3>2. PICK r \in x.mine : f.rows[x.survivors[r]].key = f.rows[n].key
        BY <3>1 DEF MineHas
      <3>3. x.survivors[r] \in 1 .. Len(f.rows) /\ MayLand(file, l, x.survivors[r])
        BY <2>1, <2>2 DEF HeldBy, Fate
      <3>4. FirstAt(f, x.survivors[r]) /\ f.rows[x.survivors[r]].kind = "fine"
        BY <1>2, <3>1, <3>2, <3>3 DEF MayLand, RowsOf
      <3>5. f.rows[x.survivors[r]] = f.rows[n]
        <4>1. f.rows[x.survivors[r]] \in Row /\ f.rows[n] \in Row
          BY <1>2, <2>2, <3>3 DEF File, RowsOf
        <4> QED BY <1>2, <3>2, <3>4, <4>1 DEF Row, RowsOf
      <3>6. x.survivors[r] = n
        <4>1. FirstAt(f, n) /\ n \in 1 .. Len(f.rows)
          BY <1>2, <2>2, <3>1 DEF RowsOf
        <4>2. ~(x.survivors[r] < n) /\ ~(n < x.survivors[r])
          <5>1. x.survivors[r] < n => x.survivors[r] \in 1 .. n - 1
            BY <2>2, <3>3, <4>1
          <5>2. n < x.survivors[r] => n \in 1 .. x.survivors[r] - 1
            BY <2>2, <3>3, <4>1
          <5> HIDE DEF x, f
          <5> QED BY <3>4, <3>5, <4>1, <5>1, <5>2 DEF FirstAt
        <4> QED BY <2>2, <3>3, <4>1, <4>2
      <3>7. r = p
        <4>1. r \in 1 .. Len(x.survivors)
          BY <2>2 DEF HeldBy
        <4> QED BY <2>1, <2>4, <3>6, <4>1 DEF Sound, Numbering
      <3> QED BY <3>7
    <2> QED BY <1>2, <2>4, <2>6, KeptRow
  <1>3. FateInv => FirstOfKeyWins
    <2> SUFFICES ASSUME FateInv, NEW l \in Loads, answer[l] = "ok",
                        NEW n \in DOMAIN RowsOf(l)
                 PROVE  LET r == RowsOf(l)[n]
                            kept == [key |-> r.key, from |-> l, row |-> n] \in table
                        IN  /\ kept => /\ r.kind = "fine"
                                       /\ \/ r.key = None
                                          \/ FirstAt(file[l], n)
                                          \/ Disputed(file, l, r.key)
                            /\ \/ ~(r.kind = "fine")
                               \/ ~(\/ r.key = None
                                    \/ /\ FirstAt(file[l], n)
                                       /\ ~Taken(table, l, r.key)
                                       /\ ~Disputed(file, l, r.key))
                               \/ kept
      BY DEF FirstOfKeyWins, FirstAt, Taken, Disputed, RowsOf
    <2>1. ASSUME [key |-> RowsOf(l)[n].key, from |-> l, row |-> n] \in table
          PROVE  MayLand(file, l, n)
      BY <1>1, <2>1
    <2> QED BY <1>2, <2>1 DEF MayLand, RowsOf
  <1> QED BY <1>3, FateInvariant, PTL
=============================================================================
