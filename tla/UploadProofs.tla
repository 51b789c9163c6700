---------------------------- MODULE UploadProofs ----------------------------
(* Proofs about an upload, from its text to its trace: CsvParse, with the    *)
(* invariant CsvInv, what it promises about the names, the suggested types   *)
(* and the rows, and that a written text is read back; and UploadRequest,    *)
(* about what the three transactions of an upload, and the one of a          *)
(* deletion, leave behind, for any number of requests, files, failures and   *)
(* crashes.                                                                  *)
EXTENDS CsvParse, UploadRequest, FiniteSetTheorems, SequenceTheorems,
        WellFoundedInduction, TLAPS

-----------------------------------------------------------------------------
(* CsvParse: least and greatest elements, and sequences. *)

\* A set of numbers has a least one.
LEMMA LeastNat ==
    ASSUME NEW S, S \subseteq Nat, S # {}
    PROVE  Min(S) \in S /\ \A y \in S : Min(S) <= y
  <1> DEFINE R == OpToRel(<, Nat)
  <1>1. IsWellFoundedOn(R, Nat)
    BY NatLessThanWellFounded
  <1> HIDE DEF R
  <1>2. PICK x \in S : \A y \in S : ~ (<<y, x>> \in R)
    BY <1>1, WFMin
  <1> USE DEF R
  <1>3. \A y \in S : ~ (y < x)
    BY <1>2 DEF OpToRel
  <1>4. \A y \in S : x <= y
    BY <1>3
  <1> QED BY <1>4 DEF Min

\* A bounded set of numbers has a greatest one.
LEMMA GreatestNat ==
    ASSUME NEW S, S \subseteq Nat, S # {}, NEW n \in Nat, \A y \in S : y <= n
    PROVE  Max(S) \in S /\ \A y \in S : y <= Max(S)
  <1> DEFINE T == {n - y : y \in S}
  <1>1. T \subseteq Nat /\ T # {}
    <2>1. \A y \in S : n - y \in Nat
      OBVIOUS
    <2> QED BY <2>1
  <1>2. Min(T) \in T /\ \A y \in T : Min(T) <= y
    BY <1>1, LeastNat
  <1>3. PICK x \in S : Min(T) = n - x
    BY <1>2
  <1>4. ASSUME NEW y \in S PROVE x >= y
    <2>1. n - x <= n - y /\ x \in Nat /\ y \in Nat
      BY <1>2, <1>3
    <2> QED BY <2>1
  <1>5. \E z \in S : \A y \in S : z >= y
    BY <1>4
  <1>6. Max(S) \in S /\ \A y \in S : Max(S) >= y
    BY <1>5 DEF Max
  <1> QED BY <1>6

\* The elements of a sequence, by position.
LEMMA Elements ==
    ASSUME NEW S, NEW s \in Seq(S)
    PROVE  /\ Len(s) \in Nat /\ DOMAIN s = 1 .. Len(s)
           /\ \A i \in 1 .. Len(s) : s[i] \in S
           /\ ToSet(s) = {s[i] : i \in 1 .. Len(s)} /\ ToSet(s) \subseteq S
           /\ s # <<>> => 1 \in 1 .. Len(s) /\ Head(s) = s[1]
           /\ Len(s) # 0 => s # <<>>
  <1>1. Len(s) \in Nat /\ DOMAIN s = 1 .. Len(s) /\ \A i \in 1 .. Len(s) : s[i] \in S
    BY LenProperties, ElementOfSeq
  <1>2. s # <<>> => 1 \in 1 .. Len(s) /\ Head(s) = s[1]
    BY <1>1, EmptySeq
  <1>3. Len(<<>>) = 0
    BY EmptySeq
  <1> QED BY <1>1, <1>2, <1>3 DEF ToSet

\* The first n elements of a sequence.
LEMMA FirstOf ==
    ASSUME NEW S, NEW s \in Seq(S), NEW n \in 0 .. Len(s)
    PROVE  /\ SubSeq(s, 1, n) \in Seq(S) /\ Len(SubSeq(s, 1, n)) = n
           /\ \A i \in 1 .. n : SubSeq(s, 1, n)[i] = s[i]
  <1>1. Len(s) \in Nat /\ \A i \in 1 .. Len(s) : s[i] \in S
    BY Elements
  <1>2. n \in Int /\ \A i \in 1 .. n : s[i] \in S
    BY <1>1
  <1>3. /\ SubSeq(s, 1, n) \in Seq(S)
        /\ Len(SubSeq(s, 1, n)) = IF 1 <= n THEN n - 1 + 1 ELSE 0
        /\ \A i \in 1 .. n - 1 + 1 : SubSeq(s, 1, n)[i] = s[1 + i - 1]
    BY <1>2, SubSeqProperties
  <1>4. n \in Nat /\ n - 1 + 1 = n /\ \A i \in 1 .. n : 1 + i - 1 = i
    BY <1>1
  <1> QED BY <1>3, <1>4

-----------------------------------------------------------------------------
(* CsvParse: the names of the columns. *)

\* What is left of a sequence stripped of S begins with no element of S.
LEMMA StripIs ==
    ASSUME NEW T, NEW s \in Seq(T), NEW S
    PROVE  /\ StripOf(s, S) \in Seq(T)
           /\ StripOf(s, S) # <<>> => StripOf(s, S)[1] \notin S
  <1> DEFINE kept == {k \in DOMAIN s : s[k] \notin S}
             r == SubSeq(s, Min(kept), Max(kept))
  <1>1. Len(s) \in Nat /\ DOMAIN s = 1 .. Len(s) /\ \A i \in 1 .. Len(s) : s[i] \in T
    BY Elements
  <1>2. CASE kept = {}
    <2>1. StripOf(s, S) = <<>>
      BY <1>2 DEF StripOf
    <2> QED BY <2>1, EmptySeq
  <1>3. CASE kept # {}
    <2>1. kept \subseteq Nat /\ \A k \in kept : k <= Len(s)
      BY <1>1
    <2>2. /\ Min(kept) \in kept /\ Max(kept) \in kept
          /\ \A k \in kept : Min(kept) <= k /\ k <= Max(kept)
      BY <1>1, <1>3, <2>1, LeastNat, GreatestNat
    <2>3. StripOf(s, S) = r
      BY <1>3 DEF StripOf
    <2> DEFINE a == Min(kept)
               b == Max(kept)
    <2>4. a \in 1 .. Len(s) /\ b \in 1 .. Len(s) /\ a <= b /\ s[a] \notin S
      BY <1>1, <2>2
    <2> HIDE DEF a, b
    <2>5. \A i \in a .. b : s[i] \in T
      BY <1>1, <2>4
    <2>6. /\ SubSeq(s, a, b) \in Seq(T)
          /\ \A i \in 1 .. b - a + 1 : SubSeq(s, a, b)[i] = s[a + i - 1]
      BY <2>4, <2>5, SubSeqProperties
    <2>7. 1 \in 1 .. b - a + 1 /\ a + 1 - 1 = a
      BY <1>1, <2>4
    <2>8. SubSeq(s, a, b)[1] = s[a]
      BY <2>6, <2>7
    <2> QED BY <2>3, <2>4, <2>6, <2>8 DEF a, b
  <1> QED BY <1>2, <1>3

\* Only symbols a name may have are left when the others are underscores.
LEMMA UnderscoredIs ==
    ASSUME NEW s \in Seq(Symbols)
    PROVE  Underscored(s) \in Seq(NameSymbols)
  <1> DEFINE kept == {k \in DOMAIN s : s[k] \in NameSymbols \/ k = 1 \/ s[k - 1] \in NameSymbols}
             n == Cardinality(kept)
  <1>1. DOMAIN s = 1 .. Len(s) /\ Len(s) \in Nat
    BY Elements
  <1>2. IsFiniteSet(1 .. Len(s)) /\ kept \in SUBSET (1 .. Len(s))
    BY <1>1, FS_Interval
  <1>3. IsFiniteSet(kept)
    BY <1>2, FS_Subset
  <1>4. n \in Nat
    BY <1>3, FS_CardinalityType
  <1> DEFINE Nth(i) == CHOOSE k \in kept : Cardinality({j \in kept : j <= k}) = i
             Put(i) == IF s[Nth(i)] \in NameSymbols THEN s[Nth(i)] ELSE Underscore
  <1>5. Underscored(s) = [i \in 1 .. n |-> Put(i)]
    BY DEF Underscored
  <1> HIDE DEF kept, n, Nth
  <1>6. \A i \in 1 .. n : Put(i) \in NameSymbols
    BY DEF NameSymbols
  <1> HIDE DEF Put
  <1>7. [i \in 1 .. n |-> Put(i)] \in Seq(NameSymbols)
    BY <1>4, <1>6, IsASeq
  <1> QED BY <1>5, <1>7

\* The names that may be a stem: PostgreSQL takes them unquoted, and adding a
\* number to them leaves them so.
Beginning(name) == Len(name) >= 1 /\ name[1] \notin Digits /\ name[1] # Underscore
Stems == {stem \in Seq(NameSymbols) : Len(stem) <= MaxStem /\ Beginning(stem)}
Usable == {name \in Seq(NameSymbols) : Len(name) <= MaxName /\ Beginning(name)}

\* Whatever the header, its stem is short enough to be numbered, and begins with a
\* symbol that is neither a digit nor an underscore.
LEMMA StemIs ==
    ASSUME NEW h \in Seq(Symbols), NEW idx \in 1 .. MaxColumns
    PROVE  Stem(h, idx) \in Stems
  <1> DEFINE asked == IF h = <<>> THEN Positional(idx) ELSE h
             low == Lower(asked)
             clean == Underscored(Strip(low))
             guarded == IF clean \in Reserved THEN clean \o <<Underscore, "col">> ELSE clean
             bare == StripOf(guarded, {Underscore})
             named == IF bare = <<>> THEN Positional(idx) ELSE bare
             safe == IF Head(named) \in Digits THEN <<"col", Underscore>> \o named ELSE named
  <1>1. /\ Digits \subseteq NameSymbols /\ NameSymbols \subseteq Symbols
        /\ {Underscore, "col", "column"} \subseteq NameSymbols
        /\ "col" \notin Digits /\ "column" \notin Digits /\ Underscore \notin Digits
        /\ MaxStem \in Nat \ {0} /\ MaxColumns \in Nat
        /\ "column" # Underscore /\ "col" # Underscore /\ "f" \in Symbols
    <2>1. "col" \notin Digits /\ "column" \notin Digits /\ Underscore \notin Digits
      BY DEF Digits, Underscore
    <2>2. "column" # Underscore /\ "col" # Underscore
      BY DEF Underscore
    <2>3. Digits \subseteq NameSymbols /\ {Underscore, "col", "column", "f"} \subseteq NameSymbols
      BY DEF NameSymbols
    <2>4. MaxStem \in Nat \ {0} /\ MaxColumns \in Nat
      BY BoundsAssumption
    <2> QED BY <2>1, <2>2, <2>3, <2>4, FilesAssumption
  <1>2. <<Underscore, "col">> \in Seq(NameSymbols) /\ <<"col", Underscore>> \in Seq(NameSymbols)
        /\ <<"column", Underscore>> \in Seq(NameSymbols)
    BY <1>1
  <1>3. Numeral[idx] \in Seq(NameSymbols)
    BY <1>1, NumeralAssumption, SeqMonotonic
  <1>4. /\ Positional(idx) \in Seq(NameSymbols) /\ Positional(idx) \in Seq(Symbols)
        /\ Len(Positional(idx)) >= 2 /\ Positional(idx)[1] = "column"
    <2> DEFINE c == <<"column", Underscore>>
    <2>1. Len(c) = 2 /\ c[1] = "column" /\ Len(Numeral[idx]) \in Nat
      BY <1>3, LenProperties
    <2> HIDE DEF c
    <2>2. c \in Seq(NameSymbols)
      BY <1>2 DEF c
    <2>3. /\ c \o Numeral[idx] \in Seq(NameSymbols)
          /\ Len(c \o Numeral[idx]) = Len(c) + Len(Numeral[idx])
          /\ \A i \in 1 .. Len(c) + Len(Numeral[idx]) : (c \o Numeral[idx])[i] =
                IF i <= Len(c) THEN c[i] ELSE Numeral[idx][i - Len(c)]
      BY <1>3, <2>2, ConcatProperties
    <2>4. 1 \in 1 .. Len(c) + Len(Numeral[idx]) /\ 1 <= Len(c)
      BY <2>1
    <2>5. (c \o Numeral[idx])[1] = c[1] /\ Len(c \o Numeral[idx]) >= 2
      BY <2>1, <2>3, <2>4
    <2>6. Positional(idx) = c \o Numeral[idx]
      BY DEF Positional, c
    <2> QED BY <1>1, <2>1, <2>3, <2>5, <2>6, SeqMonotonic
  <1>5. asked \in Seq(Symbols)
    BY <1>4
  <1>6. low \in Seq(Symbols)
    <2> DEFINE l(i) == IF asked[i] = "F" THEN "f" ELSE asked[i]
    <2> HIDE DEF asked
    <2>1. Len(asked) \in Nat /\ DOMAIN asked = 1 .. Len(asked) /\ \A i \in 1 .. Len(asked) : asked[i] \in Symbols
      BY <1>5, Elements
    <2>2. \A i \in 1 .. Len(asked) : l(i) \in Symbols
      <3>1. ASSUME NEW i \in 1 .. Len(asked) PROVE l(i) \in Symbols
        <4>1. asked[i] \in Symbols /\ "f" \in Symbols
          BY <1>1, <2>1
        <4> QED BY <4>1
      <3> HIDE DEF l
      <3> QED BY <3>1
    <2>3. low = [i \in 1 .. Len(asked) |-> l(i)]
      BY <2>1 DEF Lower
    <2> HIDE DEF l
    <2>4. [i \in 1 .. Len(asked) |-> l(i)] \in Seq(Symbols)
      BY <2>1, <2>2, IsASeq
    <2> QED BY <2>3, <2>4
  <1> HIDE DEF low
  <1>7. clean \in Seq(NameSymbols)
    <2>1. Strip(low) \in Seq(Symbols)
      BY <1>6, StripIs DEF Strip
    <2> QED BY <2>1, UnderscoredIs
  <1> HIDE DEF clean
  <1>8. guarded \in Seq(NameSymbols)
    BY <1>2, <1>7, ConcatProperties
  <1> HIDE DEF guarded
  <1>9. bare \in Seq(NameSymbols) /\ (bare # <<>> => bare[1] # Underscore)
    BY <1>8, StripIs
  <1> HIDE DEF bare
  <1>10. named \in Seq(NameSymbols) /\ Len(named) \in Nat \ {0} /\ named[1] # Underscore /\ Head(named) = named[1]
    <2>1. named \in Seq(NameSymbols) /\ named[1] # Underscore
      <3>1. Positional(idx) \in Seq(NameSymbols) /\ Positional(idx)[1] # Underscore
        BY <1>1, <1>4
      <3> QED BY <1>9, <3>1
    <2>2. Len(named) \in Nat \ {0}
      <3>1. CASE bare = <<>>
        BY <1>4, <3>1, LenProperties
      <3>2. CASE bare # <<>>
        BY <1>9, <3>2, EmptySeq
      <3> QED BY <3>1, <3>2
    <2> HIDE DEF named
    <2>3. named # <<>>
      BY <2>1, <2>2, Elements, EmptySeq
    <2> QED BY <2>1, <2>2, <2>3, Elements
  <1> HIDE DEF named
  <1>11. safe \in Seq(NameSymbols) /\ Len(safe) \in Nat \ {0} /\ safe[1] # Underscore /\ safe[1] \notin Digits
    <2>1. CASE Head(named) \in Digits
      <3> DEFINE c == <<"col", Underscore>>
      <3>1. Len(c) = 2 /\ c[1] = "col" /\ c \in Seq(NameSymbols)
        BY <1>2
      <3> HIDE DEF c
      <3>2. /\ c \o named \in Seq(NameSymbols) /\ Len(c \o named) = Len(c) + Len(named)
            /\ \A i \in 1 .. Len(c) + Len(named) : (c \o named)[i] =
                  IF i <= Len(c) THEN c[i] ELSE named[i - Len(c)]
        BY <1>10, <3>1, ConcatProperties
      <3>3. 1 \in 1 .. Len(c) + Len(named) /\ 1 <= Len(c)
        BY <1>10, <3>1
      <3>4. (c \o named)[1] = "col" /\ Len(c \o named) \in Nat \ {0}
        BY <1>10, <3>1, <3>2, <3>3
      <3>5. safe = c \o named
        BY <2>1 DEF c
      <3> HIDE DEF safe
      <3> QED BY <1>1, <3>2, <3>4, <3>5
    <2>2. CASE Head(named) \notin Digits
      BY <1>10, <2>2
    <2> QED BY <2>1, <2>2
  <1> HIDE DEF safe
  <1>12. Min({Len(safe), MaxStem}) \in 1 .. Len(safe) /\ Min({Len(safe), MaxStem}) <= MaxStem
    <2>1. {Len(safe), MaxStem} \subseteq Nat
      BY <1>1, <1>11
    <2>2. Min({Len(safe), MaxStem}) \in {Len(safe), MaxStem}
          /\ \A y \in {Len(safe), MaxStem} : Min({Len(safe), MaxStem}) <= y
      BY <2>1, LeastNat
    <2> QED BY <1>1, <1>11, <2>2
  <1> DEFINE n == Min({Len(safe), MaxStem})
  <1> HIDE DEF n
  <1>13. n \in 0 .. Len(safe) /\ 1 \in 1 .. n /\ n <= MaxStem
    BY <1>11, <1>12 DEF n
  <1>14. /\ SubSeq(safe, 1, n) \in Seq(NameSymbols) /\ Len(SubSeq(safe, 1, n)) = n
         /\ SubSeq(safe, 1, n)[1] = safe[1]
    BY <1>11, <1>13, FirstOf
  <1>15. SubSeq(safe, 1, n) \in Stems
    <2> DEFINE r == SubSeq(safe, 1, n)
    <2>1. r \in Seq(NameSymbols) /\ Len(r) = n /\ r[1] = safe[1]
      BY <1>14
    <2> HIDE DEF r
    <2>2. n >= 1 /\ n <= MaxStem
      BY <1>13
    <2>3. r \in Stems
      BY <1>11, <2>1, <2>2 DEF Stems, Beginning
    <2> QED BY <2>3 DEF r
  <1>16. Stem(h, idx) = SubSeq(safe, 1, n)
    BY DEF Stem, safe, named, bare, guarded, clean, low, n
  <1> QED BY <1>15, <1>16

\* The names tried for a stem are usable, and differ.
LEMMA NameIs ==
    ASSUME NEW stem \in Stems, NEW n \in 1 .. MaxColumns
    PROVE  /\ Name(stem, n) \in Usable
           /\ \A m \in 1 .. MaxColumns : Name(stem, m) = Name(stem, n) => m = n
  <1>1. /\ stem \in Seq(NameSymbols) /\ stem[1] \notin Digits /\ stem[1] # Underscore
    BY DEF Stems, Beginning
  <1>2. /\ Underscore \in NameSymbols /\ Digits \subseteq NameSymbols
    BY DEF NameSymbols
  <1>3. /\ Len(stem) \in Nat /\ Len(stem) >= 1 /\ Len(stem) <= MaxStem
        /\ MaxStem \in Nat /\ MaxName \in Nat /\ MaxColumns \in Nat
    BY LenProperties, BoundsAssumption DEF Stems, Beginning
  <1>4. \A x \in Nat, y \in Nat : x >= 1 => 1 \in 1 .. x + y /\ 1 <= x
    OBVIOUS
  <1> DEFINE bar == stem \o <<Underscore>>
  <1>5. bar \in Seq(NameSymbols) /\ Len(bar) = Len(stem) + 1 /\ bar[1] = stem[1]
    <2> DEFINE u == <<Underscore>>
    <2>1. u \in Seq(NameSymbols) /\ Len(u) = 1
      BY <1>2
    <2> HIDE DEF u
    <2>2. /\ stem \o u \in Seq(NameSymbols) /\ Len(stem \o u) = Len(stem) + Len(u)
          /\ \A i \in 1 .. Len(stem) + Len(u) : (stem \o u)[i] =
                IF i <= Len(stem) THEN stem[i] ELSE u[i - Len(stem)]
      BY <1>1, <2>1, ConcatProperties
    <2>3. 1 \in 1 .. Len(stem) + Len(u) /\ 1 <= Len(stem)
      BY <1>3, <1>4, <2>1
    <2>4. (stem \o u)[1] = stem[1] /\ Len(stem \o u) = Len(stem) + 1
      BY <2>1, <2>2, <2>3
    <2> QED BY <2>2, <2>4 DEF u
  <1> HIDE DEF bar
  <1>6. Len(bar) \in Nat /\ Len(bar) >= 1
    BY <1>3, <1>5
  <1>7. ASSUME NEW m \in 1 .. MaxColumns
        PROVE  /\ Numeral[m] \in Seq(NameSymbols) /\ Len(Numeral[m]) \in Nat
               /\ bar \o Numeral[m] \in Seq(NameSymbols)
               /\ Len(bar \o Numeral[m]) = Len(stem) + 1 + Len(Numeral[m])
               /\ Len(bar \o Numeral[m]) <= MaxName
               /\ (bar \o Numeral[m])[1] = stem[1]
               /\ MaxStem + 1 + Len(Numeral[m]) <= MaxName
    <2> DEFINE d == Numeral[m]
    <2>1. d \in Seq(NameSymbols) /\ MaxStem + 1 + Len(d) <= MaxName
      BY <1>2, NumeralAssumption, SeqMonotonic
    <2>2. Len(d) \in Nat
      BY <2>1, LenProperties
    <2> HIDE DEF d
    <2>3. /\ bar \o d \in Seq(NameSymbols) /\ Len(bar \o d) = Len(bar) + Len(d)
          /\ \A i \in 1 .. Len(bar) + Len(d) : (bar \o d)[i] =
                IF i <= Len(bar) THEN bar[i] ELSE d[i - Len(bar)]
      BY <1>5, <2>1, ConcatProperties
    <2>4. 1 \in 1 .. Len(bar) + Len(d) /\ 1 <= Len(bar)
      BY <1>4, <1>6, <2>2
    <2>5. (bar \o d)[1] = stem[1]
      BY <1>5, <2>3, <2>4
    <2>6. Len(bar \o d) = Len(stem) + 1 + Len(d)
      BY <1>5, <2>3
    <2>7. \A x, y, z, w \in Nat : x <= y /\ y + 1 + z <= w => x + 1 + z <= w
      OBVIOUS
    <2>8. Len(bar \o d) <= MaxName
      BY <1>3, <2>1, <2>2, <2>6, <2>7
    <2> QED BY <2>1, <2>2, <2>3, <2>5, <2>6, <2>8 DEF d
  <1>8. \A m \in 1 .. MaxColumns : Name(stem, m) = IF m = 1 THEN stem ELSE bar \o Numeral[m]
    BY DEF Name, bar
  <1>9. Name(stem, n) \in Usable
    <2>1. CASE n = 1
      <3>1. \A x, y, z, w \in Nat : x <= y /\ y + 1 + z <= w => x <= w
        OBVIOUS
      <3>2. Len(stem) <= MaxName
        BY <1>3, <1>7, <3>1
      <3> QED BY <1>1, <1>3, <1>8, <2>1, <3>2 DEF Usable, Beginning
    <2>2. CASE n # 1
      <3> DEFINE r == bar \o Numeral[n]
      <3>1. r \in Seq(NameSymbols) /\ Len(r) <= MaxName /\ r[1] = stem[1]
        BY <1>7
      <3>2. Len(r) >= 1
        <4>1. Len(r) = Len(stem) + 1 + Len(Numeral[n]) /\ Len(Numeral[n]) \in Nat
          BY <1>7
        <4>2. \A x, y \in Nat : x + 1 + y >= 1
          OBVIOUS
        <4> QED BY <1>3, <4>1, <4>2
      <3> HIDE DEF r
      <3>3. r \in Usable
        BY <1>1, <3>1, <3>2 DEF Usable, Beginning
      <3> QED BY <1>8, <2>2, <3>3 DEF r
    <2> QED BY <2>1, <2>2
  <1>10. ASSUME NEW m \in 1 .. MaxColumns, Name(stem, m) = Name(stem, n) PROVE m = n
    <2>1. ASSUME NEW k \in 1 .. MaxColumns, stem = bar \o Numeral[k] PROVE FALSE
      <3>1. Len(stem) = Len(stem) + 1 + Len(Numeral[k]) /\ Len(Numeral[k]) \in Nat
        BY <1>7, <2>1
      <3>2. \A x, y \in Nat : x # x + 1 + y
        OBVIOUS
      <3> QED BY <1>3, <3>1, <3>2
    <2>2. CASE m # 1 /\ n # 1
      <3>1. bar \o Numeral[m] = bar \o Numeral[n]
        BY <1>8, <1>10, <2>2
      <3>2. Numeral[m] = Numeral[n]
        BY <1>5, <1>7, <3>1, ConcatSimplifications
      <3> QED BY <3>2, NumeralAssumption
    <2>3. CASE m = 1 \/ n = 1
      BY <1>8, <1>10, <2>1, <2>3
    <2> QED BY <2>2, <2>3
  <1> QED BY <1>9, <1>10

-----------------------------------------------------------------------------
(* CsvParse: the reader. *)

Cells == Seq(Symbols)
Readers == [pos : Nat \ {0}, rows : Seq(Seq(Cells)), row : Seq(Cells), field : Cells,
            quoted : BOOLEAN]

\* What the reader holds are rows of cells, from the first step to the last.
ReaderInv == file \in Files /\ phase \in Phases /\ reader \in Readers

\* Dropping the blank rows at the end of a table leaves the first of its rows.
LEMMA DropIs ==
    ASSUME NEW S, NEW rows \in Seq(S)
    PROVE  DropBlankEnd(rows) \in Seq(S)
  <1> DEFINE K == {0} \cup {k \in DOMAIN rows : ~BlankRow(rows[k])}
  <1>1. Len(rows) \in Nat /\ DOMAIN rows = 1 .. Len(rows)
    BY Elements
  <1>2. K \subseteq Nat /\ K # {} /\ \A k \in K : k <= Len(rows)
    BY <1>1
  <1>3. Max(K) \in K
    BY <1>1, <1>2, GreatestNat
  <1>4. Max(K) \in 0 .. Len(rows)
    BY <1>1, <1>3
  <1>5. SubSeq(rows, 1, Max(K)) \in Seq(S)
    BY <1>4, FirstOf
  <1> QED BY <1>5 DEF DropBlankEnd

\* A step of the reader touches nothing else, and leaves rows of cells.
LEMMA ReadStep ==
    ASSUME ReaderInv, Read
    PROVE  /\ ReaderInv' /\ phase = "reading" /\ phase' \in {"reading", "parsed"}
           /\ UNCHANGED <<file, naming, preview, load>>
  <1> USE DEF ReaderInv
  <1>1. /\ reader.pos \in Nat \ {0} /\ reader.rows \in Seq(Seq(Cells)) /\ reader.row \in Seq(Cells)
        /\ reader.field \in Cells /\ reader.quoted \in BOOLEAN
    BY DEF Readers
  <1>2. Char # "end" => Char \in Symbols
    <2>1. file.text \in Seq(Symbols)
      BY FilesAssumption
    <2>2. reader.pos <= Len(file.text) => reader.pos \in 1 .. Len(file.text)
      BY <1>1, <2>1, Elements
    <2> QED BY <2>1, <2>2, Elements DEF Char, At, Text
  <1>3. ASSUME NEW c \in Symbols PROVE Append(reader.field, c) \in Cells
    BY <1>1, AppendProperties DEF Cells
  <1>4. Append(reader.row, reader.field) \in Seq(Cells) /\ <<>> \in Cells /\ <<>> \in Seq(Cells)
    <2>1. Append(reader.row, reader.field) \in Seq(Cells)
      BY <1>1, AppendProperties
    <2> QED BY <2>1, EmptySeq DEF Cells
  <1>5. Append(reader.rows, Append(reader.row, reader.field)) \in Seq(Seq(Cells))
    BY <1>1, <1>4, AppendProperties
  <1> HIDE DEF Cells
  <1>6. ASSUME NEW r \in Readers, NEW n \in Nat, Advance(r, n), phase = "reading"
        PROVE  /\ ReaderInv' /\ phase = "reading" /\ phase' \in {"reading", "parsed"}
               /\ UNCHANGED <<file, naming, preview, load>>
    <2>1. reader.pos + n \in Nat \ {0}
      BY <1>1
    <2> DEFINE p == reader.pos + n
    <2> HIDE DEF p
    <2>2. reader' = [r EXCEPT !.pos = p]
      BY <1>6 DEF Advance, p
    <2>3. reader' \in Readers
      BY <2>1, <2>2 DEF Readers, p
    <2> QED BY <1>6, <2>3 DEF Advance
  <1>7. ASSUME NEW c \in Symbols PROVE Take(c) \in Readers
    BY <1>3 DEF Take, Readers
  <1>8. EndField \in Readers /\ EndField.row = Append(reader.row, reader.field)
    BY <1>4 DEF EndField, Readers
  <1>9. reader \in Readers
    OBVIOUS
  <1>10. 1 \in Nat /\ 2 \in Nat
    OBVIOUS
  <1>11. CASE EscapedQuote
    <2>1. Char = Quote /\ Char \in Symbols
      BY <1>2, <1>11 DEF EscapedQuote, Reading
    <2> QED BY <1>6, <1>7, <1>10, <1>11, <2>1 DEF EscapedQuote, Reading
  <1>12. CASE CloseQuote
    <2>1. [reader EXCEPT !.quoted = FALSE] \in Readers
      BY DEF Readers
    <2> QED BY <1>6, <1>10, <1>12, <2>1 DEF CloseQuote, Reading
  <1>13. CASE QuotedSymbol
    BY <1>2, <1>6, <1>7, <1>10, <1>13 DEF QuotedSymbol, Reading
  <1>14. CASE OpenQuote
    <2>1. [reader EXCEPT !.quoted = TRUE] \in Readers
      BY DEF Readers
    <2> QED BY <1>6, <1>10, <1>14, <2>1 DEF OpenQuote, Reading
  <1>15. CASE NextField
    BY <1>6, <1>8, <1>10, <1>15 DEF NextField, Reading
  <1>16. CASE SkipReturn
    BY <1>6, <1>9, <1>10, <1>16 DEF SkipReturn, Reading
  <1>17. CASE NextRow
    <2>1. /\ EndField.rows = reader.rows
          /\ Append(EndField.rows, EndField.row) \in Seq(Seq(Cells))
      BY <1>5, <1>8 DEF EndField, Readers
    <2>2. [EndField EXCEPT !.rows = Append(@, EndField.row), !.row = <<>>] \in Readers
      BY <1>4, <1>8, <2>1 DEF Readers
    <2> QED BY <1>6, <1>10, <1>17, <2>2 DEF NextRow, Reading
  <1>18. CASE PlainSymbol
    BY <1>2, <1>6, <1>7, <1>10, <1>18 DEF PlainSymbol, Reading
  <1>19. CASE EndOfText
    <2> DEFINE flushed == IF reader.field # <<>> \/ reader.row # <<>>
                          THEN Append(reader.rows, EndField.row) ELSE reader.rows
    <2>1. flushed \in Seq(Seq(Cells))
      BY <1>1, <1>5, <1>8
    <2> HIDE DEF flushed
    <2>2. DropBlankEnd(flushed) \in Seq(Seq(Cells))
      BY <2>1, DropIs
    <2>3. reader' = [reader EXCEPT !.rows = DropBlankEnd(flushed), !.row = <<>>, !.field = <<>>]
      BY <1>19 DEF EndOfText, flushed
    <2>4. reader' \in Readers
      BY <1>4, <2>2, <2>3 DEF Readers
    <2>5. /\ phase = "reading" /\ phase' = "parsed" /\ phase' \in Phases
          /\ UNCHANGED <<file, naming, preview, load>>
      BY <1>19 DEF EndOfText, Phases
    <2> QED BY <2>4, <2>5
  <1> QED BY <1>11, <1>12, <1>13, <1>14, <1>15, <1>16, <1>17, <1>18, <1>19 DEF Read

-----------------------------------------------------------------------------
(* CsvParse: the loop that names the columns. *)

Counters == UNION {[D -> 1 .. MaxColumns] : D \in SUBSET Stems}

\* The names tried for the stem of a header have all been given, up to the number
\* its counter has reached, save the one that is being tried now.
NamingInv ==
    /\ naming \in [names : Seq(Usable), counter : Counters, number : 1 .. MaxColumns]
    /\ phase = "reading" => naming = [names |-> <<>>, counter |-> <<>>, number |-> 1]
    /\ IsInjective(naming.names)
    /\ naming.number > 1 =>
          /\ Naming /\ HeaderStem \in DOMAIN naming.counter
          /\ naming.counter[HeaderStem] = naming.number
    /\ \A s \in DOMAIN naming.counter : \A m \in 1 .. naming.counter[s] :
          \/ Name(s, m) \in ToSet(naming.names)
          \/ naming.number > 1 /\ s = HeaderStem /\ m = naming.number

\* The header that is being named is one of the first row, and has a stem.
LEMMA HeaderStemIs ==
    ASSUME ReaderInv, Naming, naming.names \in Seq(Usable)
    PROVE  HeaderStem \in Stems /\ Len(naming.names) < Len(Rows[1]) /\ Len(Rows[1]) <= MaxColumns
           /\ Len(naming.names) \in Nat /\ Len(Rows[1]) \in Nat /\ MaxColumns \in Nat
  <1>1. Rows \in Seq(Seq(Cells)) /\ Rows # <<>>
    BY DEF ReaderInv, Readers, Naming, Structure, Rows
  <1>2. 1 \in 1 .. Len(Rows) /\ Rows[1] \in Seq(Cells)
    BY <1>1, Elements
  <1>3. Len(naming.names) \in Nat /\ Len(Rows[1]) \in Nat /\ MaxColumns \in Nat
    BY <1>2, LenProperties, BoundsAssumption
  <1>4. Len(naming.names) < Len(Rows[1]) /\ Len(Rows[1]) <= MaxColumns
    BY DEF Naming
  <1> DEFINE idx == Len(naming.names) + 1
  <1>5. idx \in 1 .. Len(Rows[1]) /\ idx \in 1 .. MaxColumns
    BY <1>3, <1>4
  <1> HIDE DEF idx
  <1>6. Rows[1][idx] \in Seq(Symbols)
    BY <1>2, <1>5, Elements DEF Cells
  <1>7. Stem(Rows[1][idx], idx) \in Stems
    BY <1>5, <1>6, StemIs
  <1> QED BY <1>3, <1>4, <1>7 DEF HeaderStem, idx

\* An element appended to a sequence without repetition that does not have it.
LEMMA AppendNew ==
    ASSUME NEW S, NEW s \in Seq(S), NEW e \in S
    PROVE  /\ Append(s, e) \in Seq(S) /\ Len(Append(s, e)) = Len(s) + 1
           /\ ToSet(Append(s, e)) = ToSet(s) \cup {e}
           /\ IsInjective(s) /\ e \notin ToSet(s) => IsInjective(Append(s, e))
  <1> DEFINE a == Append(s, e)
  <1>1. /\ a \in Seq(S) /\ Len(a) = Len(s) + 1
        /\ \A i \in 1 .. Len(s) : a[i] = s[i]
        /\ a[Len(s) + 1] = e
    BY AppendProperties
  <1> HIDE DEF a
  <1>2. /\ Len(s) \in Nat /\ DOMAIN s = 1 .. Len(s) /\ ToSet(s) = {s[i] : i \in 1 .. Len(s)}
        /\ DOMAIN a = 1 .. Len(a) /\ ToSet(a) = {a[i] : i \in 1 .. Len(a)}
    BY <1>1, Elements
  <1>3. 1 .. Len(a) = (1 .. Len(s)) \cup {Len(s) + 1}
    BY <1>1, <1>2
  <1>4. ToSet(a) = ToSet(s) \cup {e}
    BY <1>1, <1>2, <1>3
  <1>5. ASSUME IsInjective(s), e \notin ToSet(s) PROVE IsInjective(a)
    <2> SUFFICES ASSUME NEW i \in 1 .. Len(a), NEW j \in 1 .. Len(a), a[i] = a[j] PROVE i = j
      BY <1>2 DEF IsInjective
    <2>1. CASE i \in 1 .. Len(s) /\ j \in 1 .. Len(s)
      BY <1>1, <1>2, <1>5, <2>1 DEF IsInjective
    <2>2. CASE i \notin 1 .. Len(s) \/ j \notin 1 .. Len(s)
      BY <1>1, <1>2, <1>3, <1>5, <2>2
    <2> QED BY <2>1, <2>2
  <1> QED BY <1>1, <1>4, <1>5 DEF a

\* As many different elements of a sequence as are numbered are at most its length.
LEMMA AtMostLen ==
    ASSUME NEW S, NEW s \in Seq(S), NEW n \in Nat, NEW f,
           \A m \in 1 .. n : f[m] \in ToSet(s),
           \A m, k \in 1 .. n : f[m] = f[k] => m = k
    PROVE  n <= Len(s)
  <1>1. Len(s) \in Nat /\ ToSet(s) = {s[i] : i \in 1 .. Len(s)}
    BY Elements
  <1> DEFINE Place(m) == CHOOSE i \in 1 .. Len(s) : s[i] = f[m]
             g == [m \in 1 .. n |-> Place(m)]
  <1>2. ASSUME NEW m \in 1 .. n PROVE Place(m) \in 1 .. Len(s) /\ s[Place(m)] = f[m]
    <2>1. \E i \in 1 .. Len(s) : s[i] = f[m]
      BY <1>1
    <2> QED BY <2>1
  <1> HIDE DEF Place
  <1>3. g \in [1 .. n -> 1 .. Len(s)]
    BY <1>2
  <1>4. \A m, k \in 1 .. n : g[m] = g[k] => m = k
    BY <1>2
  <1> HIDE DEF g
  <1>5. /\ IsFiniteSet(1 .. n) /\ IsFiniteSet(1 .. Len(s))
        /\ Cardinality(1 .. n) = n /\ Cardinality(1 .. Len(s)) = Len(s)
    <2>1. 1 \in Int /\ n \in Int /\ Len(s) \in Int
      BY <1>1
    <2>2. /\ IsFiniteSet(1 .. n) /\ Cardinality(1 .. n) = IF 1 > n THEN 0 ELSE n - 1 + 1
          /\ IsFiniteSet(1 .. Len(s)) /\ Cardinality(1 .. Len(s)) = IF 1 > Len(s) THEN 0 ELSE Len(s) - 1 + 1
      BY <2>1, FS_Interval
    <2>3. \A x \in Nat : (IF 1 > x THEN 0 ELSE x - 1 + 1) = x
      OBVIOUS
    <2> QED BY <1>1, <2>2, <2>3
  <1>6. ~ (Len(s) < n)
    <2> SUFFICES ASSUME Len(s) < n PROVE FALSE
      OBVIOUS
    <2>1. \E x, y \in 1 .. n : x # y /\ g[x] = g[y]
      BY <1>3, <1>5, FS_PigeonHole
    <2> QED BY <1>4, <2>1
  <1> QED BY <1>1, <1>6

\* Giving a name that has not been given keeps the names apart.
LEMMA GiveStep ==
    ASSUME ReaderInv, NamingInv, GiveName
    PROVE  NamingInv'
  <1>1. /\ naming \in [names : Seq(Usable), counter : Counters, number : 1 .. MaxColumns]
        /\ IsInjective(naming.names)
    BY DEF NamingInv
  <1>2. /\ Naming /\ Candidate \notin ToSet(naming.names)
        /\ naming' = [naming EXCEPT !.names = Append(@, Candidate), !.number = 1]
        /\ phase' = phase /\ phase # "reading"
    BY DEF GiveName, Naming
  <1>3. HeaderStem \in Stems /\ 1 \in 1 .. MaxColumns
    BY <1>1, <1>2, HeaderStemIs, BoundsAssumption
  <1>4. Candidate \in Usable
    BY <1>1, <1>3, NameIs DEF Candidate
  <1>5. /\ Append(naming.names, Candidate) \in Seq(Usable)
        /\ ToSet(Append(naming.names, Candidate)) = ToSet(naming.names) \cup {Candidate}
        /\ IsInjective(Append(naming.names, Candidate))
    BY <1>1, <1>2, <1>4, AppendNew
  <1>6. /\ naming' \in [names : Seq(Usable), counter : Counters, number : 1 .. MaxColumns]
        /\ naming'.names = Append(naming.names, Candidate)
        /\ naming'.counter = naming.counter /\ naming'.number = 1
    BY <1>1, <1>2, <1>3, <1>5
  <1>7. ASSUME NEW s \in DOMAIN naming.counter, NEW m \in 1 .. naming.counter[s]
        PROVE  Name(s, m) \in ToSet(naming'.names)
    BY <1>5, <1>6 DEF NamingInv, Candidate
  <1>8. ~ (naming'.number > 1)
    BY <1>6
  <1> QED BY <1>2, <1>5, <1>6, <1>7, <1>8 DEF NamingInv

\* The next number of a stem is within the columns: the names tried before are all
\* given, and are different.
LEMMA TryStep ==
    ASSUME ReaderInv, NamingInv, TryNumber
    PROVE  NamingInv'
  <1> DEFINE stem == HeaderStem
             c == Count(stem)
             counter == [s \in DOMAIN naming.counter \cup {stem} |->
                            IF s = stem THEN c + 1 ELSE naming.counter[s]]
  <1>1. /\ naming \in [names : Seq(Usable), counter : Counters, number : 1 .. MaxColumns]
        /\ IsInjective(naming.names)
    BY DEF NamingInv
  <1>2. /\ Naming /\ Candidate \in ToSet(naming.names)
        /\ naming' = [naming EXCEPT !.number = c + 1, !.counter = counter]
        /\ phase' = phase /\ reader' = reader /\ phase # "reading"
    BY DEF TryNumber, Naming
  <1>3. /\ stem \in Stems /\ MaxColumns \in Nat /\ MaxColumns >= 1
        /\ Len(naming.names) < Len(Rows[1]) /\ Len(Rows[1]) <= MaxColumns
        /\ Len(naming.names) \in Nat /\ Len(Rows[1]) \in Nat
    BY <1>1, <1>2, HeaderStemIs, BoundsAssumption
  <1>4. Candidate = Name(stem, naming.number)
    BY DEF Candidate
  <1>5. PICK D \in SUBSET Stems : naming.counter \in [D -> 1 .. MaxColumns]
    BY <1>1 DEF Counters
  <1>6. /\ naming.number > 1 =>
              /\ stem \in DOMAIN naming.counter /\ naming.counter[stem] = naming.number
        /\ \A s \in DOMAIN naming.counter : \A m \in 1 .. naming.counter[s] :
              \/ Name(s, m) \in ToSet(naming.names)
              \/ naming.number > 1 /\ s = stem /\ m = naming.number
    BY DEF NamingInv
  <1> HIDE DEF stem
  <1>7. /\ c \in 1 .. MaxColumns
        /\ \A m \in 1 .. c : Name(stem, m) \in ToSet(naming.names)
    <2>1. CASE stem \in DOMAIN naming.counter
      <3>1. c = naming.counter[stem]
        BY <2>1 DEF Count
      <3>2. c \in 1 .. MaxColumns
        BY <1>5, <2>1, <3>1
      <3> QED BY <1>2, <1>4, <1>6, <2>1, <3>1, <3>2
    <2>2. CASE stem \notin DOMAIN naming.counter
      <3>1. c = 1 /\ naming.number = 1
        BY <1>1, <1>6, <2>2 DEF Count
      <3> QED BY <1>2, <1>3, <1>4, <3>1
    <2> QED BY <2>1, <2>2
  <1> HIDE DEF c
  <1>8. c + 1 \in 1 .. MaxColumns /\ c + 1 > 1
    <2> DEFINE f == [m \in 1 .. c |-> Name(stem, m)]
    <2>1. \A m \in 1 .. c : f[m] = Name(stem, m) /\ m \in 1 .. MaxColumns
      BY <1>3, <1>7
    <2> HIDE DEF f
    <2>2. \A m \in 1 .. c : f[m] \in ToSet(naming.names)
      BY <1>7, <2>1
    <2>3. \A m, k \in 1 .. c : f[m] = f[k] => m = k
      BY <1>3, <2>1, NameIs
    <2>4. c \in Nat
      BY <1>7
    <2>5. c <= Len(naming.names)
      BY <1>1, <2>2, <2>3, <2>4, AtMostLen
    <2> QED BY <1>3, <1>7, <2>5
  <1>9. counter \in [D \cup {stem} -> 1 .. MaxColumns] /\ DOMAIN naming.counter = D
    BY <1>5, <1>8
  <1>10. counter \in Counters
    <2>1. D \cup {stem} \in SUBSET Stems
      BY <1>3
    <2> HIDE DEF counter
    <2> QED BY <1>9, <2>1 DEF Counters
  <1>11. /\ DOMAIN counter = DOMAIN naming.counter \cup {stem} /\ counter[stem] = c + 1
         /\ \A s \in DOMAIN naming.counter : s # stem => counter[s] = naming.counter[s]
    OBVIOUS
  <1> HIDE DEF counter
  <1>12. /\ naming' \in [names : Seq(Usable), counter : Counters, number : 1 .. MaxColumns]
         /\ naming'.names = naming.names
         /\ naming'.counter = counter /\ naming'.number = c + 1
    BY <1>1, <1>2, <1>8, <1>10
  <1>13. Naming' /\ HeaderStem' = stem
    BY <1>2, <1>12 DEF Naming, HeaderStem, Rows, stem
  <1>14. ASSUME NEW s \in DOMAIN counter, NEW m \in 1 .. counter[s]
         PROVE  Name(s, m) \in ToSet(naming.names) \/ (s = stem /\ m = c + 1)
    <2>1. CASE s = stem
      <3>1. m \in 1 .. c \/ m = c + 1
        BY <1>7, <1>11, <2>1
      <3> QED BY <1>7, <2>1, <3>1
    <2>2. CASE s # stem
      BY <1>6, <1>11, <2>2
    <2> QED BY <2>1, <2>2
  <1> QED BY <1>1, <1>2, <1>8, <1>11, <1>12, <1>13, <1>14 DEF NamingInv

-----------------------------------------------------------------------------
(* CsvParse: the types that are suggested. *)

\* A column's suggested type casts every cell it was suggested from.
LEMMA InferCasts ==
    ASSUME NEW values
    PROVE  /\ InferType(values) \in AllowedTypes
           /\ \A k \in DOMAIN values : Casts(values[k], InferType(values))
  <1> DEFINE V == {Strip(v) : v \in ToSet(values)} \ {<<>>}
             Dated == \A v \in V : LooksLikeDate(v) /\ ValidDate(v)
             Stamped == \A v \in V : ValidTimestamp(v)
             Whole == \A v \in V : IsInt(v)
             Numbers == \A v \in V : IsNumber(v)
             Truths == \A v \in V : IsBoolean(v)
  <1>1. InferType(values) =
            IF V = {} THEN "text" ELSE IF Whole THEN "int8" ELSE IF Numbers THEN "numeric"
            ELSE IF Truths THEN "boolean" ELSE IF Dated THEN "date"
            ELSE IF Stamped THEN "timestamptz" ELSE "text"
    BY DEF InferType
  <1>2. InferType(values) \in AllowedTypes
    BY <1>1 DEF AllowedTypes
  <1>3. ASSUME NEW k \in DOMAIN values PROVE Casts(values[k], InferType(values))
    <2> DEFINE v == Strip(values[k])
    <2>1. v = <<>> \/ v \in V
      BY DEF ToSet
    <2> HIDE DEF V, v
    <2>2. CASE v = <<>>
      BY <2>2 DEF Casts, v
    <2>3. CASE v \in V
      BY <1>1, <2>3 DEF Casts, v
    <2> QED BY <2>1, <2>2, <2>3
  <1> QED BY <1>2, <1>3

\* So does the type the browser suggests.
LEMMA BrowserCasts ==
    ASSUME NEW values
    PROVE  /\ BrowserInfer(values) \in AllowedTypes
           /\ \A k \in DOMAIN values : Casts(values[k], BrowserInfer(values))
  <1> DEFINE Possible(t) == \A k \in DOMAIN values : t \in BrowserTypes(Strip(values[k]))
             I == {i \in DOMAIN BrowserOrder : Possible(BrowserOrder[i])}
  <1>1. /\ DOMAIN BrowserOrder = 1 .. 6 /\ BrowserOrder[6] = "text"
        /\ \A i \in 1 .. 6 : BrowserOrder[i] \in AllowedTypes
    BY DEF BrowserOrder, AllowedTypes
  <1>2. Possible("text")
    BY DEF BrowserTypes, AllowedTypes
  <1>3. I \subseteq Nat /\ 6 \in I
    BY <1>1, <1>2
  <1>4. Min(I) \in I
    BY <1>3, LeastNat
  <1>5. BrowserInfer(values) = BrowserOrder[Min(I)]
    BY DEF BrowserInfer
  <1>6. Possible(BrowserInfer(values)) /\ BrowserInfer(values) \in AllowedTypes
    BY <1>1, <1>4, <1>5
  <1>7. ASSUME NEW k \in DOMAIN values PROVE Casts(values[k], BrowserInfer(values))
    <2> DEFINE t == BrowserInfer(values)
               v == Strip(values[k])
    <2>1. t \in BrowserTypes(v)
      BY <1>6
    <2> HIDE DEF t, v
    <2>2. \/ v = <<>> \/ t = "text"
          \/ t = "int8" /\ IsInt(v)
          \/ t = "numeric" /\ IsNumber(v)
          \/ t = "boolean" /\ IsBoolean(v)
          \/ t = "date" /\ LooksLikeDate(v) /\ ValidDate(v)
          \/ t = "timestamptz" /\ v \in {<<"date">>, <<"stamp">>}
      BY <2>1 DEF BrowserTypes
    <2>3. v \in {<<"date">>, <<"stamp">>} => ValidTimestamp(v)
      BY DEF ValidTimestamp
    <2>4. Casts(values[k], t)
      BY <2>2, <2>3 DEF Casts, v
    <2> QED BY <2>4 DEF t
  <1> QED BY <1>6, <1>7

-----------------------------------------------------------------------------
(* CsvParse: the preview. *)

\* The cells of a column that the types are suggested from.
Sampled(c) == [r \in 1 .. Min({InferRows, Len(Data)}) |-> Cell(Data[r], c)]

\* What the preview shows is the names given, and types inferred from the sample.
PreviewInv ==
    /\ phase \in {"reading", "parsed"} => preview.status = "none"
    /\ phase \notin {"reading", "parsed"} => preview.status = Structure(Rows)
    /\ preview.status = "ok" =>
          /\ preview.columns = naming.names /\ Len(naming.names) = Len(Rows[1])
          /\ preview.types = [c \in DOMAIN naming.names |-> InferType(Sampled(c))]
          /\ preview.browser = [c \in DOMAIN naming.names |-> BrowserInfer(Sampled(c))]

\* The rows below the header of a table that can be read, and the columns the
\* types are inferred from.
LEMMA DataIs ==
    ASSUME ReaderInv, Structure(Rows) = "ok"
    PROVE  /\ Data \in Seq(Seq(Cells)) /\ Len(Data) \in Nat /\ Len(Data) >= 1
           /\ DOMAIN Data = 1 .. Len(Data) /\ \A n \in 1 .. Len(Data) : Data[n] \in Seq(Cells)
           /\ Min({InferRows, Len(Data)}) \in 0 .. Len(Data)
           /\ \A n \in 1 .. Len(Data) :
                 n <= InferRows => n \in 1 .. Min({InferRows, Len(Data)})
  <1>1. Rows \in Seq(Seq(Cells)) /\ Rows # <<>> /\ Len(Rows) # 1
    BY DEF ReaderInv, Readers, Structure, Rows
  <1>2. Len(Rows) \in Nat /\ Len(Rows) # 0
    BY <1>1, EmptySeq, LenProperties
  <1>3. Data \in Seq(Seq(Cells)) /\ Len(Data) = Len(Rows) - 1
    BY <1>1, HeadTailProperties DEF Data
  <1>4. /\ Len(Data) \in Nat /\ Len(Data) >= 1
        /\ DOMAIN Data = 1 .. Len(Data) /\ \A n \in 1 .. Len(Data) : Data[n] \in Seq(Cells)
    BY <1>1, <1>2, <1>3, Elements
  <1>5. {InferRows, Len(Data)} \subseteq Nat
    BY <1>4, BoundsAssumption
  <1>6. /\ Min({InferRows, Len(Data)}) \in {InferRows, Len(Data)}
        /\ \A y \in {InferRows, Len(Data)} : Min({InferRows, Len(Data)}) <= y
    BY <1>5, LeastNat
  <1> DEFINE n == Min({InferRows, Len(Data)})
  <1>7. n \in Nat /\ n <= Len(Data) /\ (n = InferRows \/ n = Len(Data))
    BY <1>5, <1>6
  <1> HIDE DEF n
  <1> DEFINE w == Len(Data)
  <1>8. n \in Nat /\ w \in Nat /\ n <= w /\ InferRows \in Nat /\ (n = InferRows \/ n = w)
    BY <1>4, <1>7, BoundsAssumption
  <1> HIDE DEF w
  <1>9. n \in 0 .. w
    BY <1>8
  <1>10. \A k \in 1 .. w : k <= InferRows => k \in 1 .. n
    BY <1>8
  <1> QED BY <1>3, <1>4, <1>9, <1>10 DEF n, w

\* The preview is built from the names and from the sample.
LEMMA BuildStep ==
    ASSUME ReaderInv, NamingInv, PreviewInv, BuildPreview
    PROVE  PreviewInv'
  <1>1. /\ phase = "parsed" /\ phase' = "previewed" /\ reader' = reader /\ naming' = naming
        /\ Structure(Rows) = "ok" => Len(naming.names) = Len(Rows[1])
    BY DEF BuildPreview
  <1>2. Rows' = Rows /\ Data' = Data /\ Structure(Rows)' = Structure(Rows)
    BY <1>1 DEF Rows, Data, Structure
  <1>3. CASE Structure(Rows) # "ok"
    <2>1. preview'.status = Structure(Rows)
      BY <1>3 DEF BuildPreview
    <2> QED BY <1>1, <1>2, <1>3, <2>1 DEF PreviewInv
  <1>4. CASE Structure(Rows) = "ok"
    <2> DEFINE n == Min({InferRows, Len(Data)})
               sample == SubSeq(Data, 1, n)
               Column(c) == [r \in DOMAIN sample |-> Cell(sample[r], c)]
    <2>1. /\ preview'.status = "ok" /\ preview'.columns = naming.names
          /\ preview'.types = [c \in DOMAIN naming.names |-> InferType(Column(c))]
          /\ preview'.browser = [c \in DOMAIN naming.names |-> BrowserInfer(Column(c))]
      BY <1>4 DEF BuildPreview
    <2>2. /\ Data \in Seq(Seq(Cells)) /\ n \in 0 .. Len(Data)
      BY <1>4, DataIs
    <2>3. sample \in Seq(Seq(Cells)) /\ Len(sample) = n /\ \A i \in 1 .. n : sample[i] = Data[i]
      BY <2>2, FirstOf
    <2>4. DOMAIN sample = 1 .. n
      BY <2>3, Elements
    <2> HIDE DEF sample, n
    <2>5. ASSUME NEW c PROVE Column(c) = Sampled(c)
      BY <2>3, <2>4 DEF Sampled, n
    <2> HIDE DEF Column
    <2>6. /\ preview'.types = [c \in DOMAIN naming.names |-> InferType(Sampled(c))]
          /\ preview'.browser = [c \in DOMAIN naming.names |-> BrowserInfer(Sampled(c))]
      BY <2>1, <2>5
    <2>7. ASSUME NEW c PROVE Sampled(c)' = Sampled(c)
      BY <1>2 DEF Sampled
    <2> QED BY <1>1, <1>2, <1>4, <2>1, <2>6, <2>7 DEF PreviewInv
  <1> QED BY <1>3, <1>4

-----------------------------------------------------------------------------
(* CsvParse: the cast. *)

Loads == [outcome : Outcomes, columns : Seq(Usable), types : Seq(AllowedTypes), next : Nat,
          seen : SUBSET Seq(Cells), kept : Seq(Seq(Cells)), failed : Nat, duplicates : Nat,
          errors : Seq([row : Nat, column : Nat])]

\* A row is cast only of a table that could be read, under the names it was given.
StageInv ==
    /\ load \in Loads /\ load.next >= 1
    /\ phase \in {"reading", "parsed", "previewed"} => load.next = 1
    /\ phase = "casting" => Structure(Rows) = "ok" /\ load.columns = naming.names
    /\ load.next > 1 =>
          /\ Structure(Rows) = "ok" /\ load.columns = naming.names
          /\ load.next <= Len(Data) + 1
    /\ phase = "done" /\ load.next > 1 => load.next = Len(Data) + 1

Past == 1 .. load.next - 1
Refused == {n \in Past : Faults(Data[n]) # {}}

\* Of the rows cast so far, those without a fault are kept, each content once.
KeptInv ==
    /\ load.seen = ToSet(load.kept) /\ IsInjective(load.kept)
    /\ load.seen = {Padded(Data[n]) : n \in Past \ Refused}

\* Each row cast so far is counted once.
CountInv ==
    /\ Len(load.kept) + load.duplicates + load.failed = load.next - 1
    /\ load.failed = Cardinality(Refused)

\* The first of the rows refused are reported, with a fault each of them has.
ErrorsInv ==
    /\ Len(load.errors) = Min({MaxErrors, load.failed})
    /\ \A k \in DOMAIN load.errors :
          /\ load.errors[k].row \in Refused
          /\ Cardinality({n \in Refused : n < load.errors[k].row}) = k - 1
          /\ load.errors[k].column \in Faults(Data[load.errors[k].row])

CastInv == StageInv /\ KeptInv /\ CountInv /\ ErrorsInv

\* The lesser of two numbers.
LEMMA LesserOf ==
    ASSUME NEW a \in Nat, NEW b \in Nat
    PROVE  Min({a, b}) = IF a <= b THEN a ELSE b
  <1>1. {a, b} \subseteq Nat /\ {a, b} # {}
    OBVIOUS
  <1>2. Min({a, b}) \in {a, b} /\ \A y \in {a, b} : Min({a, b}) <= y
    BY <1>1, LeastNat
  <1> QED BY <1>2

\* Faults are numbered by columns, and a row is padded with cells.
LEMMA FaultsAre ==
    ASSUME load \in Loads, NEW r \in Seq(Cells)
    PROVE  Faults(r) \subseteq Nat /\ Padded(r) \in Seq(Cells)
  <1>1. Width \in Nat
    BY LenProperties DEF Width, Loads
  <1>2. Faults(r) \subseteq Nat
    BY <1>1 DEF Faults
  <1>3. ASSUME NEW c \in 1 .. Width PROVE Cell(r, c) \in Cells
    <2>1. Len(r) \in Nat /\ \A i \in 1 .. Len(r) : r[i] \in Cells
      BY Elements
    <2>2. <<>> \in Cells
      BY EmptySeq DEF Cells
    <2>3. c <= Len(r) => c \in 1 .. Len(r)
      BY <1>1, <2>1
    <2> QED BY <2>1, <2>2, <2>3 DEF Cell
  <1>4. [c \in 1 .. Width |-> Cell(r, c)] \in Seq(Cells)
    BY <1>1, <1>3, IsASeq
  <1> QED BY <1>2, <1>4 DEF Padded

\* The refused rows are finitely many, and no row is refused before it is cast.
LEMMA RefusedAre ==
    ASSUME load \in Loads, load.next >= 1
    PROVE  /\ Refused \subseteq Past /\ IsFiniteSet(Refused) /\ Cardinality(Refused) \in Nat
           /\ load.next \notin Past /\ 1 .. load.next + 1 - 1 = Past \cup {load.next}
           /\ \A n \in Past : n < load.next /\ n \in Nat
  <1>1. load.next \in Nat
    BY DEF Loads
  <1>2. Refused \subseteq Past
    BY DEF Refused
  <1>3. IsFiniteSet(Past)
    BY <1>1, FS_Interval DEF Past
  <1>4. IsFiniteSet(Refused) /\ Cardinality(Refused) \in Nat
    BY <1>2, <1>3, FS_Subset, FS_CardinalityType
  <1>5. /\ load.next \notin Past /\ 1 .. load.next + 1 - 1 = Past \cup {load.next}
        /\ \A n \in Past : n < load.next /\ n \in Nat
    BY <1>1 DEF Past
  <1> QED BY <1>2, <1>4, <1>5

\* What a cast leaves alone, and the row it is about.
LEMMA CastOne ==
    ASSUME ReaderInv, CastInv, CastRow
    PROVE  /\ load.next \in 1 .. Len(Data) /\ Data[load.next] \in Seq(Cells) /\ Len(Data) \in Nat
           /\ UNCHANGED <<phase, reader, naming>> /\ phase = "casting"
           /\ load'.next = load.next + 1 /\ Past' = Past \cup {load.next}
           /\ load'.columns = load.columns /\ load'.types = load.types
           /\ load'.outcome = load.outcome /\ Data' = Data
           /\ \A x : Faults(x)' = Faults(x) /\ Padded(x)' = Padded(x)
           /\ Refused' = IF Faults(Data[load.next]) = {} THEN Refused ELSE Refused \cup {load.next}
  <1>1. /\ load \in Loads /\ load.next \in Nat /\ load.next >= 1 /\ Structure(Rows) = "ok"
    BY DEF CastInv, StageInv, CastRow, Loads
  <1>2. load.next <= Len(Data) /\ Len(Data) \in Nat
    BY <1>1, DataIs DEF CastRow
  <1>3. load.next \in 1 .. Len(Data) /\ Data[load.next] \in Seq(Cells)
    BY <1>1, <1>2, DataIs
  <1>4. UNCHANGED <<phase, reader, naming>> /\ Data' = Data /\ phase = "casting"
    BY DEF CastRow, Data, Rows
  <1>5. /\ load'.next = load.next + 1 /\ load'.columns = load.columns
        /\ load'.types = load.types /\ load'.outcome = load.outcome
    BY <1>1 DEF CastRow, Loads
  <1>6. Past' = Past \cup {load.next}
    <2>1. Past' = 1 .. load'.next - 1
      BY DEF Past
    <2> QED BY <1>1, <1>5, <2>1, RefusedAre
  <1>7. ASSUME NEW x PROVE Faults(x)' = Faults(x) /\ Padded(x)' = Padded(x)
    BY <1>5 DEF Faults, Padded, Width
  <1>8. Refused' = {n \in Past' : Faults(Data[n]) # {}}
    BY <1>4, <1>5 DEF Refused, Faults, Width
  <1>9. Refused' = IF Faults(Data[load.next]) = {} THEN Refused ELSE Refused \cup {load.next}
    BY <1>6, <1>8 DEF Refused
  <1> QED BY <1>2, <1>3, <1>4, <1>5, <1>6, <1>7, <1>9

\* The three outcomes of a row: refused, a duplicate, kept.
LEMMA CastOutcome ==
    ASSUME ReaderInv, CastInv, CastRow
    PROVE  /\ load' \in Loads
           /\ \/ /\ Faults(Data[load.next]) # {}
                 /\ load'.failed = load.failed + 1
                 /\ load'.errors = Report(load.next, Min(Faults(Data[load.next])))
                 /\ load'.kept = load.kept /\ load'.seen = load.seen
                 /\ load'.duplicates = load.duplicates
              \/ /\ Faults(Data[load.next]) = {}
                 /\ Padded(Data[load.next]) \in load.seen
                 /\ load'.duplicates = load.duplicates + 1
                 /\ load'.kept = load.kept /\ load'.seen = load.seen
                 /\ load'.failed = load.failed /\ load'.errors = load.errors
              \/ /\ Faults(Data[load.next]) = {}
                 /\ Padded(Data[load.next]) \notin load.seen
                 /\ load'.seen = load.seen \cup {Padded(Data[load.next])}
                 /\ load'.kept = Append(load.kept, Padded(Data[load.next]))
                 /\ load'.failed = load.failed /\ load'.errors = load.errors
                 /\ load'.duplicates = load.duplicates
  <1> DEFINE n == load.next
             r == Data[n]
  <1>1. /\ n \in 1 .. Len(Data) /\ r \in Seq(Cells) /\ load \in Loads
    BY CastOne DEF CastInv, StageInv
  <1>2. Faults(r) \subseteq Nat /\ Padded(r) \in Seq(Cells)
    BY <1>1, FaultsAre
  <1>3. /\ load.errors \in Seq([row : Nat, column : Nat]) /\ load.next + 1 \in Nat
        /\ load.failed + 1 \in Nat /\ load.duplicates + 1 \in Nat /\ n \in Nat
        /\ load.kept \in Seq(Seq(Cells)) /\ load.seen \in SUBSET Seq(Cells)
    BY <1>1 DEF Loads
  <1> HIDE DEF r
  <1>4. Faults(r) # {} => Report(n, Min(Faults(r))) \in Seq([row : Nat, column : Nat])
    <2> SUFFICES ASSUME Faults(r) # {} PROVE Report(n, Min(Faults(r))) \in Seq([row : Nat, column : Nat])
      OBVIOUS
    <2>1. Min(Faults(r)) \in Nat
      BY <1>2, LeastNat
    <2> DEFINE e == [row |-> n, column |-> Min(Faults(r))]
    <2>2. e \in [row : Nat, column : Nat]
      BY <1>3, <2>1
    <2> HIDE DEF e
    <2>3. Append(load.errors, e) \in Seq([row : Nat, column : Nat])
      BY <1>3, <2>2, AppendProperties
    <2> QED BY <1>3, <2>3 DEF Report, e
  <1>5. Append(load.kept, Padded(r)) \in Seq(Seq(Cells)) /\ load.seen \cup {Padded(r)} \in SUBSET Seq(Cells)
    BY <1>2, <1>3, AppendProperties
  <1>6. load' = IF Faults(r) # {}
                THEN [load EXCEPT !.next = n + 1, !.failed = load.failed + 1,
                                  !.errors = Report(n, Min(Faults(r)))]
                ELSE IF Padded(r) \in load.seen
                THEN [load EXCEPT !.next = n + 1, !.duplicates = load.duplicates + 1]
                ELSE [load EXCEPT !.next = n + 1, !.seen = load.seen \cup {Padded(r)},
                                  !.kept = Append(load.kept, Padded(r))]
    BY <1>1 DEF CastRow, Loads, r
  <1>7. CASE Faults(r) # {}
    BY <1>1, <1>3, <1>4, <1>6, <1>7 DEF Loads, r
  <1>8. CASE Faults(r) = {} /\ Padded(r) \in load.seen
    BY <1>1, <1>3, <1>6, <1>8 DEF Loads, r
  <1>9. CASE Faults(r) = {} /\ Padded(r) \notin load.seen
    BY <1>1, <1>3, <1>5, <1>6, <1>9 DEF Loads, r
  <1> QED BY <1>7, <1>8, <1>9

\* A row without a fault is kept unless its like is.
LEMMA CastKept ==
    ASSUME ReaderInv, CastInv, CastRow
    PROVE  KeptInv'
  <1> DEFINE n == load.next
             P == Padded(Data[n])
  <1>1. /\ load.seen = ToSet(load.kept) /\ IsInjective(load.kept)
        /\ load.seen = {Padded(Data[k]) : k \in Past \ Refused}
        /\ load \in Loads /\ n >= 1
    BY DEF CastInv, KeptInv, StageInv
  <1>2. /\ P \in Seq(Cells) /\ Past' = Past \cup {n} /\ Data' = Data
        /\ \A x : Padded(x)' = Padded(x)
        /\ Refused' = IF Faults(Data[n]) = {} THEN Refused ELSE Refused \cup {n}
    BY <1>1, CastOne, FaultsAre
  <1>3. n \notin Past /\ n \notin Refused
    BY <1>1, RefusedAre
  <1>4. load.kept \in Seq(Seq(Cells))
    BY <1>1 DEF Loads
  <1>5. {Padded(Data[k]) : k \in Past' \ Refused'}
            = IF Faults(Data[n]) = {} THEN load.seen \cup {P} ELSE load.seen
    BY <1>1, <1>2, <1>3
  <1>6. {Padded(Data[k]) : k \in Past \ Refused}' = {Padded(Data[k]) : k \in Past' \ Refused'}
    <2>1. load'.columns = load.columns /\ Data' = Data
      BY CastOne
    <2> QED BY <2>1 DEF Padded, Width
  <1>7. load'.seen = {Padded(Data[k]) : k \in Past \ Refused}'
    BY <1>5, <1>6, CastOutcome
  <1>8. load'.seen = ToSet(load'.kept) /\ IsInjective(load'.kept)
    <2>1. CASE load'.kept = load.kept /\ load'.seen = load.seen
      BY <1>1, <2>1
    <2>2. CASE /\ P \notin load.seen /\ load'.seen = load.seen \cup {P}
               /\ load'.kept = Append(load.kept, P)
      <3>1. /\ ToSet(Append(load.kept, P)) = ToSet(load.kept) \cup {P}
            /\ IsInjective(load.kept) /\ P \notin ToSet(load.kept) => IsInjective(Append(load.kept, P))
        BY <1>2, <1>4, AppendNew
      <3> QED BY <1>1, <2>2, <3>1
    <2> QED BY <2>1, <2>2, CastOutcome
  <1> QED BY <1>7, <1>8 DEF KeptInv

\* A row is counted as one of the three.
LEMMA CastCount ==
    ASSUME ReaderInv, CastInv, CastRow
    PROVE  CountInv'
  <1> DEFINE n == load.next
             kept == load.kept
  <1>1. /\ Len(kept) + load.duplicates + load.failed = n - 1
        /\ load.failed = Cardinality(Refused)
        /\ load \in Loads /\ n >= 1
    BY DEF CastInv, CountInv, StageInv
  <1>2. /\ load'.next = n + 1 /\ Padded(Data[n]) \in Seq(Cells)
        /\ Refused' = IF Faults(Data[n]) = {} THEN Refused ELSE Refused \cup {n}
    BY <1>1, CastOne, FaultsAre
  <1>3. n \notin Refused /\ IsFiniteSet(Refused) /\ Cardinality(Refused) \in Nat
    BY <1>1, RefusedAre
  <1>4. Cardinality(Refused \cup {n}) = Cardinality(Refused) + 1
    BY <1>3, FS_AddElement
  <1>5. kept \in Seq(Seq(Cells)) /\ load.duplicates \in Nat /\ load.failed \in Nat /\ n \in Nat
    BY <1>1 DEF Loads
  <1>6. Len(Append(kept, Padded(Data[n]))) = Len(kept) + 1 /\ Len(kept) \in Nat
    BY <1>2, <1>5, AppendProperties, LenProperties
  <1>7. load'.failed = Cardinality(Refused')
    BY <1>1, <1>2, <1>4, CastOutcome
  <1>8. Len(load'.kept) + load'.duplicates + load'.failed = n
    <2> DEFINE k == Len(kept)
    <2>1. k + load.duplicates + load.failed = n - 1 /\ k \in Nat
      BY <1>1, <1>6
    <2>2. \/ /\ Len(load'.kept) = k /\ load'.duplicates = load.duplicates
             /\ load'.failed = load.failed + 1
          \/ /\ Len(load'.kept) = k /\ load'.duplicates = load.duplicates + 1
             /\ load'.failed = load.failed
          \/ /\ Len(load'.kept) = k + 1 /\ load'.duplicates = load.duplicates
             /\ load'.failed = load.failed
      BY <1>6, CastOutcome
    <2>3. \A a, b, d, m \in Nat : a + b + d = m - 1 =>
              a + b + (d + 1) = m /\ a + (b + 1) + d = m /\ (a + 1) + b + d = m
      OBVIOUS
    <2> HIDE DEF k
    <2>4. /\ k + load.duplicates + (load.failed + 1) = n
          /\ k + (load.duplicates + 1) + load.failed = n
          /\ (k + 1) + load.duplicates + load.failed = n
      BY <1>5, <2>1, <2>3
    <2> QED BY <2>2, <2>4
  <1> QED BY <1>2, <1>5, <1>7, <1>8 DEF CountInv

\* A refused row is reported if there is room, after those refused before it.
LEMMA CastErrors ==
    ASSUME ReaderInv, CastInv, CastRow
    PROVE  ErrorsInv'
  <1> DEFINE n == load.next
             errors == load.errors
             Before(m) == {k \in Refused : k < m}
  <1>1. /\ Len(errors) = Min({MaxErrors, load.failed})
        /\ \A k \in DOMAIN errors :
              /\ errors[k].row \in Refused /\ Cardinality(Before(errors[k].row)) = k - 1
              /\ errors[k].column \in Faults(Data[errors[k].row])
        /\ load \in Loads /\ n >= 1 /\ load.failed = Cardinality(Refused)
    BY DEF CastInv, ErrorsInv, CountInv, StageInv
  <1>2. /\ load'.next = n + 1 /\ Faults(Data[n]) \subseteq Nat /\ Data' = Data
        /\ Refused' = IF Faults(Data[n]) = {} THEN Refused ELSE Refused \cup {n}
        /\ \A x : Faults(x)' = Faults(x)
    BY <1>1, CastOne, FaultsAre
  <1>3. /\ n \notin Refused /\ IsFiniteSet(Refused) /\ Cardinality(Refused) \in Nat
        /\ \A m \in Refused : m < n /\ m \in Nat
    BY <1>1, RefusedAre
  <1>4. errors \in Seq([row : Nat, column : Nat]) /\ load.failed \in Nat /\ n \in Nat /\ MaxErrors \in Nat
    BY <1>1, BoundsAssumption DEF Loads
  <1>5. Len(errors) = IF MaxErrors <= load.failed THEN MaxErrors ELSE load.failed
    BY <1>1, <1>4, LesserOf
  <1>6. ASSUME NEW k \in DOMAIN load'.errors,
               load'.errors[k].row \in Refused',
               Cardinality({m \in Refused' : m < load'.errors[k].row}) = k - 1,
               load'.errors[k].column \in Faults(Data[load'.errors[k].row])
        PROVE  /\ load'.errors[k].row \in Refused'
               /\ Cardinality({m \in Refused : m < load.errors[k].row})' = k - 1
               /\ (load.errors[k].column \in Faults(Data[load.errors[k].row]))'
    <2>1. load'.columns = load.columns /\ load'.types = load.types /\ Data' = Data
      BY CastOne
    <2> QED BY <1>6, <2>1 DEF Faults, Width
  <1>7. CASE Faults(Data[n]) = {}
    BY <1>1, <1>2, <1>6, <1>7, CastOutcome DEF ErrorsInv
  <1>8. CASE Faults(Data[n]) # {}
    <2> DEFINE e == [row |-> n, column |-> Min(Faults(Data[n]))]
    <2>1. /\ load'.failed = load.failed + 1 /\ Refused' = Refused \cup {n}
          /\ load'.errors = IF Len(errors) < MaxErrors THEN Append(errors, e) ELSE errors
      BY <1>2, <1>8, CastOutcome DEF Report
    <2>2. /\ e.row = n /\ e.column = Min(Faults(Data[n])) /\ Min(Faults(Data[n])) \in Faults(Data[n])
          /\ e \in [row : Nat, column : Nat]
      BY <1>2, <1>4, <1>8, LeastNat
    <2> HIDE DEF e
    <2>3. ASSUME NEW m \in Nat, m <= n PROVE {k \in Refused' : k < m} = Before(m)
      BY <1>3, <1>4, <2>1, <2>3
    <2>4. ASSUME NEW k \in DOMAIN errors
          PROVE  /\ errors[k].row \in Refused'
                 /\ Cardinality({m \in Refused' : m < errors[k].row}) = k - 1
                 /\ errors[k].column \in Faults(Data[errors[k].row])
      <3>1. errors[k].row \in Refused /\ errors[k].row <= n /\ errors[k].row \in Nat
        <4>1. errors[k].row \in Refused
          BY <1>1
        <4>2. errors[k].row < n /\ errors[k].row \in Nat
          BY <1>3, <4>1
        <4> QED BY <1>4, <4>1, <4>2
      <3> QED BY <1>1, <2>1, <2>3, <3>1
    <2>5. CASE Len(errors) >= MaxErrors
      <3>1. load'.errors = errors
        BY <1>4, <2>1, <2>5, LenProperties
      <3>2. Len(errors) = MaxErrors /\ MaxErrors <= load.failed + 1
        BY <1>4, <1>5, <2>5
      <3>3. Len(load'.errors) = Min({MaxErrors, load'.failed})
        BY <1>4, <2>1, <3>1, <3>2, LesserOf
      <3>4. \A k \in DOMAIN load'.errors :
               /\ load'.errors[k].row \in Refused'
               /\ Cardinality({m \in Refused : m < load.errors[k].row})' = k - 1
               /\ (load.errors[k].column \in Faults(Data[load.errors[k].row]))'
        BY <1>6, <2>4, <3>1
      <3> QED BY <3>3, <3>4 DEF ErrorsInv
    <2>6. CASE Len(errors) < MaxErrors
      <3>1. load'.errors = Append(errors, e)
        BY <2>1, <2>6
      <3>2. Len(errors) = load.failed /\ load.failed + 1 <= MaxErrors /\ load.failed < MaxErrors
        BY <1>4, <1>5, <2>6
      <3>3. /\ Len(load'.errors) = load.failed + 1 /\ load'.errors \in Seq([row : Nat, column : Nat])
            /\ \A k \in 1 .. load.failed : load'.errors[k] = errors[k]
            /\ load'.errors[load.failed + 1] = e
        BY <1>4, <2>2, <3>1, <3>2, AppendProperties
      <3>4. Len(load'.errors) = Min({MaxErrors, load'.failed})
        <4>1. Min({MaxErrors, load.failed + 1}) = load.failed + 1
          BY <1>4, <3>2, LesserOf
        <4> QED BY <2>1, <3>3, <4>1
      <3>5. /\ DOMAIN load'.errors = 1 .. load.failed + 1 /\ DOMAIN errors = 1 .. load.failed
        BY <1>4, <3>2, <3>3, Elements
      <3>6. ASSUME NEW k \in DOMAIN load'.errors
            PROVE  /\ load'.errors[k].row \in Refused'
                   /\ Cardinality({m \in Refused' : m < load'.errors[k].row}) = k - 1
                   /\ load'.errors[k].column \in Faults(Data[load'.errors[k].row])
        <4>1. CASE k \in 1 .. load.failed
          BY <2>4, <3>3, <3>5, <4>1
        <4>2. CASE k = load.failed + 1
          <5>1. load'.errors[k].row = n /\ load'.errors[k].column \in Faults(Data[n])
            BY <2>2, <3>3, <4>2
          <5>2. n <= n /\ Before(n) = Refused
            BY <1>3, <1>4
          <5>3. {m \in Refused' : m < n} = Refused
            BY <1>4, <2>3, <5>2
          <5>4. Cardinality(Refused) = k - 1
            BY <1>1, <1>4, <4>2
          <5> QED BY <2>1, <5>1, <5>3, <5>4
        <4> QED BY <1>4, <3>5, <4>1, <4>2
      <3>7. \A k \in DOMAIN load'.errors :
               /\ load'.errors[k].row \in Refused'
               /\ Cardinality({m \in Refused : m < load.errors[k].row})' = k - 1
               /\ (load.errors[k].column \in Faults(Data[load.errors[k].row]))'
        BY <1>6, <3>6
      <3> QED BY <3>4, <3>7 DEF ErrorsInv
    <2>7. Len(errors) \in Nat
      BY <1>4, LenProperties
    <2> QED BY <1>4, <2>5, <2>6, <2>7
  <1> QED BY <1>7, <1>8

\* Casting goes no further than the last row.
LEMMA CastStage ==
    ASSUME ReaderInv, CastInv, CastRow
    PROVE  StageInv'
  <1>1. StageInv /\ phase = "casting" /\ UNCHANGED <<phase, reader, naming>>
    BY CastOne DEF CastInv
  <1>2. /\ Structure(Rows)' = Structure(Rows) /\ Data' = Data /\ load' \in Loads
        /\ load'.next = load.next + 1 /\ load'.columns = load.columns
        /\ load.next \in 1 .. Len(Data) /\ Len(Data) \in Nat
    BY <1>1, CastOne, CastOutcome DEF Structure, Rows
  <1>3. load'.next >= 1 /\ load'.next <= Len(Data) + 1
    BY <1>2
  <1> QED BY <1>1, <1>2, <1>3 DEF StageInv

\* Before the first row is cast there is nothing to account for.
LEMMA BeforeCast ==
    ASSUME CastInv, load.next = 1, load'.next = 1, load'.seen = load.seen,
           load'.kept = load.kept, load'.failed = load.failed,
           load'.duplicates = load.duplicates, load'.errors = load.errors
    PROVE  KeptInv' /\ CountInv' /\ ErrorsInv'
  <1>1. /\ load \in Loads
        /\ load.seen = ToSet(load.kept) /\ IsInjective(load.kept)
        /\ load.seen = {Padded(Data[n]) : n \in Past \ Refused}
        /\ Len(load.kept) + load.duplicates + load.failed = load.next - 1
        /\ load.failed = Cardinality(Refused)
        /\ Len(load.errors) = Min({MaxErrors, load.failed})
    BY DEF CastInv, StageInv, KeptInv, CountInv, ErrorsInv
  <1>2. Past = {} /\ Past' = {} /\ Refused = {} /\ Refused' = {}
    BY DEF Past, Refused
  <1>3. load.seen = {} /\ load.failed = 0
    BY <1>1, <1>2, FS_EmptySet
  <1>4. KeptInv'
    BY <1>1, <1>2, <1>3 DEF KeptInv
  <1>5. CountInv'
    BY <1>1, <1>2 DEF CountInv
  <1>6. Len(load.errors) = 0
    <2>1. MaxErrors \in Nat /\ 0 \in Nat
      BY BoundsAssumption
    <2>2. Min({MaxErrors, 0}) = IF MaxErrors <= 0 THEN MaxErrors ELSE 0
      BY <2>1, LesserOf
    <2>3. Min({MaxErrors, 0}) = 0
      BY <2>1, <2>2
    <2> QED BY <1>1, <1>3, <2>3
  <1>7. DOMAIN load.errors = {}
    BY <1>1, <1>6, Elements DEF Loads
  <1>8. ErrorsInv'
    BY <1>1, <1>7 DEF ErrorsInv
  <1> QED BY <1>4, <1>5, <1>8

\* The account does not depend on what is done after the last row.
LEMMA AfterCast ==
    ASSUME CastInv, reader' = reader, load'.next = load.next,
           load'.columns = load.columns, load'.types = load.types, load'.seen = load.seen,
           load'.kept = load.kept, load'.failed = load.failed,
           load'.duplicates = load.duplicates, load'.errors = load.errors
    PROVE  KeptInv' /\ CountInv' /\ ErrorsInv'
  <1>1. Past' = Past /\ Refused' = Refused /\ Data' = Data
    BY DEF Past, Refused, Faults, Width, Data, Rows
  <1>2. KeptInv'
    <2>1. {Padded(Data[n]) : n \in Past \ Refused}' = {Padded(Data[n]) : n \in Past \ Refused}
      BY <1>1 DEF Padded, Width
    <2> QED BY <2>1 DEF CastInv, KeptInv
  <1>3. CountInv'
    BY <1>1 DEF CastInv, CountInv
  <1>4. ErrorsInv'
    <2>1. ASSUME NEW k \in DOMAIN load.errors
          PROVE  (/\ load.errors[k].row \in Refused
                  /\ Cardinality({n \in Refused : n < load.errors[k].row}) = k - 1
                  /\ load.errors[k].column \in Faults(Data[load.errors[k].row]))'
      <3>1. /\ load.errors[k].row \in Refused
            /\ Cardinality({n \in Refused : n < load.errors[k].row}) = k - 1
            /\ load.errors[k].column \in Faults(Data[load.errors[k].row])
        BY DEF CastInv, ErrorsInv
      <3>2. Faults(Data[load.errors[k].row])' = Faults(Data[load.errors[k].row])
        BY <1>1 DEF Faults, Width
      <3> QED BY <1>1, <3>1, <3>2
    <2> QED BY <2>1 DEF CastInv, ErrorsInv
  <1> QED BY <1>2, <1>3, <1>4

-----------------------------------------------------------------------------
(* CsvParse: the invariant of the specification. *)

CsvInv == ReaderInv /\ NamingInv /\ PreviewInv /\ CastInv

\* Nothing is read, named, shown or cast at first.
LEMMA CsvInitially ==
    ASSUME CsvInit
    PROVE  CsvInv
  <1> USE DEF CsvInit
  <1>1. <<>> \in Cells /\ <<>> \in Seq(Cells) /\ <<>> \in Seq(Seq(Cells)) /\ <<>> \in Seq(Usable)
        /\ <<>> \in Seq(AllowedTypes) /\ <<>> \in Seq([row : Nat, column : Nat])
    BY EmptySeq DEF Cells
  <1>2. DOMAIN <<>> = {} /\ ToSet(<<>>) = {} /\ Len(<<>>) = 0
    BY EmptySeq DEF ToSet
  <1>3. ReaderInv
    <2>1. reader \in Readers
      BY <1>1 DEF Readers
    <2> QED BY <2>1 DEF ReaderInv, Phases
  <1>4. NamingInv
    <2>1. <<>> \in [{} -> 1 .. MaxColumns]
      BY <1>2
    <2>2. <<>> \in Counters
      BY <2>1 DEF Counters
    <2>3. 1 \in 1 .. MaxColumns
      BY BoundsAssumption
    <2>4. IsInjective(<<>>)
      BY <1>2 DEF IsInjective
    <2> QED BY <1>1, <1>2, <2>2, <2>3, <2>4 DEF NamingInv
  <1>5. PreviewInv
    BY DEF PreviewInv
  <1>6. CastInv
    <2>1. load \in Loads
      BY <1>1 DEF Loads, Outcomes
    <2>2. Past = {} /\ Refused = {}
      BY DEF Past, Refused
    <2>3. StageInv
      BY <2>1 DEF StageInv
    <2>4. KeptInv
      <3>1. IsInjective(<<>>)
        BY <1>2 DEF IsInjective
      <3>2. {Padded(Data[n]) : n \in Past \ Refused} = {}
        BY <2>2
      <3> QED BY <1>2, <3>1, <3>2 DEF KeptInv
    <2>5. CountInv
      BY <1>2, <2>2, FS_EmptySet DEF CountInv
    <2>6. ErrorsInv
      <3>1. Min({MaxErrors, 0}) = 0
        BY LesserOf, BoundsAssumption
      <3> QED BY <1>2, <3>1 DEF ErrorsInv
    <2> QED BY <2>3, <2>4, <2>5, <2>6 DEF CastInv
  <1> QED BY <1>3, <1>4, <1>5, <1>6 DEF CsvInv

\* Once the columns are named the names stand, and so does the preview of them.
LEMMA NamesStand ==
    ASSUME NamingInv, naming' = naming, reader' = reader, phase' # "reading",
           Naming => FALSE
    PROVE  NamingInv'
  <1>1. naming.number > 1 <=> FALSE
    BY DEF NamingInv
  <1> QED BY <1>1 DEF NamingInv

\* The preview does not change once it is shown.
LEMMA PreviewStands ==
    ASSUME PreviewInv, preview' = preview, naming' = naming, reader' = reader,
           phase \notin {"reading", "parsed"}, phase' \notin {"reading", "parsed"}
    PROVE  PreviewInv'
  <1>1. Rows' = Rows /\ Structure(Rows)' = Structure(Rows) /\ Data' = Data
    BY DEF Rows, Structure, Data
  <1>2. ASSUME NEW c PROVE Sampled(c)' = Sampled(c)
    BY <1>1 DEF Sampled
  <1> QED BY <1>1, <1>2 DEF PreviewInv

\* An outcome changes nothing that the invariant says of the rows.
LEMMA CsvConclude ==
    ASSUME CsvInv, NEW outcome \in Outcomes, Conclude(outcome),
           phase \in {"previewed", "casting"}, load.next > 1 => load.next = Len(Data) + 1
    PROVE  CsvInv'
  <1>1. load \in Loads /\ reader' = reader
    BY DEF CsvInv, CastInv, StageInv, Conclude
  <1>2. load' \in Loads
    BY <1>1 DEF Conclude, Loads
  <1>3. /\ load'.next = load.next /\ load'.columns = load.columns /\ load'.types = load.types
        /\ load'.seen = load.seen /\ load'.kept = load.kept /\ load'.failed = load.failed
        /\ load'.duplicates = load.duplicates /\ load'.errors = load.errors
    BY <1>1 DEF Conclude, Loads
  <1>4. KeptInv' /\ CountInv' /\ ErrorsInv'
    BY <1>1, <1>3, AfterCast DEF CsvInv
  <1>5. Structure(Rows)' = Structure(Rows) /\ Data' = Data
    BY <1>1 DEF Structure, Data, Rows
  <1>6. StageInv'
    BY <1>2, <1>3, <1>5 DEF CsvInv, CastInv, StageInv, Conclude
  <1>7. NamingInv' /\ PreviewInv'
    BY NamesStand, PreviewStands DEF CsvInv, Naming, Conclude
  <1>8. ReaderInv'
    BY DEF CsvInv, ReaderInv, Conclude, Phases
  <1> QED BY <1>4, <1>6, <1>7, <1>8 DEF CsvInv, CastInv

\* The invariant survives a step of the reader,
LEMMA CsvRead ==
    ASSUME CsvInv, Read
    PROVE  CsvInv'
  <1>1. /\ ReaderInv' /\ phase = "reading" /\ phase' \in {"reading", "parsed"}
        /\ UNCHANGED <<file, naming, preview, load>>
    BY ReadStep DEF CsvInv
  <1>2. NamingInv'
    <2>1. naming = [names |-> <<>>, counter |-> <<>>, number |-> 1]
      BY <1>1 DEF CsvInv, NamingInv
    <2>2. DOMAIN naming.counter = {} /\ ~ (naming.number > 1)
      BY <2>1
    <2> QED BY <1>1, <2>1, <2>2 DEF CsvInv, NamingInv
  <1>3. PreviewInv'
    BY <1>1 DEF CsvInv, PreviewInv
  <1>4. CastInv'
    <2>1. load.next = 1
      BY <1>1 DEF CsvInv, CastInv, StageInv
    <2>2. KeptInv' /\ CountInv' /\ ErrorsInv'
      BY <1>1, <2>1, BeforeCast DEF CsvInv
    <2>3. StageInv'
      BY <1>1, <2>1 DEF CsvInv, CastInv, StageInv
    <2> QED BY <2>2, <2>3 DEF CastInv
  <1> QED BY <1>1, <1>2, <1>3, <1>4 DEF CsvInv

\* a step of the naming, the preview or the upload,
LEMMA CsvImport ==
    ASSUME CsvInv, Import
    PROVE  CsvInv'
  <1> USE DEF CsvInv
  <1>1. CASE GiveName \/ TryNumber
    <2>1. phase = "parsed" /\ UNCHANGED <<file, phase, reader, preview, load>>
      BY <1>1 DEF GiveName, TryNumber, Naming
    <2>2. NamingInv'
      BY <1>1, GiveStep, TryStep
    <2>3. ReaderInv' /\ PreviewInv'
      BY <2>1 DEF ReaderInv, PreviewInv
    <2>4. load.next = 1
      BY <2>1 DEF CastInv, StageInv
    <2>5. KeptInv' /\ CountInv' /\ ErrorsInv'
      BY <2>1, <2>4, BeforeCast
    <2>6. StageInv'
      BY <2>1, <2>4 DEF CastInv, StageInv
    <2> QED BY <2>2, <2>3, <2>5, <2>6 DEF CastInv
  <1>2. CASE BuildPreview
    <2>1. /\ phase = "parsed" /\ phase' = "previewed" /\ UNCHANGED <<file, reader, naming, load>>
          /\ Structure(Rows) = "ok" => Len(naming.names) = Len(Rows[1])
      BY <1>2 DEF BuildPreview
    <2>2. ~ Naming
      <3> SUFFICES ASSUME Naming PROVE FALSE
        OBVIOUS
      <3>1. naming.names \in Seq(Usable)
        BY DEF NamingInv
      <3>2. Len(naming.names) < Len(Rows[1]) /\ Len(Rows[1]) \in Nat
        BY <3>1, HeaderStemIs
      <3>3. Len(naming.names) = Len(Rows[1])
        BY <2>1 DEF Naming
      <3> QED BY <3>2, <3>3
    <2>3. NamingInv' /\ PreviewInv'
      BY <1>2, <2>1, <2>2, NamesStand, BuildStep
    <2>4. ReaderInv'
      BY <2>1 DEF ReaderInv, Phases
    <2>5. load.next = 1
      BY <2>1 DEF CastInv, StageInv
    <2>6. KeptInv' /\ CountInv' /\ ErrorsInv'
      BY <2>1, <2>5, BeforeCast
    <2>7. StageInv'
      BY <2>1, <2>5 DEF CastInv, StageInv
    <2> QED BY <2>3, <2>4, <2>6, <2>7 DEF CastInv
  <1>3. CASE RefuseStructure \/ RefuseUpload
    <2>1. phase = "previewed" /\ \E outcome \in Outcomes : Conclude(outcome)
      BY <1>3 DEF RefuseStructure, RefuseUpload, Outcomes
    <2>2. load.next = 1
      BY <2>1 DEF CastInv, StageInv
    <2> QED BY <2>1, <2>2, CsvConclude
  <1>4. CASE StartCasting
    <2>1. /\ phase = "previewed" /\ phase' = "casting" /\ Structure(Rows) = "ok"
          /\ UNCHANGED <<file, reader, naming, preview>>
      BY <1>4 DEF StartCasting
    <2>2. PICK types \in {preview.types, preview.browser, [c \in DOMAIN naming.names |-> "text"]} :
              load' = [load EXCEPT !.columns = naming.names, !.types = types]
      BY <1>4 DEF StartCasting
    <2>3. naming.names \in Seq(Usable)
      BY DEF NamingInv
    <2>4. types \in Seq(AllowedTypes)
      <3>1. /\ preview.types = [c \in DOMAIN naming.names |-> InferType(Sampled(c))]
            /\ preview.browser = [c \in DOMAIN naming.names |-> BrowserInfer(Sampled(c))]
        BY <2>1 DEF PreviewInv
      <3>2. DOMAIN naming.names = 1 .. Len(naming.names) /\ Len(naming.names) \in Nat
        BY <2>3, Elements
      <3>3. "text" \in AllowedTypes
        BY DEF AllowedTypes
      <3>4. /\ [c \in 1 .. Len(naming.names) |-> InferType(Sampled(c))] \in Seq(AllowedTypes)
            /\ [c \in 1 .. Len(naming.names) |-> BrowserInfer(Sampled(c))] \in Seq(AllowedTypes)
            /\ [c \in 1 .. Len(naming.names) |-> "text"] \in Seq(AllowedTypes)
        BY <3>2, <3>3, InferCasts, BrowserCasts, IsASeq
      <3> QED BY <3>1, <3>2, <3>4
    <2>5. load.next = 1 /\ load \in Loads
      BY <2>1 DEF CastInv, StageInv
    <2>6. /\ load' \in Loads /\ load'.columns = naming.names /\ load'.next = load.next
          /\ load'.seen = load.seen /\ load'.kept = load.kept /\ load'.failed = load.failed
          /\ load'.duplicates = load.duplicates /\ load'.errors = load.errors
      BY <2>2, <2>3, <2>4, <2>5 DEF Loads
    <2>7. KeptInv' /\ CountInv' /\ ErrorsInv'
      BY <2>5, <2>6, BeforeCast
    <2>8. Structure(Rows)' = Structure(Rows)
      BY <2>1 DEF Structure, Rows
    <2>9. StageInv'
      BY <2>1, <2>5, <2>6, <2>8 DEF StageInv
    <2>10. NamingInv' /\ PreviewInv'
      BY <2>1, NamesStand, PreviewStands DEF Naming
    <2>11. ReaderInv'
      BY <2>1 DEF ReaderInv, Phases
    <2> QED BY <2>7, <2>9, <2>10, <2>11 DEF CastInv
  <1>5. CASE CastRow
    <2>1. phase = "casting" /\ UNCHANGED <<file, phase, reader, naming, preview>>
      BY <1>5 DEF CastRow
    <2>2. ReaderInv' /\ NamingInv' /\ PreviewInv'
      BY <2>1, NamesStand, PreviewStands DEF ReaderInv, Naming
    <2>3. CastInv'
      BY <1>5, CastStage, CastKept, CastCount, CastErrors DEF CastInv
    <2> QED BY <2>2, <2>3
  <1>6. CASE FinishCasting
    <2>1. phase = "casting" /\ load.next > Len(Data) /\ \E outcome \in Outcomes : Conclude(outcome)
      BY <1>6 DEF FinishCasting, Outcomes
    <2>2. load.next > 1 => load.next = Len(Data) + 1
      <3>1. /\ Structure(Rows) = "ok" /\ load.next \in Nat
            /\ load.next > 1 => load.next <= Len(Data) + 1
        BY <2>1 DEF CastInv, StageInv, Loads
      <3>2. Len(Data) \in Nat
        BY <3>1, DataIs
      <3> QED BY <2>1, <3>1, <3>2
    <2> QED BY <2>1, <2>2, CsvConclude
  <1> QED BY <1>1, <1>2, <1>3, <1>4, <1>5, <1>6 DEF Import

\* and a step that changes nothing.
LEMMA CsvIdle ==
    ASSUME CsvInv, UNCHANGED csvVars
    PROVE  CsvInv'
  <1> USE DEF csvVars
  <1>1. ReaderInv' /\ StageInv'
    BY DEF CsvInv, CastInv, ReaderInv, StageInv, Structure, Data, Rows
  <1>2. NamingInv'
    BY DEF CsvInv, NamingInv, Naming, HeaderStem, Structure, Rows
  <1>3. PreviewInv'
    <2>1. ASSUME NEW c PROVE Sampled(c)' = Sampled(c)
      BY DEF Sampled, Data, Rows
    <2> QED BY <2>1 DEF CsvInv, PreviewInv, Structure, Rows
  <1>4. KeptInv' /\ CountInv' /\ ErrorsInv'
    BY AfterCast DEF CsvInv
  <1> QED BY <1>1, <1>2, <1>3, <1>4 DEF CsvInv, CastInv

\* From the first symbol to the last row: what is read are rows of cells, the names
\* given are different and usable, the numbers tried for a stem are all taken,
\* the types suggested are those of the sample, and each row cast is kept, skipped
\* or failed (csv_parse.py, and the casting loop of dynamic_loader.py).
THEOREM CsvInvariant == CsvSpec => []CsvInv
  <1>1. CsvInit => CsvInv
    BY CsvInitially
  <1>2. CsvInv /\ [CsvNext]_csvVars => CsvInv'
    BY CsvRead, CsvImport, CsvIdle DEF CsvNext
  <1> QED BY <1>1, <1>2, PTL DEF CsvSpec

\* Every header gets a name of its own, whatever the stems have in common: the
\* search for a number that is free ends within the columns of the header.
THEOREM NamesAreUsable == CsvSpec => []NamesUsable
  <1>1. ASSUME CsvInv PROVE NamesUsable
    <2> SUFFICES ASSUME preview.status = "ok"
                 PROVE  /\ Len(preview.columns) = Len(Rows[1]) /\ IsInjective(preview.columns)
                        /\ \A c \in DOMAIN preview.columns :
                              /\ ValidIdentifier(preview.columns[c])
                              /\ preview.columns[c] \notin Reserved
      BY DEF NamesUsable
    <2>1. /\ preview.columns = naming.names /\ Len(naming.names) = Len(Rows[1])
          /\ naming.names \in Seq(Usable) /\ IsInjective(naming.names)
      BY <1>1 DEF CsvInv, PreviewInv, NamingInv
    <2>2. ASSUME NEW name \in Usable PROVE ValidIdentifier(name) /\ name \notin Reserved
      <3>1. name \in Seq(NameSymbols) /\ Len(name) <= MaxName /\ Len(name) >= 1
            /\ name[1] \notin Digits /\ name[1] # Underscore
        BY DEF Usable, Beginning
      <3>2. Len(name) \in Nat /\ MaxName \in Nat /\ ToSet(name) \subseteq NameSymbols
        BY <3>1, Elements, BoundsAssumption
      <3>3. name # <<>> /\ Head(name) = name[1]
        BY <3>1, <3>2, Elements, EmptySeq
      <3>4. ValidIdentifier(name)
        BY <3>1, <3>2, <3>3 DEF ValidIdentifier
      <3>5. name # <<Underscore, "i", "d">>
        BY <3>1
      <3> QED BY <3>4, <3>5 DEF Reserved
    <2>3. \A c \in DOMAIN naming.names : naming.names[c] \in Usable
      BY <2>1, Elements
    <2> QED BY <2>1, <2>2, <2>3
  <1>2. CsvInv => NamesUsable
    BY <1>1
  <1> QED BY <1>2, CsvInvariant, PTL

\* The types the API and the browser suggest are types the cast accepts every
\* sampled cell under.
THEOREM SuggestionsHold == CsvSpec => []SuggestionHolds
  <1>1. ASSUME CsvInv PROVE SuggestionHolds
    <2> SUFFICES ASSUME load.types \in {preview.types, preview.browser},
                        NEW k \in DOMAIN load.errors, load.errors[k].row <= InferRows,
                        load.errors[k].column # 0
                 PROVE  FALSE
      BY DEF SuggestionHolds
    <2> DEFINE n == load.errors[k].row
               c == load.errors[k].column
    <2>1. n \in Refused /\ c \in Faults(Data[n])
      BY <1>1 DEF CsvInv, CastInv, ErrorsInv
    <2>2. n \in 1 .. load.next - 1 /\ load \in Loads /\ load.next \in Nat /\ load.next >= 1
      BY <1>1, <2>1 DEF Refused, Past, CsvInv, CastInv, StageInv, Loads
    <2> HIDE DEF n, c
    <2>3. load.next > 1
      BY <2>2
    <2>4. Structure(Rows) = "ok" /\ load.columns = naming.names /\ load.next <= Len(Data) + 1
      BY <1>1, <2>3 DEF CsvInv, CastInv, StageInv
    <2>5. n \in 1 .. Len(Data)
      BY <1>1, <2>2, <2>4, DataIs DEF CsvInv
    <2>6. n \in 1 .. Min({InferRows, Len(Data)})
      BY <1>1, <2>4, <2>5, DataIs DEF CsvInv, n
    <2>7. c \in 1 .. Width /\ ~ Casts(Cell(Data[n], c), load.types[c])
      BY <2>1 DEF Faults, c
    <2>8. c \in DOMAIN naming.names
      BY <1>1, <2>4, <2>7, Elements DEF Width, CsvInv, NamingInv
    <2>9. preview.status = "ok"
      BY <1>1, <2>3, <2>4 DEF CsvInv, PreviewInv, CastInv, StageInv, ReaderInv, Phases
    <2>10. load.types[c] \in {InferType(Sampled(c)), BrowserInfer(Sampled(c))}
      BY <1>1, <2>8, <2>9 DEF CsvInv, PreviewInv
    <2>11. n \in DOMAIN Sampled(c) /\ Sampled(c)[n] = Cell(Data[n], c)
      BY <2>6 DEF Sampled
    <2>12. Casts(Cell(Data[n], c), load.types[c])
      BY <2>10, <2>11, InferCasts, BrowserCasts
    <2> QED BY <2>7, <2>12
  <1>2. CsvInv => SuggestionHolds
    BY <1>1
  <1> QED BY <1>2, CsvInvariant, PTL

\* A finished upload has accounted for each row once, and what it reports are the
\* first rows that failed.
THEOREM RowsAreAccounted == CsvSpec => []RowsAccounted
  <1>1. ASSUME CsvInv PROVE RowsAccounted
    <2> SUFFICES ASSUME phase = "done", load.next > 1
                 PROVE  LET castable == {n \in DOMAIN Data : Faults(Data[n]) = {}}
                            wrong == DOMAIN Data \ castable
                        IN  /\ ToSet(load.kept) = {Padded(Data[n]) : n \in castable}
                            /\ IsInjective(load.kept)
                            /\ load.failed = Cardinality(wrong)
                            /\ Len(load.kept) + load.duplicates + load.failed = Len(Data)
                            /\ Len(load.errors) = Min({MaxErrors, load.failed})
                            /\ \A k \in DOMAIN load.errors :
                                  /\ load.errors[k].row \in wrong
                                  /\ Cardinality({n \in wrong : n < load.errors[k].row}) = k - 1
      BY DEF RowsAccounted
    <2>1. /\ StageInv /\ KeptInv /\ CountInv /\ ErrorsInv /\ ReaderInv
          /\ Structure(Rows) = "ok" /\ load.next = Len(Data) + 1
      BY <1>1 DEF CsvInv, CastInv, StageInv
    <2>2. Len(Data) \in Nat /\ DOMAIN Data = 1 .. Len(Data)
      BY <2>1, DataIs
    <2>3. Past = DOMAIN Data /\ load.next - 1 = Len(Data)
      BY <2>1, <2>2 DEF Past
    <2> DEFINE castable == {n \in DOMAIN Data : Faults(Data[n]) = {}}
    <2>4. Past \ Refused = castable /\ DOMAIN Data \ castable = Refused
      BY <2>3 DEF Refused
    <2> HIDE DEF castable
    <2>5. /\ ToSet(load.kept) = {Padded(Data[n]) : n \in castable} /\ IsInjective(load.kept)
      BY <2>1, <2>4 DEF KeptInv
    <2>6. /\ load.failed = Cardinality(Refused)
          /\ Len(load.kept) + load.duplicates + load.failed = Len(Data)
      BY <2>1, <2>3 DEF CountInv
    <2> QED BY <2>1, <2>4, <2>5, <2>6 DEF ErrorsInv, castable
  <1>2. CsvInv => RowsAccounted
    BY <1>1
  <1> QED BY <1>2, CsvInvariant, PTL

-----------------------------------------------------------------------------
(* CsvParse: what is read is what was written. *)

Places == [row : Nat, cell : Nat, done : Nat, quoted : BOOLEAN]
Sheets == Seq(Seq(Cells) \ {<<>>})

\* The reader holds what of the sheet S was written before the place a.
InCell(S, a, rd) ==
    /\ a.row \in 1 .. Len(S) /\ a.cell \in 1 .. Len(S[a.row])
    /\ a.done \in 0 .. Len(S[a.row][a.cell])
    /\ rd.rows = SubSeq(S, 1, a.row - 1)
    /\ rd.row = SubSeq(S[a.row], 1, a.cell - 1)
    /\ rd.field = SubSeq(S[a.row][a.cell], 1, a.done)

AtEnd(S, a, rd) ==
    a = CellStart(Len(S) + 1, 1) /\ rd.rows = S /\ rd.row = <<>> /\ rd.field = <<>>

Follows(f, rd) ==
    /\ rd.pos \in DOMAIN f.places /\ f.places[rd.pos] \in Places
    /\ rd.quoted = f.places[rd.pos].quoted
    /\ InCell(f.sheet, f.places[rd.pos], rd) \/ AtEnd(f.sheet, f.places[rd.pos], rd)

\* The reader follows the writer symbol by symbol.
RoundInv ==
    IF phase = "reading" THEN Follows(file, reader)
    ELSE reader.rows = DropBlankEnd(file.sheet)

\* The first elements of a sequence, and one more.
LEMMA OneMore ==
    ASSUME NEW T, NEW s \in Seq(T), NEW k \in 0 .. Len(s), k # Len(s)
    PROVE  Append(SubSeq(s, 1, k), s[k + 1]) = SubSeq(s, 1, k + 1)
  <1>1. Len(s) \in Nat /\ k \in Nat /\ k < Len(s)
    BY LenProperties
  <1>2. k + 1 \in 1 .. Len(s) /\ 1 \in 1 .. Len(s) /\ k + 1 \in 1 .. Len(s) /\ k + 1 - 1 = k
    BY <1>1
  <1>3. s[k + 1] \in T /\ SubSeq(s, 1, k) \in Seq(T)
    BY <1>2, ElementOfSeq, FirstOf
  <1>4. SubSeq(s, 1, k + 1) = SubSeq(s, 1, k) \o <<s[k + 1]>>
    <2> DEFINE m == k + 1
    <2>1. m \in 1 .. Len(s) /\ m - 1 = k
      BY <1>2
    <2> HIDE DEF m
    <2>2. SubSeq(s, 1, m) = SubSeq(s, 1, m - 1) \o <<s[m]>>
      BY <1>2, <2>1, SubSeqRecursiveSecond
    <2> QED BY <2>1, <2>2 DEF m
  <1> QED BY <1>3, <1>4, AppendIsConcat

\* The rows and cells of a sheet.
LEMMA SheetIs ==
    ASSUME NEW S \in Sheets
    PROVE  /\ S \in Seq(Seq(Cells)) /\ Len(S) \in Nat
           /\ \A r \in 1 .. Len(S) :
                 /\ S[r] \in Seq(Cells) /\ Len(S[r]) \in Nat /\ Len(S[r]) >= 1
                 /\ \A c \in 1 .. Len(S[r]) : S[r][c] \in Cells /\ Len(S[r][c]) \in Nat
  <1>1. Len(S) \in Nat /\ \A r \in 1 .. Len(S) : S[r] \in Seq(Cells) \ {<<>>}
    BY Elements DEF Sheets
  <1>2. (Seq(Cells) \ {<<>>}) \subseteq Seq(Cells)
    OBVIOUS
  <1>3. S \in Seq(Seq(Cells))
    BY <1>2, SeqMonotonic DEF Sheets
  <1>4. ASSUME NEW r \in 1 .. Len(S)
        PROVE  /\ S[r] \in Seq(Cells) /\ Len(S[r]) \in Nat /\ Len(S[r]) >= 1
               /\ \A c \in 1 .. Len(S[r]) : S[r][c] \in Cells /\ Len(S[r][c]) \in Nat
    <2>1. S[r] \in Seq(Cells) /\ S[r] # <<>>
      BY <1>1
    <2>2. Len(S[r]) \in Nat /\ Len(S[r]) # 0
      BY <2>1, EmptySeq, LenProperties
    <2>3. \A c \in 1 .. Len(S[r]) : S[r][c] \in Cells
      BY <2>1, Elements
    <2>4. \A c \in 1 .. Len(S[r]) : Len(S[r][c]) \in Nat
      BY <2>3, LenProperties DEF Cells
    <2> QED BY <2>1, <2>2, <2>3, <2>4
  <1> QED BY <1>1, <1>3, <1>4

\* One more symbol of a cell is read,
LEMMA OneSymbol ==
    ASSUME NEW S \in Sheets, NEW a \in Places, NEW rd, NEW rd2, InCell(S, a, rd),
           a.done # Len(S[a.row][a.cell]), rd2.rows = rd.rows, rd2.row = rd.row,
           rd2.field = Append(rd.field, S[a.row][a.cell][a.done + 1])
    PROVE  InCell(S, [a EXCEPT !.done = @ + 1], rd2) /\ [a EXCEPT !.done = @ + 1] \in Places
  <1> DEFINE cell == S[a.row][a.cell]
             b == [a EXCEPT !.done = @ + 1]
  <1>1. /\ a.row \in 1 .. Len(S) /\ a.cell \in 1 .. Len(S[a.row]) /\ a.done \in 0 .. Len(cell)
        /\ rd.rows = SubSeq(S, 1, a.row - 1) /\ rd.row = SubSeq(S[a.row], 1, a.cell - 1)
        /\ rd.field = SubSeq(cell, 1, a.done)
    BY DEF InCell
  <1>2. b \in Places /\ b.row = a.row /\ b.cell = a.cell /\ b.done = a.done + 1
    BY DEF Places
  <1>3. cell \in Seq(Symbols) /\ Len(cell) \in Nat
    BY <1>1, SheetIs DEF Cells
  <1> HIDE DEF b
  <1>4. b.done \in 0 .. Len(cell)
    <2>1. a.done \in 0 .. Len(cell) /\ a.done # Len(cell) /\ Len(cell) \in Nat
      BY <1>1, <1>3
    <2>2. \A x, y \in Nat : x \in 0 .. y /\ x # y => x + 1 \in 0 .. y
      OBVIOUS
    <2> HIDE DEF cell
    <2> QED BY <1>2, <2>1, <2>2
  <1>5. Append(SubSeq(cell, 1, a.done), cell[a.done + 1]) = SubSeq(cell, 1, a.done + 1)
    BY <1>1, <1>3, OneMore
  <1>6. InCell(S, b, rd2)
    BY <1>1, <1>2, <1>4, <1>5 DEF InCell
  <1> QED BY <1>2, <1>6 DEF b

\* one more cell of a row,
LEMMA OneCell ==
    ASSUME NEW S \in Sheets, NEW a \in Places, NEW rd, NEW rd2, InCell(S, a, rd),
           a.done = Len(S[a.row][a.cell]), a.cell < Len(S[a.row]), rd2.rows = rd.rows,
           rd2.row = Append(rd.row, rd.field), rd2.field = <<>>
    PROVE  InCell(S, CellStart(a.row, a.cell + 1), rd2) /\ CellStart(a.row, a.cell + 1) \in Places
  <1> DEFINE row == S[a.row]
             b == CellStart(a.row, a.cell + 1)
  <1>1. /\ a.row \in 1 .. Len(S) /\ a.cell \in 1 .. Len(row) /\ a.row \in Nat /\ a.cell \in Nat
        /\ rd.rows = SubSeq(S, 1, a.row - 1) /\ rd.row = SubSeq(row, 1, a.cell - 1)
        /\ rd.field = SubSeq(row[a.cell], 1, a.done)
    BY DEF InCell, Places
  <1>2. b \in Places /\ b.row = a.row /\ b.cell = a.cell + 1 /\ b.done = 0
    BY <1>1 DEF Places, CellStart
  <1>3. /\ row \in Seq(Cells) /\ Len(row) \in Nat /\ row[a.cell] \in Seq(Symbols)
        /\ a.cell + 1 \in 1 .. Len(row)
    <2>1. row \in Seq(Cells) /\ Len(row) \in Nat /\ row[a.cell] \in Seq(Symbols)
      BY <1>1, SheetIs DEF Cells
    <2>2. \A x, y \in Nat : x < y => x + 1 \in 1 .. y
      OBVIOUS
    <2>3. a.cell + 1 \in 1 .. Len(row)
      BY <1>1, <2>1, <2>2
    <2> QED BY <2>1, <2>3
  <1>4. Len(row[a.cell + 1]) \in Nat
    BY <1>1, <1>3, SheetIs
  <1>5. rd.field = row[a.cell]
    BY <1>1, <1>3, SubSeqFull
  <1>6. rd2.row = SubSeq(row, 1, a.cell)
    <2> DEFINE k == a.cell - 1
    <2>1. \A x, y \in Nat : x \in 1 .. y => x - 1 \in 0 .. y /\ x - 1 # y /\ x - 1 + 1 = x
      OBVIOUS
    <2>2. k \in 0 .. Len(row) /\ k # Len(row) /\ k + 1 = a.cell
      BY <1>1, <1>3, <2>1
    <2> HIDE DEF k
    <2>3. Append(SubSeq(row, 1, k), row[k + 1]) = SubSeq(row, 1, k + 1)
      BY <1>3, <2>2, OneMore
    <2>4. rd.row = SubSeq(row, 1, k)
      BY <1>1 DEF k
    <2> QED BY <1>5, <2>2, <2>3, <2>4
  <1>7. SubSeq(row[a.cell + 1], 1, 0) = <<>>
    BY SubSeqEmpty
  <1> HIDE DEF b
  <1>8. b.cell - 1 = a.cell /\ 0 \in 0 .. Len(row[b.cell])
    BY <1>1, <1>2, <1>4
  <1>9. InCell(S, b, rd2)
    BY <1>1, <1>2, <1>3, <1>6, <1>7, <1>8 DEF InCell
  <1> QED BY <1>2, <1>9 DEF b

\* What a row is when its last cell is whole.
LEMMA WholeRow ==
    ASSUME NEW S \in Sheets, NEW a \in Places, NEW rd, InCell(S, a, rd),
           a.done = Len(S[a.row][a.cell]), a.cell = Len(S[a.row])
    PROVE  /\ Append(rd.row, rd.field) = S[a.row]
           /\ Append(rd.rows, Append(rd.row, rd.field)) = SubSeq(S, 1, a.row)
           /\ rd.field = S[a.row][a.cell] /\ rd.row = SubSeq(S[a.row], 1, a.cell - 1)
  <1> DEFINE row == S[a.row]
  <1>1. /\ a.row \in 1 .. Len(S) /\ a.cell \in 1 .. Len(row)
        /\ rd.rows = SubSeq(S, 1, a.row - 1) /\ rd.row = SubSeq(row, 1, a.cell - 1)
        /\ rd.field = SubSeq(row[a.cell], 1, a.done)
    BY DEF InCell
  <1>2. /\ row \in Seq(Cells) /\ Len(row) \in Nat /\ row[a.cell] \in Seq(Symbols)
        /\ S \in Seq(Seq(Cells)) /\ Len(S) \in Nat
    BY <1>1, SheetIs DEF Cells
  <1>3. rd.field = row[a.cell]
    BY <1>1, <1>2, SubSeqFull
  <1>4. ASSUME NEW T, NEW s \in Seq(T), NEW i \in 1 .. Len(s), Len(s) \in Nat
        PROVE  Append(SubSeq(s, 1, i - 1), s[i]) = SubSeq(s, 1, i)
    <2> DEFINE k == i - 1
    <2>1. k \in 0 .. Len(s) /\ k # Len(s) /\ k + 1 = i
      BY <1>4
    <2> HIDE DEF k
    <2>2. Append(SubSeq(s, 1, k), s[k + 1]) = SubSeq(s, 1, k + 1)
      BY <2>1, OneMore
    <2> QED BY <2>1, <2>2 DEF k
  <1>5. Append(rd.row, rd.field) = SubSeq(row, 1, a.cell)
    BY <1>1, <1>2, <1>3, <1>4
  <1>6. Append(rd.row, rd.field) = row
    BY <1>2, <1>5, SubSeqFull
  <1>7. Append(rd.rows, row) = SubSeq(S, 1, a.row)
    BY <1>1, <1>2, <1>4
  <1> QED BY <1>1, <1>3, <1>6, <1>7

\* and one more row of the sheet.
LEMMA OneRow ==
    ASSUME NEW S \in Sheets, NEW a \in Places, NEW rd, NEW rd2, InCell(S, a, rd),
           a.done = Len(S[a.row][a.cell]), a.cell = Len(S[a.row]),
           rd2.rows = Append(rd.rows, Append(rd.row, rd.field)),
           rd2.row = <<>>, rd2.field = <<>>
    PROVE  /\ CellStart(a.row + 1, 1) \in Places
           /\ \/ InCell(S, CellStart(a.row + 1, 1), rd2)
              \/ AtEnd(S, CellStart(a.row + 1, 1), rd2)
  <1> DEFINE b == CellStart(a.row + 1, 1)
  <1>1. a.row \in 1 .. Len(S) /\ a.row \in Nat
    BY DEF InCell, Places
  <1>2. b \in Places /\ b.row = a.row + 1 /\ b.cell = 1 /\ b.done = 0
    BY <1>1 DEF Places, CellStart
  <1>3. rd2.rows = SubSeq(S, 1, a.row)
    BY WholeRow
  <1>4. Len(S) \in Nat /\ S \in Seq(Seq(Cells))
    BY SheetIs
  <1>5. CASE a.row = Len(S)
    <2>1. rd2.rows = S
      BY <1>3, <1>4, <1>5, SubSeqFull
    <2> QED BY <1>2, <1>5, <2>1 DEF AtEnd
  <1>6. CASE a.row # Len(S)
    <2>1. a.row + 1 \in 1 .. Len(S) /\ a.row + 1 - 1 = a.row
      BY <1>1, <1>4, <1>6
    <2>2. Len(S[a.row + 1]) \in Nat /\ Len(S[a.row + 1]) >= 1
      BY <2>1, SheetIs
    <2>3. 1 \in 1 .. Len(S[a.row + 1])
      BY <2>2
    <2>4. Len(S[a.row + 1][1]) \in Nat
      BY <2>1, <2>3, SheetIs
    <2>5. 0 \in 0 .. Len(S[a.row + 1][1])
      BY <2>4
    <2>6. SubSeq(S[a.row + 1], 1, 0) = <<>> /\ SubSeq(S[a.row + 1][1], 1, 0) = <<>>
      BY SubSeqEmpty
    <2> HIDE DEF b
    <2>7. b.row - 1 = a.row /\ b.cell - 1 = 0
      BY <1>1, <1>2
    <2>8. InCell(S, b, rd2)
      BY <1>2, <1>3, <2>1, <2>3, <2>5, <2>6, <2>7 DEF InCell
    <2> QED BY <1>2, <2>8 DEF b
  <1> QED BY <1>5, <1>6

\* Where the reader is, and what was written there.
LEMMA Here ==
    ASSUME ReaderInv, Written(file), Follows(file, reader), Char # "end"
    PROVE  /\ WrittenAt(file, reader.pos) /\ Char = file.text[reader.pos]
           /\ InCell(file.sheet, file.places[reader.pos], reader)
           /\ file.sheet \in Sheets
           /\ At(reader.pos + 1) = Quote <=>
                 reader.pos < Len(file.text) /\ file.text[reader.pos + 1] = Quote
  <1> DEFINE p == reader.pos
             end == Len(file.text) + 1
  <1>1. /\ file.sheet \in Sheets /\ DOMAIN file.places \subseteq 1 .. end
        /\ \A q \in DOMAIN file.places \ {end} : WrittenAt(file, q)
    BY DEF Written, Sheets, Cells
  <1>2. Len(file.text) \in Nat /\ p \in Nat /\ p >= 1
    <2>1. file.text \in Seq(Symbols)
      BY FilesAssumption DEF ReaderInv
    <2> QED BY <2>1, LenProperties DEF ReaderInv, Readers
  <1>3. p <= Len(file.text) /\ Char = file.text[p]
    BY DEF Char, At, Text
  <1>4. p \in DOMAIN file.places /\ p # end
    BY <1>2, <1>3 DEF Follows
  <1>5. WrittenAt(file, p)
    BY <1>1, <1>4
  <1>6. file.places[p].row \in 1 .. Len(file.sheet)
    <2>1. file.places[p].row \in DOMAIN file.sheet
      BY <1>5 DEF WrittenAt
    <2> QED BY <1>1, <2>1, SheetIs, Elements
  <1>7. InCell(file.sheet, file.places[p], reader)
    <2> SUFFICES ASSUME AtEnd(file.sheet, file.places[p], reader) PROVE FALSE
      BY DEF Follows
    <2>1. file.places[p].row = Len(file.sheet) + 1
      BY DEF AtEnd, CellStart
    <2>2. Len(file.sheet) \in Nat
      BY <1>1, SheetIs
    <2> QED BY <1>6, <2>1, <2>2
  <1>8. At(p + 1) = Quote <=> p < Len(file.text) /\ file.text[p + 1] = Quote
    <2>1. p + 1 <= Len(file.text) <=> p < Len(file.text)
      BY <1>2
    <2>2. "end" # Quote
      BY DEF Quote
    <2> QED BY <2>1, <2>2 DEF At, Text
  <1> QED BY <1>1, <1>3, <1>5, <1>7, <1>8

\* One step of the reader takes it past one symbol of the writer, or past the two
\* quotes that stand for one.
LEMMA ReadFollows ==
    ASSUME ReaderInv, Written(file), Follows(file, reader), Read, ~ EndOfText
    PROVE  Follows(file, reader')
  <1> DEFINE p == reader.pos
             a == file.places[p]
             S == file.sheet
             row == S[a.row]
             cell == row[a.cell]
             doubled == p < Len(file.text) /\ file.text[p + 1] = Quote
             Then(b, n) == p + n \in DOMAIN file.places /\ file.places[p + n] = b
             more == [a EXCEPT !.done = @ + 1]
  <1>1. Char # "end"
    BY DEF Read, EscapedQuote, CloseQuote, QuotedSymbol, OpenQuote, NextField, SkipReturn,
           NextRow, PlainSymbol, Reading
  <1>2. /\ Char = file.text[p] /\ InCell(S, a, reader) /\ S \in Sheets /\ a \in Places
        /\ reader.quoted = a.quoted /\ (At(p + 1) = Quote <=> doubled)
        /\ reader.quoted \in BOOLEAN /\ reader \in Readers
    BY <1>1, Here DEF Follows, ReaderInv, Readers
  <1>3. \/ a.quoted /\ Char # Quote /\ a.done # Len(cell) /\ Char = cell[a.done + 1] /\ Then(more, 1)
        \/ a.quoted /\ Char = Quote /\ doubled /\ a.done # Len(cell) /\ Char = cell[a.done + 1]
              /\ Then(more, 2)
        \/ a.quoted /\ Char = Quote /\ ~doubled /\ Then([a EXCEPT !.quoted = FALSE], 1)
        \/ ~a.quoted /\ Char = Quote /\ Then([a EXCEPT !.quoted = TRUE], 1)
        \/ ~a.quoted /\ Char \notin {Quote, Comma, CarriageReturn, Newline}
              /\ a.done # Len(cell) /\ Char = cell[a.done + 1] /\ Then(more, 1)
        \/ ~a.quoted /\ Char = Comma /\ a.done = Len(cell) /\ a.cell < Len(row)
              /\ Then(CellStart(a.row, a.cell + 1), 1)
        \/ ~a.quoted /\ Char = CarriageReturn /\ Then(a, 1)
        \/ ~a.quoted /\ Char = Newline /\ a.done = Len(cell) /\ a.cell = Len(row)
              /\ Then(CellStart(a.row + 1, 1), 1)
    <2>1. WrittenAt(file, p)
      BY <1>1, Here
    <2> DEFINE s == file.text[p]
               Put(n) == a.done # Len(cell) /\ s = cell[a.done + 1] /\ Then(more, n)
    <2>2. \/ a.quoted /\ s # Quote /\ Put(1)
          \/ a.quoted /\ s = Quote /\ doubled /\ Put(2)
          \/ a.quoted /\ s = Quote /\ ~doubled /\ Then([a EXCEPT !.quoted = FALSE], 1)
          \/ ~a.quoted /\ s = Quote /\ Then([a EXCEPT !.quoted = TRUE], 1)
          \/ ~a.quoted /\ s \notin {Quote, Comma, CarriageReturn, Newline} /\ Put(1)
          \/ ~a.quoted /\ s = Comma /\ a.done = Len(cell) /\ a.cell < Len(row)
                /\ Then(CellStart(a.row, a.cell + 1), 1)
          \/ ~a.quoted /\ s = CarriageReturn /\ Then(a, 1)
          \/ ~a.quoted /\ s = Newline /\ a.done = Len(cell) /\ a.cell = Len(row)
                /\ Then(CellStart(a.row + 1, 1), 1)
      BY <2>1, Zenon DEF WrittenAt
    <2> HIDE DEF Then, doubled, more
    <2> QED BY <1>2, <2>2
  <1>4. Quote # Comma /\ Quote # CarriageReturn /\ Quote # Newline /\ Comma # CarriageReturn
        /\ Comma # Newline /\ CarriageReturn # Newline
    BY DEF Quote, Comma, CarriageReturn, Newline
  \* The reader's next state, and what it has to hold there.
  <1>5. ASSUME NEW b \in Places, NEW n, Then(b, n), reader'.pos = p + n, reader'.quoted = b.quoted,
               InCell(S, b, reader') \/ AtEnd(S, b, reader')
        PROVE  Follows(file, reader')
    BY <1>5 DEF Follows
  <1>6. more \in Places /\ more.quoted = a.quoted
    BY <1>2 DEF Places
  <1>7. ASSUME a.done # Len(cell), Char = cell[a.done + 1], reader'.rows = reader.rows,
               reader'.row = reader.row, reader'.field = Append(reader.field, Char)
        PROVE  InCell(S, more, reader')
    BY <1>2, <1>7, OneSymbol
  <1>8. /\ [a EXCEPT !.quoted = TRUE] \in Places /\ [a EXCEPT !.quoted = TRUE].quoted = TRUE
        /\ [a EXCEPT !.quoted = FALSE] \in Places /\ [a EXCEPT !.quoted = FALSE].quoted = FALSE
    BY <1>2 DEF Places
  <1>9. \A q \in BOOLEAN : InCell(S, [a EXCEPT !.quoted = q], reader)
    BY <1>2 DEF InCell, Places
  <1>10. ASSUME NEW b, InCell(S, b, reader), reader'.rows = reader.rows,
                reader'.row = reader.row, reader'.field = reader.field
         PROVE  InCell(S, b, reader')
    BY <1>10 DEF InCell
  <1>11. ASSUME a.done = Len(cell), a.cell < Len(row), reader'.rows = reader.rows,
                reader'.row = Append(reader.row, reader.field), reader'.field = <<>>
         PROVE  InCell(S, CellStart(a.row, a.cell + 1), reader')
                /\ CellStart(a.row, a.cell + 1) \in Places
    BY <1>2, <1>11, OneCell
  <1>12. ASSUME a.done = Len(cell), a.cell = Len(row),
                reader'.rows = Append(reader.rows, Append(reader.row, reader.field)),
                reader'.row = <<>>, reader'.field = <<>>
         PROVE  /\ CellStart(a.row + 1, 1) \in Places
                /\ \/ InCell(S, CellStart(a.row + 1, 1), reader')
                   \/ AtEnd(S, CellStart(a.row + 1, 1), reader')
    BY <1>2, <1>12, OneRow
  <1>13. \A r, c : CellStart(r, c).quoted = FALSE
    BY DEF CellStart
  <1>14. reader \in [pos : Nat \ {0}, rows : Seq(Seq(Cells)), row : Seq(Cells), field : Cells,
                     quoted : BOOLEAN]
    BY <1>2 DEF Readers
  <1> HIDE DEF a, S, row, cell, doubled, Then, more
  <1>15. ASSUME NEW n \in Nat, Advance(Take(Char), n)
         PROVE  /\ reader'.pos = p + n /\ reader'.rows = reader.rows /\ reader'.row = reader.row
                /\ reader'.field = Append(reader.field, Char) /\ reader'.quoted = reader.quoted
    BY <1>14, <1>15 DEF Advance, Take
  <1>16. CASE EscapedQuote
    <2>1. reader.quoted = TRUE /\ Char = Quote /\ doubled /\ Advance(Take(Char), 2)
      BY <1>2, <1>16 DEF EscapedQuote, Reading
    <2>2. a.done # Len(cell) /\ Char = cell[a.done + 1] /\ Then(more, 2)
      BY <1>2, <1>3, <2>1
    <2>3. /\ reader'.pos = p + 2 /\ reader'.rows = reader.rows /\ reader'.row = reader.row
          /\ reader'.field = Append(reader.field, Char) /\ reader'.quoted = more.quoted
      BY <1>2, <1>6, <1>15, <2>1
    <2> QED BY <1>5, <1>6, <1>7, <2>2, <2>3
  <1>17. CASE CloseQuote
    <2>1. /\ reader.quoted = TRUE /\ Char = Quote /\ ~doubled
          /\ Advance([reader EXCEPT !.quoted = FALSE], 1)
      BY <1>2, <1>17 DEF CloseQuote, Reading
    <2>2. Then([a EXCEPT !.quoted = FALSE], 1)
      BY <1>2, <1>3, <2>1
    <2>3. /\ reader'.pos = p + 1 /\ reader'.rows = reader.rows /\ reader'.row = reader.row
          /\ reader'.field = reader.field /\ reader'.quoted = FALSE
      BY <1>14, <2>1 DEF Advance
    <2> QED BY <1>5, <1>8, <1>9, <1>10, <2>2, <2>3
  <1>18. CASE QuotedSymbol
    <2>1. reader.quoted = TRUE /\ Char # Quote /\ Advance(Take(Char), 1)
      BY <1>18 DEF QuotedSymbol, Reading
    <2>2. a.done # Len(cell) /\ Char = cell[a.done + 1] /\ Then(more, 1)
      BY <1>2, <1>3, <2>1
    <2>3. /\ reader'.pos = p + 1 /\ reader'.rows = reader.rows /\ reader'.row = reader.row
          /\ reader'.field = Append(reader.field, Char) /\ reader'.quoted = more.quoted
      BY <1>2, <1>6, <1>15, <2>1
    <2> QED BY <1>5, <1>6, <1>7, <2>2, <2>3
  <1>19. CASE OpenQuote
    <2>1. /\ reader.quoted = FALSE /\ Char = Quote
          /\ Advance([reader EXCEPT !.quoted = TRUE], 1)
      BY <1>19 DEF OpenQuote, Reading
    <2>2. Then([a EXCEPT !.quoted = TRUE], 1)
      BY <1>2, <1>3, <1>4, <2>1
    <2>3. /\ reader'.pos = p + 1 /\ reader'.rows = reader.rows /\ reader'.row = reader.row
          /\ reader'.field = reader.field /\ reader'.quoted = TRUE
      BY <1>14, <2>1 DEF Advance
    <2> QED BY <1>5, <1>8, <1>9, <1>10, <2>2, <2>3
  <1>20. CASE NextField
    <2>1. reader.quoted = FALSE /\ Char = Comma /\ Advance(EndField, 1)
      BY <1>20 DEF NextField, Reading
    <2>2. a.done = Len(cell) /\ a.cell < Len(row) /\ Then(CellStart(a.row, a.cell + 1), 1)
      BY <1>2, <1>3, <1>4, <2>1
    <2>3. /\ reader'.pos = p + 1 /\ reader'.rows = reader.rows
          /\ reader'.row = Append(reader.row, reader.field)
          /\ reader'.field = <<>> /\ reader'.quoted = FALSE
      BY <1>14, <2>1 DEF Advance, EndField
    <2> QED BY <1>5, <1>11, <1>13, <2>2, <2>3
  <1>21. CASE SkipReturn
    <2>1. reader.quoted = FALSE /\ Char = CarriageReturn /\ Advance(reader, 1)
      BY <1>21 DEF SkipReturn, Reading
    <2>2. Then(a, 1)
      BY <1>2, <1>3, <1>4, <2>1
    <2>3. /\ reader'.pos = p + 1 /\ reader'.rows = reader.rows /\ reader'.row = reader.row
          /\ reader'.field = reader.field /\ reader'.quoted = a.quoted
      BY <1>2, <1>14, <2>1 DEF Advance
    <2> QED BY <1>2, <1>5, <1>10, <2>2, <2>3
  <1>22. CASE NextRow
    <2>1. /\ reader.quoted = FALSE /\ Char = Newline
          /\ Advance([EndField EXCEPT !.rows = Append(@, EndField.row), !.row = <<>>], 1)
      BY <1>22 DEF NextRow, Reading
    <2>2. a.done = Len(cell) /\ a.cell = Len(row) /\ Then(CellStart(a.row + 1, 1), 1)
      BY <1>2, <1>3, <1>4, <2>1
    <2>3. /\ reader'.pos = p + 1
          /\ reader'.rows = Append(reader.rows, Append(reader.row, reader.field))
          /\ reader'.row = <<>> /\ reader'.field = <<>> /\ reader'.quoted = FALSE
      BY <1>14, <2>1 DEF Advance, EndField
    <2> QED BY <1>5, <1>12, <1>13, <2>2, <2>3
  <1>23. CASE PlainSymbol
    <2>1. /\ reader.quoted = FALSE /\ Char \notin {Quote, Comma, CarriageReturn, Newline}
          /\ Advance(Take(Char), 1)
      BY <1>23 DEF PlainSymbol, Reading
    <2>2. a.done # Len(cell) /\ Char = cell[a.done + 1] /\ Then(more, 1)
      BY <1>2, <1>3, <2>1
    <2>3. /\ reader'.pos = p + 1 /\ reader'.rows = reader.rows /\ reader'.row = reader.row
          /\ reader'.field = Append(reader.field, Char) /\ reader'.quoted = more.quoted
      BY <1>2, <1>6, <1>15, <2>1
    <2> QED BY <1>5, <1>6, <1>7, <2>2, <2>3
  <1> QED BY <1>16, <1>17, <1>18, <1>19, <1>20, <1>21, <1>22, <1>23 DEF Read

\* A blank row at the end of a sheet makes no difference.
LEMMA BlankLast ==
    ASSUME NEW T, NEW S \in Seq(T), NEW n, n = Len(S), n # 0, BlankRow(S[n])
    PROVE  DropBlankEnd(SubSeq(S, 1, n - 1)) = DropBlankEnd(S)
  <1> DEFINE m == n - 1
             R == SubSeq(S, 1, m)
             Kept(s) == {0} \cup {k \in DOMAIN s : ~BlankRow(s[k])}
  <1>1. n \in Nat /\ m \in Nat /\ m \in 0 .. n /\ 1 .. n = (1 .. m) \cup {n} /\ n \notin 1 .. m
    BY LenProperties
  <1> HIDE DEF m
  <1>2. R \in Seq(T) /\ Len(R) = m /\ \A i \in 1 .. m : R[i] = S[i]
    BY <1>1, FirstOf
  <1> HIDE DEF R
  <1>3. DOMAIN R = 1 .. m /\ DOMAIN S = 1 .. n
    BY <1>1, <1>2, Elements
  <1>4. Kept(R) = Kept(S)
    BY <1>1, <1>2, <1>3
  <1>5. Kept(R) \subseteq Nat /\ 0 \in Kept(R) /\ \A k \in Kept(R) : k <= m
    BY <1>1, <1>3
  <1>6. Max(Kept(R)) \in Kept(R)
    BY <1>1, <1>5, GreatestNat
  <1> DEFINE k == Max(Kept(R))
  <1>7. k \in 0 .. m /\ k \in 0 .. n
    BY <1>1, <1>5, <1>6
  <1> HIDE DEF k
  <1>8. /\ SubSeq(R, 1, k) \in Seq(T) /\ Len(SubSeq(R, 1, k)) = k
        /\ \A i \in 1 .. k : SubSeq(R, 1, k)[i] = R[i]
        /\ SubSeq(S, 1, k) \in Seq(T) /\ Len(SubSeq(S, 1, k)) = k
        /\ \A i \in 1 .. k : SubSeq(S, 1, k)[i] = S[i]
    BY <1>1, <1>2, <1>7, FirstOf
  <1>9. \A i \in 1 .. k : i \in 1 .. m
    BY <1>1, <1>7
  <1>10. SubSeq(R, 1, k) = SubSeq(S, 1, k)
    BY <1>2, <1>8, <1>9, SeqEqual
  <1>11. DropBlankEnd(R) = SubSeq(R, 1, k) /\ DropBlankEnd(S) = SubSeq(S, 1, k)
    BY <1>4 DEF DropBlankEnd, k
  <1> QED BY <1>10, <1>11 DEF R, m

\* At the end of the text the whole sheet is read, its last line ended or not.
LEMMA EndFollows ==
    ASSUME ReaderInv, Written(file), Follows(file, reader), EndOfText
    PROVE  reader'.rows = DropBlankEnd(file.sheet)
  <1> DEFINE p == reader.pos
             end == Len(file.text) + 1
             S == file.sheet
             n == Len(S)
             a == file.places[p]
             flushed == IF reader.field # <<>> \/ reader.row # <<>>
                        THEN Append(reader.rows, EndField.row) ELSE reader.rows
  <1>1. file.text \in Seq(Symbols) /\ reader \in Readers /\ p \in Nat /\ p >= 1
    BY FilesAssumption DEF ReaderInv, Readers
  <1>2. Len(file.text) \in Nat /\ \A i \in 1 .. Len(file.text) : file.text[i] \in Symbols
    BY <1>1, Elements
  <1>3. /\ S \in Sheets /\ DOMAIN file.places \subseteq 1 .. end
        /\ \/ file.places[end] = CellStart(n + 1, 1)
           \/ file.places[end] = [row |-> n, cell |-> Len(S[n]), done |-> Len(S[n][Len(S[n])]),
                                  quoted |-> FALSE]
    BY DEF Written, Sheets, Cells
  <1>4. p = end
    <2>1. p \in 1 .. end
      BY <1>3 DEF Follows
    <2>2. p \notin 1 .. Len(file.text)
      <3> SUFFICES ASSUME p \in 1 .. Len(file.text) PROVE FALSE
        OBVIOUS
      <3>1. Char = file.text[p]
        BY <1>1, <1>2 DEF Char, At, Text
      <3> QED BY <1>2, <3>1, FilesAssumption DEF EndOfText
    <2> QED BY <1>2, <2>1, <2>2
  <1>5. reader' = [reader EXCEPT !.rows = DropBlankEnd(flushed), !.row = <<>>, !.field = <<>>]
    BY DEF EndOfText
  <1>6. reader'.rows = DropBlankEnd(flushed)
    <2> HIDE DEF flushed
    <2> QED BY <1>1, <1>5 DEF Readers
  <1>7. EndField.row = Append(reader.row, reader.field)
    BY <1>1 DEF EndField, Readers
  <1>8. n \in Nat /\ S \in Seq(Seq(Cells))
    BY <1>3, SheetIs
  <1>9. CASE AtEnd(S, a, reader)
    <2>1. flushed = S
      BY <1>9 DEF AtEnd
    <2> QED BY <1>6, <2>1
  <1>10. CASE InCell(S, a, reader)
    <2>1. a.row \in 1 .. n
      BY <1>10 DEF InCell
    <2>2. a.row = n /\ a.cell = Len(S[n]) /\ a.done = Len(S[n][Len(S[n])])
      <3>1. a = CellStart(n + 1, 1) => a.row = n + 1
        BY DEF CellStart
      <3>2. a # CellStart(n + 1, 1)
        BY <1>8, <2>1, <3>1
      <3>3. a = [row |-> n, cell |-> Len(S[n]), done |-> Len(S[n][Len(S[n])]), quoted |-> FALSE]
        BY <1>3, <1>4, <3>2
      <3> QED BY <3>3
    <2>3. a \in Places
      BY DEF Follows
    <2>4. /\ Append(reader.row, reader.field) = S[n]
          /\ Append(reader.rows, Append(reader.row, reader.field)) = SubSeq(S, 1, n)
      <3> DEFINE q == a
      <3> HIDE DEF q
      <3>1. /\ q \in Places /\ InCell(S, q, reader) /\ q.done = Len(S[q.row][q.cell])
            /\ q.cell = Len(S[q.row]) /\ q.row = n
        BY <1>10, <2>2, <2>3 DEF q
      <3> QED BY <1>3, <3>1, WholeRow
    <2>5. CASE reader.field # <<>> \/ reader.row # <<>>
      <3>1. flushed = SubSeq(S, 1, n)
        BY <1>7, <2>4, <2>5
      <3>2. SubSeq(S, 1, n) = S
        BY <1>8, SubSeqFull
      <3> QED BY <1>6, <3>1, <3>2
    <2>6. CASE reader.field = <<>> /\ reader.row = <<>>
      <3>1. flushed = SubSeq(S, 1, n - 1)
        BY <1>10, <2>2, <2>6 DEF InCell
      <3>2. S[n] = <<<<>>>>
        BY <2>4, <2>6
      <3>3. BlankRow(S[n])
        BY <3>2 DEF BlankRow
      <3>4. DropBlankEnd(SubSeq(S, 1, n - 1)) = DropBlankEnd(S)
        <4>1. n # 0
          BY <1>8, <2>1
        <4> QED BY <1>8, <3>3, <4>1, BlankLast
      <3> QED BY <1>6, <3>1, <3>4
    <2> QED BY <2>5, <2>6
  <1> QED BY <1>9, <1>10 DEF Follows

\* Whatever the cells of a sheet hold, and however its lines end: a text written as
\* a spreadsheet writes it is read back as the sheet, less the blank rows at the end.
THEOREM RoundTripHolds ==
    ASSUME \A f \in Files : Written(f)
    PROVE  CsvSpec => []RoundTrip
  <1>1. CsvInit => RoundInv
    <2> SUFFICES ASSUME CsvInit PROVE Follows(file, reader)
      BY DEF RoundInv, CsvInit
    <2> DEFINE first == IF file.text # <<>> /\ Head(file.text) = Mark THEN 2 ELSE 1
               b == CellStart(1, 1)
               S == file.sheet
    <2>1. Written(file)
      BY DEF CsvInit
    <2>2. first \in DOMAIN file.places /\ file.places[first] = b /\ S \in Sheets
      BY <2>1 DEF Written, Sheets, Cells
    <2>3. /\ reader.pos = first /\ reader.quoted = FALSE
          /\ reader.rows = <<>> /\ reader.row = <<>> /\ reader.field = <<>>
      BY DEF CsvInit, Text
    <2>4. b \in Places /\ b.quoted = FALSE /\ b.row = 1 /\ b.cell = 1 /\ b.done = 0
      BY DEF CellStart, Places
    <2>5. InCell(S, b, reader) \/ AtEnd(S, b, reader)
      <3>1. Len(S) \in Nat
        BY <2>2, SheetIs
      <3>2. CASE Len(S) = 0
        <4>1. S = <<>>
          BY <2>2, <3>2, EmptySeq DEF Sheets
        <4>2. Len(S) + 1 = 1
          BY <3>2
        <4> QED BY <2>3, <4>1, <4>2 DEF AtEnd
      <3>3. CASE Len(S) # 0
        <4>1. 1 \in 1 .. Len(S)
          BY <3>1, <3>3
        <4>2. Len(S[1]) \in Nat /\ Len(S[1]) >= 1
          BY <2>2, <4>1, SheetIs
        <4>3. 1 \in 1 .. Len(S[1])
          BY <4>2
        <4>4. Len(S[1][1]) \in Nat
          BY <2>2, <4>1, <4>3, SheetIs
        <4>5. 0 \in 0 .. Len(S[1][1]) /\ 1 - 1 = 0
          BY <4>4
        <4>6. SubSeq(S, 1, 0) = <<>> /\ SubSeq(S[1], 1, 0) = <<>> /\ SubSeq(S[1][1], 1, 0) = <<>>
          BY SubSeqEmpty
        <4> HIDE DEF b, S
        <4>7. b.row - 1 = 0 /\ b.cell - 1 = 0
          BY <2>4
        <4>8. InCell(S, b, reader)
          BY <2>3, <2>4, <4>1, <4>3, <4>5, <4>6, <4>7 DEF InCell
        <4> QED BY <4>8
      <3> QED BY <3>2, <3>3
    <2> HIDE DEF first, b
    <2> QED BY <2>2, <2>3, <2>4, <2>5 DEF Follows
  <1>2. CsvInv /\ RoundInv /\ [CsvNext]_csvVars => RoundInv'
    <2> SUFFICES ASSUME CsvInv, RoundInv, [CsvNext]_csvVars PROVE RoundInv'
      OBVIOUS
    <2>1. ReaderInv /\ Written(file)
      BY DEF CsvInv, ReaderInv
    <2>2. CASE Read /\ ~ EndOfText
      <3>1. phase = "reading" /\ phase' = phase /\ file' = file
        BY <2>2 DEF Read, EscapedQuote, CloseQuote, QuotedSymbol, OpenQuote, NextField, SkipReturn,
                    NextRow, PlainSymbol, Reading, Advance
      <3>2. Follows(file, reader')
        BY <2>1, <2>2, <3>1, ReadFollows DEF RoundInv
      <3> QED BY <3>1, <3>2 DEF RoundInv
    <2>3. CASE EndOfText
      <3>1. phase = "reading" /\ phase' = "parsed" /\ file' = file
        BY <2>3 DEF EndOfText
      <3>2. reader'.rows = DropBlankEnd(file.sheet)
        BY <2>1, <2>3, <3>1, EndFollows DEF RoundInv
      <3> QED BY <3>1, <3>2 DEF RoundInv
    <2>4. CASE Import
      <3>1. phase # "reading" /\ phase' # "reading" /\ reader' = reader /\ file' = file
        BY <2>4 DEF Import, GiveName, TryNumber, Naming, BuildPreview, RefuseStructure, RefuseUpload,
                    StartCasting, CastRow, FinishCasting, Conclude
      <3> QED BY <3>1 DEF RoundInv
    <2>5. CASE UNCHANGED csvVars
      BY <2>5 DEF csvVars, RoundInv, Follows
    <2> QED BY <2>2, <2>3, <2>4, <2>5 DEF CsvNext, Read
  <1>3. RoundInv => RoundTrip
    BY DEF RoundInv, RoundTrip
  <1> QED BY <1>1, <1>2, <1>3, CsvInvariant, PTL DEF CsvSpec

-----------------------------------------------------------------------------
(* UploadRequest: the inductive invariant, what is behind a request at each step. *)

\* The loader has returned, and what it says it has loaded is loaded.
LoaderReturned(r) == result[r] \in Results /\ (result[r] \in Good => r \in Loaded)

\* An original is missing only if something failed.
OriginalTraced(r) == OriginalsOf(r) = {} => r \in faulty /\ faults > 0

\* So is the audit row of a load that succeeded, and two things failed if
\* neither is there.
AuditTraced(r) ==
    result[r] \in Good =>
        /\ r \in Audited("upload") \/ r \in faulty
        /\ r \in Audited("upload") \/ OriginalsOf(r) # {} \/ faults > 1

StepInv(r) ==
    /\ step[r] \in {"idle", "load"} => r \notin Loaded
    /\ step[r] \in {"idle", "load", "record"} => OriginalsOf(r) = {}
    /\ step[r] = "record" => LoaderReturned(r)
    /\ step[r] = "audit" =>
          LoaderReturned(r) /\ result[r] \in Good /\ OriginalTraced(r)
    /\ step[r] = "reply" => LoaderReturned(r) /\ OriginalTraced(r) /\ AuditTraced(r)
    /\ answer[r] \in Results =>
          /\ step[r] = "over" /\ answer[r] = result[r]
          /\ LoaderReturned(r) /\ OriginalTraced(r) /\ AuditTraced(r)

\* One original of a request, which names no file that was not loaded.
OriginalsInv == \A u \in uploads : OriginalsOf(u.by) = {u} /\ u.file \subseteq Loaded

RequestInv ==
    /\ TypeOK
    /\ files \subseteq Loaded
    /\ OriginalsInv
    /\ Audited("upload") \subseteq Loaded
    /\ \A r \in Requests : StepInv(r)

-----------------------------------------------------------------------------
(* UploadRequest: what a step makes of what is recorded. *)

LEMMA LoadedGrows ==
    ASSUME TypeOK, NEW r \in Requests, loaded' = Append(loaded, r)
    PROVE  Loaded' = Loaded \cup {r}
  <1>1. loaded \in Seq(Requests) /\ Len(loaded) \in Nat
    BY DEF TypeOK
  <1>2. DOMAIN loaded' = DOMAIN loaded \cup {Len(loaded) + 1}
    BY <1>1
  <1>3. /\ \A i \in DOMAIN loaded : loaded'[i] = loaded[i]
        /\ loaded'[Len(loaded) + 1] = r
    BY <1>1
  <1> QED BY <1>2, <1>3 DEF Loaded

LEMMA AuditGrows ==
    ASSUME TypeOK, NEW a \in {"upload", "delete"}, NEW f \in Requests,
           audit' = Append(audit, [action |-> a, file |-> f])
    PROVE  /\ audit' \in Seq(AuditRow)
           /\ \A b \in {"upload", "delete"} :
                 Audited(b)' = Audited(b) \cup (IF a = b THEN {f} ELSE {})
  <1> DEFINE row == [action |-> a, file |-> f]
  <1>1. audit \in Seq(AuditRow) /\ Len(audit) \in Nat
    BY DEF TypeOK
  <1>2. row \in AuditRow /\ row.action = a /\ row.file = f
    BY DEF AuditRow
  <1> HIDE DEF row
  <1>3. audit' = Append(audit, row)
    BY DEF row
  <1>4. audit' \in Seq(AuditRow) /\ DOMAIN audit' = DOMAIN audit \cup {Len(audit) + 1}
    BY <1>1, <1>2, <1>3
  <1>5. /\ \A i \in DOMAIN audit : audit'[i] = audit[i]
        /\ audit'[Len(audit) + 1] = row
    BY <1>1, <1>2, <1>3
  <1>6. ASSUME NEW b \in {"upload", "delete"}
        PROVE  Audited(b)' = Audited(b) \cup (IF a = b THEN {f} ELSE {})
    BY <1>2, <1>4, <1>5 DEF Audited
  <1> QED BY <1>4, <1>6

\* A kept original is the request's only one, and disturbs no other's.
LEMMA OriginalKept ==
    ASSUME RequestInv, NEW r \in Requests, step[r] = "record", KeepOriginal(r),
           loaded' = loaded
    PROVE  /\ uploads' \in SUBSET Original
           /\ OriginalsOf(r)' # {}
           /\ \A q \in Requests : q # r => OriginalsOf(q)' = OriginalsOf(q)
           /\ OriginalsInv'
  <1> DEFINE new == [by |-> r, status |-> Status[result[r]],
                     file |-> IF result[r] \in Good THEN {r} ELSE {}]
  <1>1. LoaderReturned(r) /\ OriginalsOf(r) = {}
    BY DEF RequestInv, StepInv
  <1>2. new \in Original /\ new.by = r /\ new.file \subseteq Loaded
    BY <1>1 DEF Original, LoaderReturned
  <1>3. uploads' = uploads \cup {new}
    BY DEF KeepOriginal
  <1> HIDE DEF new
  <1>4. OriginalsOf(r)' = {new}
    BY <1>1, <1>2, <1>3 DEF OriginalsOf
  <1>5. \A q \in Requests : q # r => OriginalsOf(q)' = OriginalsOf(q)
    BY <1>2, <1>3 DEF OriginalsOf
  <1>6. Loaded' = Loaded
    BY DEF Loaded
  <1>7. uploads' \in SUBSET Original
    BY <1>2, <1>3 DEF RequestInv, TypeOK
  <1>8. ASSUME NEW u \in uploads'
        PROVE  OriginalsOf(u.by)' = {u} /\ u.file \subseteq Loaded'
    <2>1. CASE u = new
      BY <1>2, <1>4, <1>6, <2>1
    <2>2. CASE u # new
      <3>1. u \in uploads /\ u.by \in Requests
        BY <1>3, <2>2 DEF RequestInv, TypeOK, Original
      <3>2. u.by # r
        BY <1>1, <3>1 DEF OriginalsOf
      <3> QED BY <1>5, <1>6, <3>1, <3>2 DEF RequestInv, OriginalsInv
    <2> QED BY <2>1, <2>2
  <1> QED BY <1>4, <1>5, <1>7, <1>8 DEF OriginalsInv

\* Nothing that others add disturbs a request, nor does losing its client.
LEMMA StepKept ==
    ASSUME NEW q \in Requests, StepInv(q), faults \in Nat, faults' \in Nat,
           step'[q] = step[q], result'[q] = result[q],
           answer'[q] = answer[q] \/ answer'[q] \notin Results,
           OriginalsOf(q)' = OriginalsOf(q),
           Loaded \subseteq Loaded', q \in Loaded' => q \in Loaded,
           Audited("upload") \subseteq Audited("upload")',
           faulty \subseteq faulty', faults <= faults'
    PROVE  StepInv(q)'
  BY DEF StepInv, LoaderReturned, OriginalTraced, AuditTraced

\* A step that loads nothing and keeps no original leaves both as they were.
LEMMA RecordsKept ==
    /\ UNCHANGED loaded => Loaded' = Loaded
    /\ UNCHANGED uploads => \A q \in Requests : OriginalsOf(q)' = OriginalsOf(q)
    /\ UNCHANGED audit => \A b \in {"upload", "delete"} : Audited(b)' = Audited(b)
    /\ UNCHANGED <<loaded, uploads>> /\ OriginalsInv => OriginalsInv'
  <1>1. UNCHANGED loaded => Loaded' = Loaded
    BY DEF Loaded
  <1>2. UNCHANGED uploads => \A q \in Requests : OriginalsOf(q)' = OriginalsOf(q)
    BY DEF OriginalsOf
  <1>3. UNCHANGED audit => \A b \in {"upload", "delete"} : Audited(b)' = Audited(b)
    BY DEF Audited
  <1>4. UNCHANGED <<loaded, uploads>> /\ OriginalsInv => OriginalsInv'
    BY <1>1 DEF OriginalsInv, OriginalsOf
  <1> QED BY <1>1, <1>2, <1>3, <1>4

-----------------------------------------------------------------------------
(* UploadRequest: one lemma per action. *)

LEMMA InitInv == Init => RequestInv
  <1> SUFFICES ASSUME Init PROVE RequestInv
    OBVIOUS
  <1>1. Loaded = {} /\ Audited("upload") = {} /\ \A r \in Requests : OriginalsOf(r) = {}
    BY DEF Init, Loaded, Audited, OriginalsOf
  <1>2. TypeOK
    BY UploadsAssumption DEF Init, TypeOK
  <1>3. \A r \in Requests : StepInv(r)
    BY <1>1 DEF Init, StepInv, Results
  <1> QED BY <1>1, <1>2, <1>3 DEF RequestInv, OriginalsInv, Init

LEMMA SendInv ==
    ASSUME RequestInv, NEW r \in Requests, NEW upload \in Uploads, Send(r, upload)
    PROVE  RequestInv'
  <1>1. TypeOK'
    BY UploadsAssumption DEF RequestInv, TypeOK, Send, Goto, NoFault
  <1>2. ASSUME NEW q \in Requests PROVE StepInv(q)'
    <2>1. StepInv(q) /\ TypeOK
      BY DEF RequestInv
    <2>2. CASE q = r
      BY <2>1, <2>2, RecordsKept
         DEF Send, Goto, NoFault, TypeOK, StepInv, LoaderReturned, OriginalTraced, AuditTraced
    <2>3. CASE q # r
      BY <2>1, <2>3, StepKept, RecordsKept DEF Send, Goto, NoFault, TypeOK
    <2> QED BY <2>2, <2>3
  <1> QED BY <1>1, <1>2, RecordsKept DEF RequestInv, Send, NoFault

LEMMA RefuseInv ==
    ASSUME RequestInv, NEW r \in Requests, RefuseRequest(r)
    PROVE  RequestInv'
  <1>1. TypeOK'
    BY DEF RequestInv, TypeOK, RefuseRequest, Answer, Goto, NoFault
  <1>2. ASSUME NEW q \in Requests PROVE StepInv(q)'
    <2>1. StepInv(q) /\ TypeOK
      BY DEF RequestInv
    <2>2. CASE q = r
      BY <2>1, <2>2, RecordsKept
         DEF RefuseRequest, Answer, Goto, NoFault, TypeOK, StepInv, Results
    <2>3. CASE q # r
      BY <2>1, <2>3, StepKept, RecordsKept DEF RefuseRequest, Answer, Goto, NoFault, TypeOK
    <2> QED BY <2>2, <2>3
  <1> QED BY <1>1, <1>2, RecordsKept DEF RequestInv, RefuseRequest, Answer, NoFault

LEMMA LoadRefusedInv ==
    ASSUME RequestInv, NEW r \in Requests, LoadRefused(r)
    PROVE  RequestInv'
  <1>1. TypeOK'
    BY DEF RequestInv, TypeOK, LoadRefused, Return, Goto, NoFault, Results
  <1>2. ASSUME NEW q \in Requests PROVE StepInv(q)'
    <2>1. StepInv(q) /\ TypeOK
      BY DEF RequestInv
    <2>2. CASE q = r
      <3>1. /\ step[r] = "load" /\ step'[r] = "record"
            /\ result'[r] \in Results \ Good /\ answer'[r] = answer[r]
        BY DEF LoadRefused, Accepted, Return, Goto, Results, Good, RequestInv, TypeOK
      <3> QED BY <2>1, <2>2, <3>1, RecordsKept
              DEF LoadRefused, Return, NoFault, StepInv, LoaderReturned
    <2>3. CASE q # r
      BY <2>1, <2>3, StepKept, RecordsKept DEF LoadRefused, Return, Goto, NoFault, TypeOK
    <2> QED BY <2>2, <2>3
  <1> QED BY <1>1, <1>2, RecordsKept DEF RequestInv, LoadRefused, Return, NoFault

\* A load that takes effect, whatever comes of its request.
LEMMA RegisterInv ==
    ASSUME RequestInv, NEW r \in Requests, RegisterFile(r), step[r] = "load",
           UNCHANGED <<uploads, audit, call>>, TypeOK', faults <= faults',
           faulty \subseteq faulty',
           \A q \in Requests : q # r =>
              step'[q] = step[q] /\ result'[q] = result[q] /\ answer'[q] = answer[q],
           \/ step'[r] = "record" /\ result'[r] \in Results /\ answer'[r] = answer[r]
           \/ step'[r] = "over" /\ answer'[r] \notin Results
    PROVE  RequestInv'
  <1>1. Loaded' = Loaded \cup {r} /\ files' \subseteq Loaded'
    BY LoadedGrows DEF RegisterFile, RequestInv
  <1>2. OriginalsInv'
    BY <1>1 DEF RequestInv, OriginalsInv, OriginalsOf
  <1>3. ASSUME NEW q \in Requests PROVE StepInv(q)'
    <2>1. StepInv(q) /\ TypeOK
      BY DEF RequestInv
    <2>2. CASE q = r
      <3>1. OriginalsOf(r)' = {} /\ answer[r] \notin Results
        BY <2>1, <2>2, RecordsKept DEF StepInv
      <3> QED BY <1>1, <2>2, <3>1 DEF StepInv, LoaderReturned
    <2>3. CASE q # r
      <3>1. faults \in Nat /\ faults' \in Nat
        BY UploadsAssumption DEF RequestInv, TypeOK
      <3> QED BY <1>1, <2>1, <2>3, <3>1, StepKept, RecordsKept
    <2> QED BY <2>2, <2>3
  <1> QED BY <1>1, <1>2, <1>3, RecordsKept DEF RequestInv

LEMMA LoadInv ==
    ASSUME RequestInv, NEW r \in Requests, Load(r) \/ LoadFails(r)
    PROVE  RequestInv'
  <1>1. step[r] = "load" /\ TypeOK /\ faults \in Nat /\ StepInv(r)
    BY UploadsAssumption DEF Load, LoadFails, Accepted, RequestInv, TypeOK
  <1>2. CASE RegisterFile(r)
    <2>1. loaded' \in Seq(Requests) /\ files' \subseteq Requests
      BY <1>1, <1>2 DEF RegisterFile, TypeOK
    <2>2. \/ step'[r] = "record" /\ result'[r] \in Results /\ answer'[r] = answer[r]
          \/ step'[r] = "over" /\ answer'[r] \notin Results
      BY <1>1 DEF Load, LoadFails, Return, Answer, Goto, TypeOK, Results, StepInv
    <2>3. /\ faults <= faults' /\ faulty \subseteq faulty' /\ UNCHANGED <<uploads, audit, call>>
          /\ \A q \in Requests : q # r =>
                step'[q] = step[q] /\ result'[q] = result[q] /\ answer'[q] = answer[q]
      BY <1>1 DEF Load, LoadFails, Return, Answer, Goto, Fault, NoFault, TypeOK
    <2>4. TypeOK'
      <3>1. faults' \in 0 .. MaxFaults /\ faulty' \subseteq Requests
        BY <1>1, UploadsAssumption DEF Load, LoadFails, Fault, NoFault, TypeOK
      <3>2. /\ step' \in [Requests -> {"idle", "load", "record", "audit", "reply", "over"}]
            /\ result' \in [Requests -> Results \cup {"none"}]
            /\ answer' \in [Requests -> Results \cup {"none", "http", "lost"}]
        BY <1>1 DEF Load, LoadFails, Return, Answer, Goto, TypeOK, Results
      <3> QED BY <1>1, <2>1, <2>3, <3>1, <3>2 DEF TypeOK
    <2> QED BY <1>1, <1>2, <2>2, <2>3, <2>4, RegisterInv
  <1>3. CASE LoadFails(r) /\ UNCHANGED <<files, loaded>>
    <2>1. TypeOK'
      BY <1>1, <1>3, UploadsAssumption
         DEF LoadFails, Return, Answer, Goto, Fault, TypeOK, Results
    <2>2. ASSUME NEW q \in Requests PROVE StepInv(q)'
      <3>1. StepInv(q)
        BY DEF RequestInv
      <3>2. CASE q = r
        <4>1. /\ \/ step'[r] = "record" /\ result'[r] = "error" /\ answer'[r] = answer[r]
                 \/ step'[r] = "over" /\ answer'[r] \notin Results
              /\ UNCHANGED uploads /\ answer[r] \notin Results
          BY <1>1, <1>3, <3>1, <3>2
             DEF LoadFails, Return, Answer, Goto, TypeOK, Results, StepInv
        <4> QED BY <1>1, <3>1, <3>2, <4>1, RecordsKept
                DEF StepInv, LoaderReturned, Results, Good
      <3>3. CASE q # r
        BY <1>1, <1>3, <3>1, <3>3, StepKept, RecordsKept
           DEF LoadFails, Return, Answer, Goto, Fault, TypeOK
      <3> QED BY <3>2, <3>3
    <2> QED BY <1>3, <2>1, <2>2, RecordsKept DEF RequestInv, LoadFails, Return, Answer
  <1> QED BY <1>2, <1>3 DEF Load, LoadFails

LEMMA RecordInv ==
    ASSUME RequestInv, NEW r \in Requests, RecordUpload(r) \/ RecordFails(r)
    PROVE  RequestInv'
  <1>1. /\ step[r] = "record" /\ TypeOK /\ faults \in Nat /\ StepInv(r)
        /\ UNCHANGED <<files, loaded, audit, call, result, answer>> /\ Goto(r, Recorded(r))
        /\ KeepOriginal(r) \/ (UNCHANGED uploads /\ Fault(r))
        /\ NoFault \/ Fault(r)
    BY UploadsAssumption DEF RecordUpload, RecordFails, RequestInv, TypeOK
  <1>2. /\ uploads' \in SUBSET Original /\ OriginalsInv'
        /\ OriginalsOf(r)' # {} \/ (OriginalsOf(r)' = {} /\ r \in faulty' /\ faults' > 0)
        /\ \A q \in Requests : q # r => OriginalsOf(q)' = OriginalsOf(q)
    <2>1. CASE KeepOriginal(r)
      BY <1>1, <2>1, OriginalKept
    <2>2. CASE UNCHANGED uploads /\ Fault(r)
      BY <1>1, <2>2, RecordsKept DEF Fault, RequestInv, TypeOK, StepInv
    <2> QED BY <1>1, <2>1, <2>2
  <1>3. TypeOK'
    BY <1>1, <1>2, UploadsAssumption DEF TypeOK, Goto, Recorded, Fault, NoFault
  <1>4. ASSUME NEW q \in Requests PROVE StepInv(q)'
    <2>1. StepInv(q)
      BY DEF RequestInv
    <2>2. CASE q = r
      <3>1. Loaded' = Loaded /\ LoaderReturned(r) /\ answer[r] \notin Results
        BY <1>1, RecordsKept DEF StepInv
      <3>2. step'[r] = IF result[r] \in Good THEN "audit" ELSE "reply"
        BY <1>1 DEF Goto, Recorded, TypeOK
      <3> QED BY <1>1, <1>2, <2>2, <3>1, <3>2
              DEF StepInv, LoaderReturned, OriginalTraced, AuditTraced
    <2>3. CASE q # r
      BY <1>1, <1>2, <2>1, <2>3, StepKept, RecordsKept, UploadsAssumption
         DEF Goto, Fault, NoFault, TypeOK
    <2> QED BY <2>2, <2>3
  <1> QED BY <1>1, <1>2, <1>3, <1>4, RecordsKept DEF RequestInv

LEMMA AuditInv ==
    ASSUME RequestInv, NEW r \in Requests, RecordAudit(r) \/ AuditFails(r)
    PROVE  RequestInv'
  <1> DEFINE row == [action |-> "upload", file |-> r]
  <1>1. /\ step[r] = "audit" /\ TypeOK /\ faults \in Nat /\ StepInv(r)
        /\ UNCHANGED <<files, loaded, uploads, call, result, answer>> /\ Goto(r, "reply")
        /\ audit' = Append(audit, row) \/ (UNCHANGED audit /\ Fault(r))
        /\ NoFault \/ Fault(r)
    BY UploadsAssumption DEF RecordAudit, AuditFails, RequestInv, TypeOK
  <1>2. LoaderReturned(r) /\ result[r] \in Good /\ OriginalTraced(r) /\ answer[r] \notin Results
    BY <1>1 DEF StepInv
  <1>3. /\ audit' \in Seq(AuditRow)
        /\ Audited("upload") \subseteq Audited("upload")' /\ Audited("upload")' \subseteq Loaded
        /\ r \in Audited("upload")' \/ Fault(r)
    <2>1. CASE audit' = Append(audit, row)
      <3>1. audit' \in Seq(AuditRow) /\ Audited("upload")' = Audited("upload") \cup {r}
        BY <1>1, <2>1, AuditGrows
      <3> QED BY <1>2, <3>1 DEF LoaderReturned, RequestInv
    <2>2. CASE UNCHANGED audit /\ Fault(r)
      BY <1>1, <2>2, RecordsKept DEF RequestInv, TypeOK
    <2> QED BY <1>1, <2>1, <2>2
  <1>4. TypeOK'
    BY <1>1, <1>3, UploadsAssumption DEF TypeOK, Goto, Fault, NoFault
  <1>5. ASSUME NEW q \in Requests PROVE StepInv(q)'
    <2>1. StepInv(q) /\ Loaded' = Loaded /\ OriginalsOf(q)' = OriginalsOf(q)
      BY <1>1, RecordsKept DEF RequestInv
    <2>2. CASE q = r
      BY <1>1, <1>2, <1>3, <2>1, <2>2
         DEF Goto, Fault, NoFault, TypeOK, StepInv, LoaderReturned, OriginalTraced, AuditTraced
    <2>3. CASE q # r
      <3>1. /\ step'[q] = step[q] /\ result'[q] = result[q] /\ answer'[q] = answer[q]
            /\ faults' \in Nat /\ faults <= faults' /\ faulty \subseteq faulty'
        BY <1>1, <2>3 DEF Goto, Fault, NoFault, TypeOK
      <3> QED BY <1>1, <1>3, <2>1, <3>1, StepKept
    <2> QED BY <2>2, <2>3
  <1> QED BY <1>1, <1>3, <1>4, <1>5, RecordsKept DEF RequestInv

LEMMA ReplyInv ==
    ASSUME RequestInv, NEW r \in Requests, Reply(r)
    PROVE  RequestInv'
  <1>1. TypeOK /\ StepInv(r) /\ step[r] = "reply"
    BY DEF Reply, RequestInv
  <1>2. TypeOK'
    BY <1>1 DEF TypeOK, Reply, Answer, Goto, NoFault
  <1>3. ASSUME NEW q \in Requests PROVE StepInv(q)'
    <2>1. StepInv(q)
      BY DEF RequestInv
    <2>2. CASE q = r
      BY <1>1, <2>2, RecordsKept
         DEF Reply, Answer, Goto, NoFault, TypeOK, StepInv, LoaderReturned, OriginalTraced,
             AuditTraced
    <2>3. CASE q # r
      BY <1>1, <2>1, <2>3, StepKept, RecordsKept DEF Reply, Answer, Goto, NoFault, TypeOK
    <2> QED BY <2>2, <2>3
  <1> QED BY <1>2, <1>3, RecordsKept DEF RequestInv, Reply, Answer, NoFault

LEMMA BreakInv ==
    ASSUME RequestInv, NEW r \in Requests, BreakConnection(r)
    PROVE  RequestInv'
  <1>1. TypeOK'
    BY UploadsAssumption DEF RequestInv, TypeOK, BreakConnection
  <1>2. ASSUME NEW q \in Requests PROVE StepInv(q)'
    <2>1. StepInv(q) /\ TypeOK /\ faults \in Nat /\ faults' = faults + 1
      BY UploadsAssumption DEF RequestInv, TypeOK, BreakConnection
    <2>2. answer'[q] = answer[q] \/ answer'[q] \notin Results
      BY <2>1 DEF BreakConnection, TypeOK, Results
    <2> QED BY <2>1, <2>2, StepKept, RecordsKept DEF BreakConnection
  <1> QED BY <1>1, <1>2, RecordsKept DEF RequestInv, BreakConnection

\* A crash takes the handlers and leaves what they have committed.
LEMMA CrashInv ==
    ASSUME RequestInv, Crash
    PROVE  RequestInv'
  <1>1. TypeOK'
    BY UploadsAssumption DEF RequestInv, TypeOK, Crash
  <1>2. ASSUME NEW q \in Requests PROVE StepInv(q)'
    <2>1. StepInv(q) /\ TypeOK /\ faults \in Nat /\ faults' = faults + 1
      BY UploadsAssumption DEF RequestInv, TypeOK, Crash
    <2>2. CASE step[q] \in {"load", "record", "audit", "reply"}
      <3>1. step'[q] = "over" /\ answer'[q] \notin Results
        BY <2>1, <2>2 DEF Crash, StepInv, Results
      <3> QED BY <3>1 DEF StepInv
    <2>3. CASE step[q] \notin {"load", "record", "audit", "reply"}
      <3>1. step'[q] = step[q] /\ answer'[q] = answer[q] /\ result'[q] = result[q]
        BY <2>3 DEF Crash
      <3> QED BY <2>1, <3>1, StepKept, RecordsKept DEF Crash
    <2> QED BY <2>2, <2>3
  <1> QED BY <1>1, <1>2, RecordsKept DEF RequestInv, Crash

LEMMA DeleteInv ==
    ASSUME RequestInv, NEW f \in Requests, DeleteFile(f)
    PROVE  RequestInv'
  <1>1. audit' \in Seq(AuditRow) /\ Audited("upload")' = Audited("upload")
    BY AuditGrows DEF RequestInv, DeleteFile
  <1>2. TypeOK'
    BY <1>1 DEF RequestInv, TypeOK, DeleteFile, NoFault
  <1>3. ASSUME NEW q \in Requests PROVE StepInv(q)'
    <2>1. StepInv(q) /\ TypeOK /\ faults \in Nat
      BY UploadsAssumption DEF RequestInv, TypeOK
    <2> QED BY <1>1, <2>1, StepKept, RecordsKept DEF DeleteFile, NoFault
  <1> QED BY <1>1, <1>2, <1>3, RecordsKept DEF RequestInv, DeleteFile

-----------------------------------------------------------------------------
LEMMA NextInv == RequestInv /\ [Next]_vars => RequestInv'
  <1> SUFFICES ASSUME RequestInv, [Next]_vars PROVE RequestInv'
    OBVIOUS
  <1>1. ASSUME NEW r \in Requests, Handle(r) PROVE RequestInv'
    BY <1>1, RefuseInv, LoadRefusedInv, LoadInv, RecordInv, AuditInv, ReplyInv DEF Handle
  <1>2. CASE UNCHANGED vars
    <2>1. TypeOK' /\ UNCHANGED <<loaded, uploads, audit>>
      BY <1>2 DEF RequestInv, TypeOK, vars
    <2>2. ASSUME NEW q \in Requests PROVE StepInv(q)'
      <3>1. StepInv(q) /\ faults \in Nat
        BY UploadsAssumption DEF RequestInv, TypeOK
      <3> QED BY <1>2, <3>1, StepKept, RecordsKept DEF vars
    <2> QED BY <1>2, <2>1, <2>2, RecordsKept DEF RequestInv, vars
  <1> QED BY <1>1, <1>2, SendInv, BreakInv, DeleteInv, CrashInv DEF Next

\* Every request's steps stay in their order, and each leaves behind what the
\* next relies on, through failures of any step, crashes and deletions.
THEOREM RequestInvariant == Spec => []RequestInv
  BY InitInv, NextInv, PTL DEF Spec

\* The outcome a client is told is what has been recorded: one original of each
\* upload that reached a loader, an audit row of each that loaded, no record of
\* a load there was not, and a record missing only where something failed.
THEOREM AccountedHolds == Spec => []Accounted
  <1>1. RequestInv => Accounted
    <2> SUFFICES ASSUME RequestInv PROVE Accounted
      OBVIOUS
    <2>1. ASSUME NEW r \in Requests, answer[r] \in Results
          PROVE  /\ r \notin faulty => OriginalsOf(r) # {}
                 /\ answer[r] \in Good =>
                       /\ r \in Loaded
                       /\ r \notin Audited("upload") \/ OriginalsOf(r) = {} => r \in faulty
                       /\ r \in Audited("upload") \/ OriginalsOf(r) # {} \/ faults > 1
      BY <2>1 DEF RequestInv, StepInv, LoaderReturned, OriginalTraced, AuditTraced
    <2> QED BY <2>1 DEF RequestInv, OriginalsInv, Accounted
  <1> QED BY <1>1, RequestInvariant, PTL

-----------------------------------------------------------------------------
(* UploadRequest: what a file that has gone leaves. *)

\* The file at i in loaded is there, or was deleted, or one that shares its
\* name or content was loaded after it.
ReplacedAt(i, k) ==
    LET f == call[loaded[i]] g == call[loaded[k]]
    IN  g.name = f.name \/ g.content = f.content

TraceAt(i) ==
    \/ loaded[i] \in files
    \/ loaded[i] \in Audited("delete")
    \/ \E k \in i + 1 .. Len(loaded) : ReplacedAt(i, k)

LEMMA TraceDefinition == GoneLeavesTrace <=> \A i \in DOMAIN loaded : TraceAt(i)
  BY DEF GoneLeavesTrace, TraceAt, ReplacedAt

\* What is asked for is fixed once a request has reached a loader.
LEMMA TraceKept ==
    ASSUME RequestInv, NEW i \in DOMAIN loaded, TraceAt(i), UNCHANGED loaded,
           \A q \in Loaded : call'[q] = call[q],
           files \subseteq files', Audited("delete") \subseteq Audited("delete")'
    PROVE  TraceAt(i)'
  <1>1. loaded \in Seq(Requests) /\ Len(loaded) \in Nat /\ i \in Nat
        /\ \A k \in 1 .. Len(loaded) : loaded[k] \in Loaded
    BY DEF RequestInv, TypeOK, Loaded
  <1>2. \A k \in i + 1 .. Len(loaded) : ReplacedAt(i, k) => ReplacedAt(i, k)'
    BY <1>1 DEF ReplacedAt
  <1> QED BY <1>2 DEF TraceAt

\* A load replaces the files of its name or content, and comes after them.
LEMMA TraceOfLoad ==
    ASSUME RequestInv, GoneLeavesTrace, NEW r \in Requests, RegisterFile(r),
           UNCHANGED <<call, audit>>
    PROVE  GoneLeavesTrace'
  <1>0. PICK n \in Nat : n = Len(loaded) + 1
    BY DEF RequestInv, TypeOK
  <1>1. loaded \in Seq(Requests) /\ Len(loaded) \in Nat
        /\ loaded' = Append(loaded, r) /\ files' = (files \ Prior(r)) \cup {r}
    BY DEF RequestInv, TypeOK, RegisterFile
  <1>2. /\ DOMAIN loaded' = 1 .. n /\ Len(loaded') = n /\ loaded'[n] = r
        /\ \A k \in 1 .. Len(loaded) : loaded'[k] = loaded[k]
    BY <1>0, <1>1
  <1>3. Audited("delete")' = Audited("delete")
    BY RecordsKept
  <1>4. ASSUME NEW i \in 1 .. n PROVE TraceAt(i)'
    <2>1. CASE i = n
      BY <1>1, <1>2, <2>1 DEF TraceAt
    <2>2. CASE i # n
      <3>1. i \in DOMAIN loaded /\ i \in 1 .. Len(loaded) /\ n \in i + 1 .. n
        BY <1>0, <1>1, <2>2
      <3>2. TraceAt(i)
        BY <3>1, TraceDefinition
      <3>3. CASE loaded[i] \in Prior(r)
        <4>1. ReplacedAt(i, n)'
          BY <1>2, <3>1, <3>3 DEF Prior, ReplacedAt
        <4> QED BY <1>2, <3>1, <4>1 DEF TraceAt
      <3>4. CASE loaded[i] \in files \ Prior(r)
        BY <1>1, <1>2, <3>1, <3>4 DEF TraceAt
      <3>5. CASE loaded[i] \in Audited("delete")
        BY <1>2, <1>3, <3>1, <3>5 DEF TraceAt
      <3>6. CASE \E k \in i + 1 .. Len(loaded) : ReplacedAt(i, k)
        <4>1. PICK k \in i + 1 .. Len(loaded) : ReplacedAt(i, k)
          BY <3>6
        <4>2. k \in i + 1 .. n /\ k \in 1 .. Len(loaded)
          BY <1>0, <1>1, <3>1
        <4>3. ReplacedAt(i, k)'
          BY <1>2, <3>1, <4>1, <4>2 DEF ReplacedAt
        <4> QED BY <1>2, <4>2, <4>3 DEF TraceAt
      <3> QED BY <3>2, <3>3, <3>4, <3>5, <3>6 DEF TraceAt
    <2> QED BY <2>1, <2>2
  <1>5. (\A i \in DOMAIN loaded : TraceAt(i))'
    BY <1>2, <1>4
  <1> QED BY <1>5, TraceDefinition, PTL

\* A file that has gone from the registry left a trace: its deletion is audited,
\* or a file of its name or content was loaded after it.
THEOREM GoneLeavesTraceHolds == Spec => []GoneLeavesTrace
  <1>1. Init => GoneLeavesTrace
    BY DEF Init, GoneLeavesTrace
  <1>2. RequestInv /\ GoneLeavesTrace /\ [Next]_vars => GoneLeavesTrace'
    <2> SUFFICES ASSUME RequestInv, GoneLeavesTrace, [Next]_vars PROVE GoneLeavesTrace'
      OBVIOUS
    <2>1. \A i \in DOMAIN loaded : TraceAt(i)
      BY TraceDefinition
    <2>2. ASSUME UNCHANGED loaded, files \subseteq files',
                 Audited("delete") \subseteq Audited("delete")',
                 \A q \in Loaded : call'[q] = call[q]
          PROVE  GoneLeavesTrace'
      <3>1. (\A i \in DOMAIN loaded : TraceAt(i))'
        BY <2>1, <2>2, TraceKept
      <3> QED BY <3>1, TraceDefinition, PTL
    <2>3. ASSUME NEW r \in Requests, Load(r) \/ LoadFails(r) PROVE GoneLeavesTrace'
      <3>1. CASE RegisterFile(r)
        BY <2>3, <3>1, TraceOfLoad DEF Load, LoadFails, Return, Answer
      <3>2. CASE UNCHANGED <<files, loaded>>
        BY <2>2, <2>3, <3>2, RecordsKept DEF Load, LoadFails, Return, Answer
      <3> QED BY <2>3, <3>1, <3>2 DEF Load, LoadFails
    <2>4. ASSUME NEW r \in Requests, NEW upload \in Uploads, Send(r, upload)
          PROVE  GoneLeavesTrace'
      <3>1. r \notin Loaded
        BY <2>4 DEF Send, RequestInv, StepInv
      <3>2. \A q \in Loaded : call'[q] = call[q]
        BY <2>4, <3>1 DEF Send, RequestInv, TypeOK, Loaded
      <3> QED BY <2>2, <2>4, <3>2, RecordsKept DEF Send
    <2>5. ASSUME NEW r \in Requests, RecordAudit(r) \/ AuditFails(r)
          PROVE  GoneLeavesTrace'
      <3>1. Audited("delete") \subseteq Audited("delete")'
        BY <2>5, AuditGrows, RecordsKept DEF RecordAudit, AuditFails, RequestInv
      <3> QED BY <2>2, <2>5, <3>1 DEF RecordAudit, AuditFails
    <2>6. ASSUME NEW f \in Requests, DeleteFile(f) PROVE GoneLeavesTrace'
      <3>1. Audited("delete")' = Audited("delete") \cup {f}
        BY <2>6, AuditGrows DEF DeleteFile, RequestInv
      <3>2. ASSUME NEW i \in DOMAIN loaded PROVE TraceAt(i)'
        <4>1. TraceAt(i) /\ UNCHANGED <<loaded, call>> /\ files' = files \ {f}
          BY <2>1, <2>6 DEF DeleteFile
        <4>2. \A k \in i + 1 .. Len(loaded) : ReplacedAt(i, k) => ReplacedAt(i, k)'
          BY <4>1 DEF ReplacedAt
        <4> QED BY <3>1, <4>1, <4>2 DEF TraceAt
      <3>3. (\A i \in DOMAIN loaded : TraceAt(i))'
        BY <2>6, <3>2 DEF DeleteFile
      <3> QED BY <3>3, TraceDefinition, PTL
    <2>7. ASSUME NEW r \in Requests,
                 \/ RefuseRequest(r) \/ LoadRefused(r) \/ RecordUpload(r) \/ RecordFails(r)
                 \/ Reply(r) \/ BreakConnection(r)
          PROVE  GoneLeavesTrace'
      BY <2>2, <2>7, RecordsKept
         DEF RefuseRequest, LoadRefused, Return, RecordUpload, RecordFails, Reply, Answer,
             BreakConnection
    <2>8. CASE Crash \/ UNCHANGED vars
      BY <2>2, <2>8, RecordsKept DEF Crash, vars
    <2> QED BY <2>3, <2>4, <2>5, <2>6, <2>7, <2>8 DEF Next, Handle
  <1> QED BY <1>1, <1>2, RequestInvariant, PTL DEF Spec
=============================================================================
