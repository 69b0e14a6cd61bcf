---------------------------- MODULE Finfo_proof ----------------------------
(***************************************************************************)
(* Proofs about Finfo, for names and paths of any length and arrays of any *)
(* size.                                                                   *)
(***************************************************************************)
EXTENDS Finfo, SequenceTheorems, WellFoundedInduction, TLAPS

-----------------------------------------------------------------------------
(* What the path operations return.                                        *)

(* A bounded set of numbers has a greatest: the last separator exists.     *)
LEMMA Least ==
  ASSUME NEW T, T \subseteq Nat, T # {}
  PROVE  \E m \in T : \A y \in T : m <= y
<1>1. \E m \in T : \A y \in T : <<y, m>> \notin OpToRel(<, Nat)
  BY NatLessThanWellFounded, WFMin
<1>2. \E m \in T : \A y \in T : ~(y < m)
  BY <1>1 DEF OpToRel
<1>. QED  BY <1>2

LEMMA Greatest ==
  ASSUME NEW n \in Nat, NEW T, T \subseteq 0..n, T # {}
  PROVE  \E m \in T : \A y \in T : m >= y
<1>. DEFINE R == {n - y : y \in T}
<1>1. \A y \in T : y \in Nat /\ n - y \in Nat
  OBVIOUS
<1>2. R \subseteq Nat
  BY <1>1
<1>3. \A y \in T : n - y \in R
  OBVIOUS
<1>4. R # {}
  BY <1>3
<1>5. PICK z \in R : \A y \in R : z <= y
  BY <1>2, <1>4, Least
<1>6. PICK m \in T : z = n - m
  OBVIOUS
<1>7. \A y \in T : n - m <= n - y
  BY <1>3, <1>5, <1>6
<1>8. \A y \in T : m >= y
  BY <1>1, <1>7
<1>. QED  BY <1>8

IsLastSep(p, k) ==
  /\ k \in 0..Len(p)
  /\ k > 0 => p[k] = Sep
  /\ \A j \in (k + 1)..Len(p) : p[j] # Sep

LEMMA LastSepIs ==
  ASSUME NEW S, NEW p \in Seq(S), NEW k, IsLastSep(p, k)
  PROVE  LastSep(p) = k
<1>1. \A m : IsLastSep(p, m) => m = k
  <2>. SUFFICES ASSUME NEW m, IsLastSep(p, m), m # k  PROVE FALSE
    OBVIOUS
  <2>1. m \in 0..Len(p) /\ k \in 0..Len(p) /\ Len(p) \in Nat
    BY DEF IsLastSep
  <2>2. CASE m < k
    BY <2>1, <2>2 DEF IsLastSep
  <2>3. CASE k < m
    BY <2>1, <2>3 DEF IsLastSep
  <2>. QED  BY <2>1, <2>2, <2>3
<1>2. LastSep(p) = CHOOSE m \in 0..Len(p) : IsLastSep(p, m)
  BY DEF LastSep, IsLastSep
<1>. QED  BY <1>1, <1>2 DEF IsLastSep

LEMMA LastSepExists ==
  ASSUME NEW S, NEW p \in Seq(S)
  PROVE  IsLastSep(p, LastSep(p))
<1>. DEFINE T == {k \in 0..Len(p) : k > 0 => p[k] = Sep}
<1>1. Len(p) \in Nat
  OBVIOUS
<1>2. 0 \in T /\ T \subseteq 0..Len(p)
  BY <1>1
<1>3. PICK m \in T : \A y \in T : m >= y
  BY <1>1, <1>2, Greatest
<1>4. IsLastSep(p, m)
  BY <1>1, <1>2, <1>3 DEF IsLastSep
<1>. QED  BY <1>4, LastSepIs

(* A file name holds no separator.                                         *)
LEMMA FilenameClean ==
  ASSUME NEW p \in Seq(Chars)
  PROVE  filename(p) \in Seq(Letters)
<1>. DEFINE k == LastSep(p)  n == filename(p)
<1>1. IsLastSep(p, k)
  BY LastSepExists
<1>2. k \in Nat /\ Len(p) \in Nat /\ k <= Len(p)
  BY <1>1 DEF IsLastSep
<1>3. n \in Seq(Chars) /\ Len(n) = Len(p) - k
  BY <1>2 DEF filename
<1>4. \A j \in 1..Len(n) : n[j] = p[k + j]
  BY <1>2, <1>3 DEF filename
<1>5. \A j \in 1..Len(n) : n[j] # Sep
  BY <1>1, <1>2, <1>3, <1>4 DEF IsLastSep
<1>6. \A j \in 1..Len(n) : n[j] \in Letters
  BY <1>3, <1>5 DEF Chars
<1>. QED  BY <1>3, <1>6, ElementOfSeq

(* What is appended to a directory is the name of the result.              *)
LEMMA FilenameOfJoin ==
  ASSUME NEW d \in Seq(Chars), NEW n \in Seq(Letters)
  PROVE  Join(d, n) \in Seq(Chars) /\ filename(Join(d, n)) = n
<1>1. \A j \in 1..Len(n) : n[j] \in Letters /\ n[j] # Sep
  BY LettersAssumption
<1>2. n \in Seq(Chars) /\ <<Sep>> \in Seq(Chars)
  BY DEF Chars
<1>3. \E h \in Seq(Chars) : /\ Join(d, n) = h \o n
                            /\ h = <<>> \/ h[Len(h)] = Sep
  <2>1. ~(n # <<>> /\ n[1] = Sep)
    BY <1>1
  <2>2. CASE d = <<>> \/ d[Len(d)] = Sep
    BY <2>1, <2>2 DEF Join
  <2>3. CASE ~(d = <<>> \/ d[Len(d)] = Sep)
    <3>. DEFINE h == d \o <<Sep>>
    <3>1. h \in Seq(Chars) /\ Len(h) = Len(d) + 1 /\ h[Len(h)] = Sep
      BY <1>2
    <3>2. Join(d, n) = h \o n
      BY <2>1, <2>3 DEF Join
    <3>. QED  BY <3>1, <3>2
  <2>. QED  BY <2>2, <2>3
<1>4. PICK h \in Seq(Chars) : /\ Join(d, n) = h \o n
                              /\ h = <<>> \/ h[Len(h)] = Sep
  BY <1>3
<1>. DEFINE p == h \o n
<1>5. p \in Seq(Chars) /\ Len(p) = Len(h) + Len(n)
  BY <1>2
<1>6. Len(h) \in Nat /\ Len(n) \in Nat
  OBVIOUS
<1>7. \A j \in 1..Len(h) : p[j] = h[j]
  BY <1>2
<1>8. \A j \in 1..Len(n) : p[Len(h) + j] = n[j]
  BY <1>2
<1>9. \A j \in (Len(h) + 1)..Len(p) : p[j] # Sep
  <2>. SUFFICES ASSUME NEW j \in (Len(h) + 1)..Len(p)  PROVE p[j] # Sep
    OBVIOUS
  <2>1. j - Len(h) \in 1..Len(n) /\ p[j] = p[Len(h) + (j - Len(h))]
    BY <1>5, <1>6
  <2>. QED  BY <1>1, <1>8, <2>1
<1>10. IsLastSep(p, Len(h))
  BY <1>4, <1>5, <1>6, <1>7, <1>9 DEF IsLastSep
<1>11. LastSep(p) = Len(h)
  BY <1>5, <1>10, LastSepIs
<1>12. filename(p) = n
  <2>. DEFINE s == SubSeq(p, Len(h) + 1, Len(p))
  <2>1. s \in Seq(Chars) /\ Len(s) = Len(n)
    BY <1>5, <1>6
  <2>2. \A j \in 1..Len(n) : s[j] = n[j]
    BY <1>5, <1>6, <1>8
  <2>3. s = n
    BY <1>2, <2>1, <2>2, SeqEqual
  <2>. QED  BY <1>11, <2>3 DEF filename
<1>. QED  BY <1>4, <1>5, <1>12

(* The same for the last character that is no separator.                   *)
IsLastChar(p, k) ==
  /\ k \in 0..Len(p)
  /\ k > 0 => p[k] # Sep
  /\ \A j \in (k + 1)..Len(p) : p[j] = Sep

LEMMA LastCharIs ==
  ASSUME NEW S, NEW p \in Seq(S), NEW k, IsLastChar(p, k)
  PROVE  LastChar(p) = k
<1>1. \A m : IsLastChar(p, m) => m = k
  <2>. SUFFICES ASSUME NEW m, IsLastChar(p, m), m # k  PROVE FALSE
    OBVIOUS
  <2>1. m \in 0..Len(p) /\ k \in 0..Len(p) /\ Len(p) \in Nat
    BY DEF IsLastChar
  <2>2. CASE m < k
    BY <2>1, <2>2 DEF IsLastChar
  <2>3. CASE k < m
    BY <2>1, <2>3 DEF IsLastChar
  <2>. QED  BY <2>1, <2>2, <2>3
<1>2. LastChar(p) = CHOOSE m \in 0..Len(p) : IsLastChar(p, m)
  BY DEF LastChar, IsLastChar
<1>. QED  BY <1>1, <1>2 DEF IsLastChar

LEMMA LastCharExists ==
  ASSUME NEW S, NEW p \in Seq(S)
  PROVE  IsLastChar(p, LastChar(p))
<1>. DEFINE T == {k \in 0..Len(p) : k > 0 => p[k] # Sep}
<1>1. Len(p) \in Nat
  OBVIOUS
<1>2. 0 \in T /\ T \subseteq 0..Len(p)
  BY <1>1
<1>3. PICK m \in T : \A y \in T : m >= y
  BY <1>1, <1>2, Greatest
<1>4. IsLastChar(p, m)
  BY <1>1, <1>2, <1>3 DEF IsLastChar
<1>. QED  BY <1>4, LastCharIs

(* A path that names something has a last character.                       *)
LEMMA Named ==
  ASSUME NEW S, NEW p \in Seq(S), ~NoName(p)
  PROVE  LastChar(p) \in 1..Len(p) /\ p[LastChar(p)] # Sep
<1>1. IsLastChar(p, LastChar(p)) /\ Len(p) \in Nat
  BY LastCharExists
<1>2. LastChar(p) # 0
  BY <1>1 DEF IsLastChar, NoName
<1>. QED  BY <1>1, <1>2 DEF IsLastChar

(* The parent of a directory, the separators behind it and a name is the   *)
(* directory without those separators.                                     *)
LEMMA ParentOfTail ==
  ASSUME NEW d \in Seq(Chars), ~NoName(d),
         NEW h \in Seq(Chars), NEW n \in Seq(Chars),
         (h = d /\ d[Len(d)] = Sep) \/ h = Append(d, Sep),
         \A j \in 1..Len(n) : n[j] # Sep
  PROVE  parent_path(h \o n) = SubSeq(d, 1, LastChar(d))
<1>. DEFINE p == h \o n  c == LastChar(d)
<1>1. c \in 1..Len(d) /\ d[c] # Sep /\ IsLastChar(d, c)
  BY Named, LastCharExists
<1>2. Len(d) \in Nat /\ Len(h) \in Nat /\ Len(n) \in Nat
  OBVIOUS
<1>3. /\ Len(h) >= Len(d) /\ Len(h) > 0 /\ h[Len(h)] = Sep
      /\ \A j \in 1..Len(d) : h[j] = d[j]
      /\ \A j \in (Len(d) + 1)..Len(h) : h[j] = Sep
  <2>1. CASE h = d /\ d[Len(d)] = Sep
    BY <1>1, <1>2, <2>1
  <2>2. CASE h = Append(d, Sep)
    <3>1. Len(h) = Len(d) + 1
      BY <2>2
    <3>2. h[Len(d) + 1] = Sep
      BY <1>2, <2>2
    <3>3. \A j \in 1..Len(d) : h[j] = d[j]
      BY <1>2, <2>2
    <3>4. \A j \in (Len(d) + 1)..Len(h) : j = Len(d) + 1
      BY <1>2, <3>1
    <3>. QED  BY <1>2, <3>1, <3>2, <3>3, <3>4
  <2>. QED  BY <2>1, <2>2
<1>4. p \in Seq(Chars) /\ Len(p) = Len(h) + Len(n)
  OBVIOUS
<1>5. \A j \in 1..Len(h) : p[j] = h[j]
  OBVIOUS
<1>6. \A j \in (Len(h) + 1)..Len(p) : p[j] # Sep
  <2>. SUFFICES ASSUME NEW j \in (Len(h) + 1)..Len(p)  PROVE p[j] # Sep
    OBVIOUS
  <2>1. j - Len(h) \in 1..Len(n) /\ p[j] = n[j - Len(h)]
    BY <1>2, <1>4
  <2>. QED  BY <2>1
<1>7. LastSep(p) = Len(h)
  <2>1. IsLastSep(p, Len(h))
    BY <1>2, <1>3, <1>4, <1>5, <1>6 DEF IsLastSep
  <2>. QED  BY <1>4, <2>1, LastSepIs
<1>8. SubSeq(p, 1, Len(h)) = h
  <2>. DEFINE s == SubSeq(p, 1, Len(h))
  <2>1. s \in Seq(Chars) /\ Len(s) = Len(h)
    BY <1>2, <1>4
  <2>2. \A j \in 1..Len(s) : s[j] = h[j]
    BY <1>2, <1>4, <1>5, <2>1
  <2>. QED  BY <2>1, <2>2, SeqEqual
<1>9. ~NoName(p) /\ ~NoName(h)
  BY <1>1, <1>2, <1>3, <1>4, <1>5 DEF NoName
<1>10. LastChar(h) = c
  <2>1. IsLastChar(h, c)
    BY <1>1, <1>2, <1>3 DEF IsLastChar
  <2>. QED  BY <2>1, LastCharIs
<1>11. parent_path(p) = SubSeq(h, 1, c)
  BY <1>7, <1>8, <1>9, <1>10 DEF parent_path
<1>12. SubSeq(h, 1, c) = SubSeq(d, 1, c)
  <2>. DEFINE s == SubSeq(h, 1, c)  t == SubSeq(d, 1, c)
  <2>1. s \in Seq(Chars) /\ t \in Seq(Chars) /\ Len(s) = c /\ Len(t) = c
    BY <1>1, <1>2, <1>3
  <2>2. \A j \in 1..c : s[j] = t[j]
    BY <1>1, <1>2, <1>3
  <2>. QED  BY <2>1, <2>2, SeqEqual
<1>. QED  BY <1>11, <1>12

(* trim takes off all trailing separators, if there is anything else.      *)
LEMMA Trimmed ==
  ASSUME NEW d \in Seq(Chars), ~NoName(d)
  PROVE  trim(d) = SubSeq(d, 1, LastChar(d))
<1>1. Append(d, Sep) \in Seq(Chars) /\ <<>> \in Seq(Chars)
  BY DEF Chars
<1>2. Append(d, Sep) \o <<>> = Append(d, Sep)
  BY <1>1
<1>3. \A j \in 1..Len(<<>>) : <<>>[j] # Sep
  OBVIOUS
<1>4. parent_path(Append(d, Sep) \o <<>>) = SubSeq(d, 1, LastChar(d))
  BY <1>1, <1>3, ParentOfTail
<1>. QED  BY <1>2, <1>4 DEF trim

(* trim keeps a path without a name and adds a separator (path.cpp:12 says *)
(* that it never does).                                                    *)
LEMMA TrimmedNothing ==
  ASSUME NEW d \in Seq(Chars), NoName(d)
  PROVE  trim(d) = Append(d, Sep)
<1>1. d \in Seq(Chars) /\ Sep \in Chars /\ Len(d) \in Nat
  BY DEF Chars
<1>2. NoName(Append(d, Sep))
  BY <1>1 DEF NoName
<1>. QED  BY <1>2 DEF trim, parent_path

(* trim of a trimmed path changes nothing, exactly for paths that have a   *)
(* name; it may be applied before mkdir, which applies it once more.  Each *)
(* further trim of a path without one makes it longer.                     *)
THEOREM TrimAgain ==
  ASSUME NEW d \in Seq(Chars)
  PROVE  trim(trim(d)) = trim(d) <=> ~NoName(d)
<1>. DEFINE t == trim(d)
<1>1. CASE ~NoName(d)
  <2>. DEFINE c == LastChar(d)
  <2>1. c \in 1..Len(d) /\ d[c] # Sep /\ Len(d) \in Nat
    BY <1>1, Named
  <2>2. t = SubSeq(d, 1, c)
    BY <1>1, Trimmed
  <2>3. t \in Seq(Chars) /\ Len(t) = c /\ t[c] = d[c]
    BY <2>1, <2>2
  <2>. HIDE DEF t
  <2>4. ~NoName(t) /\ IsLastChar(t, c)
    BY <2>1, <2>3 DEF NoName, IsLastChar
  <2>5. trim(t) = SubSeq(t, 1, c)
    BY <2>3, <2>4, Trimmed, LastCharIs
  <2>6. SubSeq(t, 1, c) = t
    <3>. DEFINE s == SubSeq(t, 1, c)
    <3>1. s \in Seq(Chars) /\ Len(s) = Len(t)
      BY <2>1, <2>3
    <3>2. \A j \in 1..Len(s) : s[j] = t[j]
      BY <2>1, <2>3, <3>1
    <3>. QED  BY <2>3, <3>1, <3>2, SeqEqual
  <2>. QED  BY <1>1, <2>5, <2>6 DEF t
<1>2. CASE NoName(d)
  <2>1. t = Append(d, Sep) /\ t \in Seq(Chars) /\ Len(t) = Len(d) + 1
    BY <1>2, TrimmedNothing DEF Chars
  <2>2. NoName(t)
    BY <1>2, <2>1 DEF NoName
  <2>. HIDE DEF t
  <2>3. trim(t) = Append(t, Sep)
    BY <2>1, <2>2, TrimmedNothing
  <2>4. Len(Append(t, Sep)) = Len(t) + 1 /\ Len(t) \in Nat
    BY <2>1 DEF Chars
  <2>5. trim(t) # t
    BY <2>3, <2>4
  <2>. QED  BY <1>2, <2>5 DEF t
<1>. QED  BY <1>1, <1>2

LEMMA JoinParent ==
  ASSUME NEW d \in Seq(Chars), ~NoName(d), NEW n \in Seq(Letters)
  PROVE  parent_path(Join(d, n)) = trim(d)
<1>1. \A j \in 1..Len(n) : n[j] \in Letters /\ n[j] # Sep
  BY LettersAssumption
<1>2. n \in Seq(Chars) /\ Append(d, Sep) \in Seq(Chars)
  BY DEF Chars
<1>3. d # <<>>
  BY DEF NoName
<1>4. Join(d, n) = IF d[Len(d)] = Sep THEN d \o n ELSE Append(d, Sep) \o n
  <2>1. ~(n # <<>> /\ n[1] = Sep)
    BY <1>1
  <2>2. d \o <<Sep>> = Append(d, Sep)
    OBVIOUS
  <2>. QED  BY <1>3, <2>1, <2>2 DEF Join
<1>5. parent_path(Join(d, n)) = SubSeq(d, 1, LastChar(d))
  BY <1>1, <1>2, <1>4, ParentOfTail
<1>. QED  BY <1>5, Trimmed

(* The parent of a path that ends in a name is shorter, and empty only if  *)
(* the path is a bare name.                                                *)
LEMMA ParentShorter ==
  ASSUME NEW S, NEW p \in Seq(S), p # <<>>, p[Len(p)] # Sep
  PROVE  /\ filename(p) # <<>>
         /\ Len(parent_path(p)) < Len(p)
         /\ parent_path(p) = <<>> <=> filename(p) = p
<1>. DEFINE k == LastSep(p)  h == SubSeq(p, 1, k)
<1>1. Len(p) \in Nat /\ Len(p) > 0
  OBVIOUS
<1>2. k \in 0..(Len(p) - 1)
  BY <1>1, LastSepExists DEF IsLastSep
<1>3. filename(p) # <<>>
  <2>1. Len(SubSeq(p, k + 1, Len(p))) = Len(p) - k
    BY <1>1, <1>2
  <2>2. Len(p) - k # 0
    BY <1>1, <1>2
  <2>3. SubSeq(p, k + 1, Len(p)) # <<>>
    BY <2>1, <2>2, EmptySeq
  <2>. QED  BY <2>3 DEF filename
<1>4. ~NoName(p)
  BY <1>1 DEF NoName
<1>5. h \in Seq(S) /\ Len(h) = k
  BY <1>1, <1>2
<1>6. k = 0 <=> filename(p) = p
  <2>1. Len(filename(p)) = Len(p) - k
    BY <1>1, <1>2 DEF filename
  <2>2. filename(p) = p => k = 0
    BY <1>1, <1>2, <2>1
  <2>3. k = 0 => filename(p) = p
    <3>. DEFINE s == SubSeq(p, 1, Len(p))
    <3>1. s \in Seq(S) /\ Len(s) = Len(p)
      BY <1>1
    <3>2. \A j \in 1..Len(s) : s[j] = p[j]
      BY <1>1, <3>1
    <3>3. s = p
      BY <3>1, <3>2, SeqEqual
    <3>. QED  BY <3>3 DEF filename
  <2>. QED  BY <2>2, <2>3
<1>7. CASE h # <<>> /\ NoName(h)
  <2>1. parent_path(p) = <<Sep>>
    BY <1>4, <1>7 DEF parent_path
  <2>2. k > 0 /\ Len(<<Sep>>) = 1
    BY <1>2, <1>5, <1>7
  <2>3. Len(<<Sep>>) # Len(<<>>)
    OBVIOUS
  <2>. QED  BY <1>1, <1>2, <1>3, <1>6, <2>1, <2>2, <2>3
<1>8. CASE ~(h # <<>> /\ NoName(h))
  <2>1. parent_path(p) = SubSeq(h, 1, LastChar(h))
    BY <1>4, <1>8 DEF parent_path
  <2>2. LastChar(h) \in 0..k
    BY <1>5, LastCharExists DEF IsLastChar
  <2>3. Len(SubSeq(h, 1, LastChar(h))) = LastChar(h)
    BY <1>2, <1>5, <2>2
  <2>4. LastChar(h) = 0 => k = 0
    <3>1. ASSUME k # 0  PROVE ~NoName(h)
      BY <1>2, <1>5, <1>8, <3>1
    <3>2. ASSUME ~NoName(h)  PROVE LastChar(h) \in 1..Len(h)
      BY <1>5, <3>2, Named
    <3>. QED  BY <3>1, <3>2
  <2>5. parent_path(p) = <<>> <=> LastChar(h) = 0
    BY <1>2, <1>5, <2>1, <2>2, <2>3
  <2>. QED  BY <1>1, <1>2, <1>3, <1>6, <2>1, <2>2, <2>3, <2>4, <2>5
<1>. QED  BY <1>7, <1>8

(* A string ends at its first terminator.                                  *)
LEMMA StringRead ==
  ASSUME NEW a \in [Slots -> Letters \cup {Nul}], NEW n \in Seq(Letters),
         Len(n) < fname_max_len, a[Len(n) + 1] = Nul,
         \A k \in 1..Len(n) : a[k] = n[k]
  PROVE  c_str(a) = n
<1>. DEFINE Ends(k) == a[k] = Nul /\ \A j \in 1..(k - 1) : a[j] # Nul
<1>1. Len(n) \in Nat /\ fname_max_len \in Nat
  BY ArrayAssumption
<1>2. \A k \in 1..Len(n) : a[k] # Nul
  BY LettersAssumption
<1>3. Len(n) + 1 \in Slots /\ Ends(Len(n) + 1)
  BY <1>1, <1>2 DEF Slots
<1>4. \A k \in Slots : Ends(k) => k = Len(n) + 1
  BY <1>1, <1>2 DEF Slots
<1>5. (CHOOSE k \in Slots : Ends(k)) = Len(n) + 1
  BY <1>3, <1>4
<1>6. c_str(a) = SubSeq(a, 1, Len(n))
  <2>1. c_str(a) = SubSeq(a, 1, (CHOOSE k \in Slots : Ends(k)) - 1)
    BY Zenon DEF c_str
  <2>2. (Len(n) + 1) - 1 = Len(n)
    BY <1>1
  <2>. QED  BY <1>5, <2>1, <2>2
<1>. DEFINE s == SubSeq(a, 1, Len(n))
<1>7. \A k \in 1..Len(n) : a[k] \in Letters \cup {Nul}
  OBVIOUS
<1>8. s \in Seq(Letters \cup {Nul}) /\ Len(s) = Len(n)
  BY <1>1, <1>7, SubSeqProperties
<1>9. \A k \in 1..Len(n) : s[k] = n[k]
  BY <1>1, <1>7, SubSeqProperties
<1>10. n \in Seq(Letters \cup {Nul})
  OBVIOUS
<1>. QED  BY <1>6, <1>8, <1>9, <1>10, SeqEqual

-----------------------------------------------------------------------------
(* The invariant.  In the loop the array holds the characters that have    *)
(* been stored, as far as it reaches; only at its end may the loop leave   *)
(* it.  What has been described without that is the whole name with its    *)
(* terminator, and a File constructed from it is the directory joined with *)
(* that name.                                                              *)
Stored(n) == \A k \in 1..n : k <= fname_max_len => finfo[k] = name[k]

Filling ==
  pc = "fill" =>
    /\ i <= Len(name) /\ Stored(i)
    /\ beyond => Len(name) >= fname_max_len
    /\ ~beyond => i <= fname_max_len

Described ==
  pc = "info" =>
    /\ beyond => Len(name) >= fname_max_len
    /\ ~beyond => /\ Len(name) < fname_max_len
                  /\ Stored(Len(name)) /\ finfo[Len(name) + 1] = Nul

Constructed == pc = "file" => path = Join(dpath, name)

Outside == pc \in {"new", "file"} => ~beyond

IInv == TypeOK /\ Filling /\ Described /\ Outside /\ Constructed

LEMMA InitialisedType == Initialised \in [Slots -> Letters \cup {Nul}]
<1>1. \A k \in Slots : k <= Len(Default) => Default[k] \in Letters
  BY ArrayAssumption, LenProperties, ElementOfSeq DEF Slots
<1>. QED  BY <1>1 DEF Initialised

LEMMA InitHolds == Init => IInv
<1>. SUFFICES ASSUME Init  PROVE IInv
  OBVIOUS
<1>1. path \in Seq(Chars)
  <2>1. PICK n \in 0..MaxTyped : path \in [1..n -> Chars]
    BY DEF Init, Typed
  <2>. QED  BY <2>1, SeqDef
<1>2. TypeOK
  <2>1. dpath \in Seq(Chars) /\ name \in Seq(Letters)
    BY EmptySeq DEF Init
  <2>2. finfo \in [Slots -> Letters \cup {Nul}]
    BY InitialisedType DEF Init
  <2>3. i \in Nat /\ beyond \in BOOLEAN /\ pc = "new"
    BY DEF Init
  <2>. QED  BY <1>1, <2>1, <2>2, <2>3 DEF TypeOK
<1>. QED
  BY <1>2 DEF Init, IInv, Filling, Described, Outside, Constructed

LEMMA StepHolds == IInv /\ [Next]_vars => IInv'
<1>. SUFFICES ASSUME IInv, [Next]_vars  PROVE IInv'
  OBVIOUS
<1>. USE DEF IInv
<1>0. Len(name) \in Nat /\ i \in Nat /\ fname_max_len \in Nat
  BY ArrayAssumption DEF TypeOK
<1>1. CASE to_finfo
  <2>1. name' \in Seq(Letters)
    BY <1>1, FilenameClean DEF to_finfo, FileName, TypeOK
  <2>3. TypeOK'
    BY <1>1, <2>1, InitialisedType DEF to_finfo, TypeOK
  <2>4. Filling'
    BY <1>0, <1>1, <2>1 DEF to_finfo, Filling, Outside, Stored
  <2>. QED
    BY <1>1, <2>3, <2>4 DEF to_finfo, Described, Outside, Constructed
<1>2. CASE Fill
  <2>1. name[i + 1] \in Letters
    BY <1>0, <1>2 DEF Fill, TypeOK
  <2>2. finfo' \in [Slots -> Letters \cup {Nul}] /\ beyond' \in BOOLEAN
    BY <1>0, <1>2, <2>1 DEF Fill, Store, TypeOK
  <2>3. TypeOK'
    BY <1>0, <1>2, <2>2 DEF Fill, TypeOK
  <2>4. Filling'
    <3>1. Stored(i)'  
      BY <1>0, <1>2 DEF Fill, Store, Stored, Filling, TypeOK, Slots
    <3>2. i < fname_max_len => finfo'[i + 1] = name[i + 1]
      BY <1>0, <1>2 DEF Fill, Store, TypeOK, Slots
    <3>3. \A k \in 1..(i + 1) : k <= fname_max_len => finfo'[k] = name[k]
      <4>. SUFFICES ASSUME NEW k \in 1..(i + 1), k <= fname_max_len
                    PROVE finfo'[k] = name[k]
        OBVIOUS
      <4>1. CASE k = i + 1
        BY <1>0, <3>2, <4>1
      <4>2. CASE k # i + 1
        BY <1>0, <1>2, <4>2 DEF Fill, Store, Stored, Filling, TypeOK, Slots
      <4>. QED  BY <4>1, <4>2
    <3>4. i + 1 <= Len(name) /\ ~beyond
      BY <1>0, <1>2 DEF Fill
    <3>5. IF i < fname_max_len THEN beyond' = beyond ELSE beyond' = TRUE
      BY <1>2 DEF Fill, Store
    <3>. QED  BY <1>0, <1>2, <3>3, <3>4, <3>5 DEF Fill, Stored, Filling
  <2>. QED
    BY <1>2, <2>3, <2>4 DEF Fill, Described, Outside, Constructed
<1>3. CASE Terminate
  <2>1. finfo' \in [Slots -> Letters \cup {Nul}] /\ beyond' \in BOOLEAN
    BY <1>0, <1>3 DEF Terminate, Store, TypeOK
  <2>2. TypeOK'
    BY <1>3, <2>1 DEF Terminate, TypeOK
  <2>3. CASE Len(name) < fname_max_len
    <3>1. /\ finfo' = [finfo EXCEPT ![Len(name) + 1] = Nul]
          /\ beyond' = FALSE
      BY <1>3, <2>3 DEF Terminate, Store, TypeOK
    <3>2. finfo'[Len(name) + 1] = Nul
      BY <1>0, <2>3, <3>1 DEF TypeOK, Slots
    <3>3. \A k \in 1..Len(name) : k <= fname_max_len => finfo'[k] = name[k]
      BY <1>0, <1>3, <3>1 DEF TypeOK, Slots, Terminate, Filling, Stored
    <3>. QED
      BY <1>3, <2>2, <2>3, <3>1, <3>2, <3>3
         DEF Terminate, Filling, Described, Outside, Constructed, Stored
  <2>4. CASE ~(Len(name) < fname_max_len)
    <3>1. beyond' = TRUE /\ Len(name) >= fname_max_len
      BY <1>0, <1>3, <2>4 DEF Terminate, Store
    <3>. QED
      BY <1>3, <2>2, <3>1
         DEF Terminate, Filling, Described, Outside, Constructed
  <2>. QED  BY <2>3, <2>4
<1>4. ASSUME NEW d \in Typed, Construct(d)  PROVE IInv'
  <2>1. d \in Seq(Chars)
    <3>1. PICK n \in 0..MaxTyped : d \in [1..n -> Chars]
      BY DEF Typed
    <3>. QED  BY <3>1, SeqDef
  <2>2. Len(name) < fname_max_len /\ finfo[Len(name) + 1] = Nul
    BY <1>4 DEF Construct, Described
  <2>3. \A k \in 1..Len(name) : finfo[k] = name[k]
    BY <1>0, <1>4, <2>2 DEF Construct, Described, Stored
  <2>4. c_str(finfo) = name
    BY <2>2, <2>3, StringRead DEF TypeOK
  <2>5. path' \in Seq(Chars) /\ path' = Join(d, name)
    BY <1>4, <2>1, <2>4, FilenameOfJoin DEF Construct, TypeOK
  <2>6. TypeOK'
    BY <1>4, <2>1, <2>5 DEF Construct, TypeOK
  <2>. QED
    BY <1>4, <2>5, <2>6
       DEF Construct, Filling, Described, Outside, Constructed
<1>5. CASE UNCHANGED vars
  BY <1>5 DEF vars, TypeOK, Filling, Described, Outside, Constructed, Stored
<1>. QED  BY <1>1, <1>2, <1>3, <1>4, <1>5 DEF Next

(* IInv holds in every reachable state, for any array and any names.       *)
THEOREM Invariant == Spec => []IInv
<1>. QED  BY InitHolds, StepHolds, PTL DEF Spec

(* Every variable keeps its type: the name is never taken for a path.      *)
THEOREM TypeCorrect == Spec => []TypeOK
<1>1. IInv => TypeOK
  BY DEF IInv
<1>. QED  BY <1>1, Invariant, PTL

(* A name arrives at the other end as it was sent, whatever its length and *)
(* the directory, and however often it is sent on.                         *)
THEOREM Arrival == Spec => []NameArrives
<1>1. IInv => NameArrives
  BY FilenameOfJoin DEF IInv, TypeOK, Constructed, NameArrives
<1>. QED  BY <1>1, Invariant, PTL

(* to_finfo leaves the array only with a name that does not fit in it.     *)
THEOREM InBounds == Spec => []BeyondOnlyIfTooLong
<1>1. IInv => BeyondOnlyIfTooLong
  <2>. SUFFICES ASSUME IInv  PROVE BeyondOnlyIfTooLong
    OBVIOUS
  <2>1. pc \in {"new", "fill", "info", "file"}
    BY DEF IInv, TypeOK
  <2>. QED
    BY <2>1 DEF IInv, BeyondOnlyIfTooLong, Filling, Described, Outside
<1>. QED  BY <1>1, Invariant, PTL

(* mkdir makes the directory that was typed, below a shorter parent.       *)
THEOREM Making == Spec => []MadeWhereTyped
<1>1. IInv => MadeWhereTyped
  <2>. SUFFICES ASSUME IInv  PROVE MadeWhereTyped
    OBVIOUS
  <2>. DEFINE npath == trim(dpath)  c == LastChar(dpath)
  <2>1. dpath \in Seq(Chars) /\ Sep \in Chars
    BY DEF IInv, TypeOK, Chars
  <2>2. CASE NoName(dpath)
    <3>. DEFINE q == Append(dpath, Sep)
    <3>1. q \in Seq(Chars) /\ Len(q) = Len(dpath) + 1 /\ Len(dpath) \in Nat
      BY <2>1
    <3>2. \A k \in 1..Len(q) : q[k] = Sep
      <4>1. \A k \in 1..Len(dpath) : q[k] = dpath[k]
        BY <2>1
      <4>2. q[Len(q)] = Sep
        BY <2>1, <3>1
      <4>. QED  BY <2>2, <3>1, <4>1, <4>2 DEF NoName
    <3>3. parent_path(q) = q
      BY <3>2 DEF parent_path, NoName
    <3>. QED  BY <2>2, <3>3 DEF MadeWhereTyped, trim
  <2>3. CASE ~NoName(dpath)
    <3>1. npath = SubSeq(dpath, 1, c)
      BY <2>1, <2>3, Trimmed
    <3>2. c \in 1..Len(dpath) /\ dpath[c] # Sep /\ Len(dpath) \in Nat
      BY <2>1, <2>3, Named
    <3>3. npath \in Seq(Chars) /\ Len(npath) = c /\ npath[c] = dpath[c]
      BY <2>1, <3>1, <3>2
    <3>4. /\ filename(npath) # <<>>
          /\ Len(parent_path(npath)) < Len(npath)
          /\ parent_path(npath) = <<>> <=> filename(npath) = npath
      <4>1. npath # <<>> /\ npath[Len(npath)] # Sep
        BY <3>2, <3>3, EmptySeq
      <4>. QED  BY <3>3, <4>1, ParentShorter
    <3>. QED  BY <2>3, <3>1, <3>4 DEF MadeWhereTyped
  <2>. QED  BY <2>2, <2>3
<1>. QED  BY <1>1, Invariant, PTL

(* A File is constructed in the directory that mkdir makes.                *)
THEOREM Receiving == Spec => []ReceivedIntoMade
<1>1. IInv => ReceivedIntoMade
  BY JoinParent DEF IInv, TypeOK, Constructed, ReceivedIntoMade
<1>. QED  BY <1>1, Invariant, PTL

=============================================================================
