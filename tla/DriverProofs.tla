---------------------------- MODULE DriverProofs ----------------------------
(***************************************************************************)
(* Proofs about the phases, for any files, imports and declarations.       *)
(***************************************************************************)
EXTENDS Driver, FiniteSetTheorems, WellFoundedInduction, TLAPS

LEMMA LeastExists ==
  ASSUME NEW T \in SUBSET Nat, T # {}
  PROVE  \E n \in T : \A m \in T : n <= m
  <1>1. PICK n \in T : \A m \in T : ~ (<<m, n>> \in OpToRel(<, Nat))
    BY NatLessThanWellFounded, WFMin
  <1>2. OpToRel(<, Nat) = {r \in Nat \X Nat : r[1] < r[2]}
    BY DEF OpToRel
  <1>3. \A m \in T : ~(m < n)
    BY <1>1, <1>2
  <1> QED
    BY <1>3

(* An induction over the numbers up to n, for a set of them.               *)
LEMMA UpToAll ==
  ASSUME NEW n \in Nat, NEW T, 0 \in T,
         \A i \in 0..(n - 1) : i \in T => i + 1 \in T
  PROVE  \A i \in 0..n : i \in T
  <1> DEFINE Out == {j \in 0..n : j \notin T}
  <1> SUFFICES ASSUME Out # {}
               PROVE  FALSE
    OBVIOUS
  <1>1. Out \in SUBSET Nat
    OBVIOUS
  <1> HIDE DEF Out
  <1>2. PICK i \in Out : \A k \in Out : i <= k
    BY <1>1, LeastExists
  <1>3. i \in 0..n /\ i \notin T
    BY DEF Out
  <1>4. i # 0 /\ i - 1 \in 0..(n - 1) /\ i - 1 \in 0..n /\ ~(i <= i - 1) /\ (i - 1) + 1 = i
    BY <1>3
  <1>5. i - 1 \in T
    BY <1>2, <1>4 DEF Out
  <1> QED
    BY <1>3, <1>4, <1>5

(* A function of the numbers up to n can be given by its first value and   *)
(* what each adds to the one before, here h, which stays within R.         *)
StaysIn(h, n, R) == \A i \in 1..n : \A r \in R : h[i][r] \in R

Iteration(f, h, n, R, base) ==
  f \in [0..n -> R] /\ f[0] = base /\ \A i \in 1..n : f[i] = h[i][f[i - 1]]

LEMMA Iterates ==
  ASSUME NEW n \in Nat, NEW R, NEW base \in R, NEW h, StaysIn(h, n, R)
  PROVE  \E f : Iteration(f, h, n, R, base)
  <1> DEFINE T == {m \in 0..n : \E f : Iteration(f, h, m, R, base)}
  <1>1. 0 \in T
    <2> DEFINE f == [i \in 0..0 |-> base]
    <2>1. Iteration(f, h, 0, R, base)
      BY DEF Iteration
    <2> HIDE DEF f
    <2> QED
      BY <2>1
  <1>2. ASSUME NEW m \in 0..(n - 1), m \in T
        PROVE  m + 1 \in T
    <2>1. PICK f : Iteration(f, h, m, R, base)
      BY <1>2
    <2> DEFINE g == [i \in 0..m + 1 |-> IF i = m + 1 THEN h[i][f[m]] ELSE f[i]]
    <2>2. \A i \in 0..m : g[i] = f[i]
      OBVIOUS
    <2>8. f[m] \in R
      BY <2>1 DEF Iteration
    <2>3. g[m + 1] = h[m + 1][f[m]] /\ m + 1 \in 1..n
      OBVIOUS
    <2>9. h[m + 1][f[m]] \in R
      BY <2>3, <2>8 DEF StaysIn
    <2>4. g \in [0..m + 1 -> R]
      BY <2>1, <2>3, <2>9 DEF Iteration
    <2> HIDE DEF g
    <2>5. ASSUME NEW i \in 1..m + 1
          PROVE  g[i] = h[i][g[i - 1]]
      <3>1. CASE i = m + 1
        BY <2>2, <2>3, <3>1
      <3>2. CASE i # m + 1
        BY <2>1, <2>2, <3>2 DEF Iteration
      <3> QED
        BY <3>1, <3>2
    <2>6. g[0] = base
      BY <2>1, <2>2 DEF Iteration
    <2>7. m + 1 \in 0..n /\ Iteration(g, h, m + 1, R, base)
      BY <2>4, <2>5, <2>6 DEF Iteration
    <2> QED
      BY <2>7
  <1>3. n \in 0..n /\ \A m \in 0..(n - 1) : m \in T => m + 1 \in T
    BY <1>2
  <1> HIDE DEF T
  <1>4. n \in T
    <2>1. \A i \in 0..n : i \in T
      BY <1>1, <1>3, UpToAll
    <2> QED
      BY <1>3, <2>1
  <1> QED
    BY <1>4 DEF T

(* What every step keeps, the recursive functions of the model keep.       *)
AddsWithin(R, declarations, private) ==
  \A i \in 1..Len(declarations) : \A r \in R : Insert(r, declarations[i], private) \in R

AddsUp(f, R, sofar, declarations, private) ==
  /\ f \in [0..Len(declarations) -> R] /\ f[0] = sofar
  /\ \A i \in 1..Len(declarations) : f[i] = Insert(f[i - 1], declarations[i], private)
  /\ AddAll(sofar, declarations, private) = f[Len(declarations)]

LEMMA AddAllIs ==
  ASSUME NEW R, NEW sofar \in R, NEW declarations, NEW private, Len(declarations) \in Nat,
         AddsWithin(R, declarations, private)
  PROVE  \E f : AddsUp(f, R, sofar, declarations, private)
  <1> DEFINE n == Len(declarations)
             Is(f) == f = [i \in 0..n |-> IF i = 0 THEN sofar ELSE Insert(f[i - 1], declarations[i], private)]
             h == [i \in 1..n |-> [r \in R |-> Insert(r, declarations[i], private)]]
             whole == CHOOSE f : Is(f)
  <1>1. \A i \in 1..n : \A r \in R : h[i][r] = Insert(r, declarations[i], private)
    OBVIOUS
  <1>2. n \in Nat /\ StaysIn(h, n, R)
    BY <1>1 DEF StaysIn, AddsWithin
  <1> HIDE DEF h
  <1>3. PICK f : Iteration(f, h, n, R, sofar)
    BY <1>2, Iterates
  <1>4. Is(f)
    <2>1. ASSUME NEW i \in 0..n
          PROVE  f[i] = IF i = 0 THEN sofar ELSE Insert(f[i - 1], declarations[i], private)
      <3>1. i # 0 => i \in 1..n /\ i - 1 \in 0..n
        BY <1>2
      <3> QED
        BY <1>1, <1>3, <3>1 DEF Iteration
    <2>2. f = [i \in 0..n |-> f[i]]
      BY <1>3 DEF Iteration
    <2> QED
      BY <2>1, <2>2
  <1> HIDE DEF Is
  <1>5. Is(whole)
    BY <1>4
  <1>6. AddAll(sofar, declarations, private) = whole[n]
    BY DEF AddAll, Is
  <1> HIDE DEF whole
  <1> DEFINE T == {i \in 0..n : whole[i] \in R}
  <1>7. 0 \in T
    BY <1>2, <1>5 DEF Is
  <1>8. ASSUME NEW i \in 0..(n - 1), i \in T
        PROVE  i + 1 \in T
    <2>1. i + 1 \in 0..n /\ i + 1 \in 1..n /\ i + 1 # 0 /\ (i + 1) - 1 = i
      BY <1>2
    <2>2. whole[i + 1] = Insert(whole[i], declarations[i + 1], private)
      BY <1>5, <2>1 DEF Is
    <2>3. whole[i] \in R
      BY <1>8
    <2>4. Insert(whole[i], declarations[i + 1], private) \in R
      BY <2>1, <2>3 DEF AddsWithin
    <2> QED
      BY <2>1, <2>2, <2>4
  <1> HIDE DEF T
  <1>9. \A i \in 0..n : i \in T
    BY <1>2, <1>7, <1>8, UpToAll
  <1>10. whole \in [0..n -> R]
    <2>1. whole = [i \in 0..n |-> whole[i]]
      BY <1>5 DEF Is
    <2> QED
      BY <1>9, <2>1 DEF T
  <1>11. whole[0] = sofar /\ \A i \in 1..n : whole[i] = Insert(whole[i - 1], declarations[i], private)
    BY <1>2, <1>5 DEF Is
  <1> QED
    BY <1>6, <1>10, <1>11 DEF AddsUp

LEMMA AddAllKeeps ==
  ASSUME NEW R, NEW sofar \in R, NEW declarations, NEW private, Len(declarations) \in Nat,
         \A i \in 1..Len(declarations) : \A r \in R : Insert(r, declarations[i], private) \in R
  PROVE  AddAll(sofar, declarations, private) \in R
  <1>1. AddsWithin(R, declarations, private)
    BY DEF AddsWithin
  <1>2. PICK f : AddsUp(f, R, sofar, declarations, private)
    BY <1>1, AddAllIs
  <1> QED
    BY <1>2 DEF AddsUp

(* And what each step adds to, the whole adds up to.                       *)
LEMMA AddAllReaches ==
  ASSUME NEW R, NEW sofar \in R, NEW declarations, NEW private, Len(declarations) \in Nat,
         \A i \in 1..Len(declarations) : \A r \in R : Insert(r, declarations[i], private) \in R,
         NEW G, sofar \in G[0],
         \A i \in 1..Len(declarations) : \A r \in R : r \in G[i - 1] => Insert(r, declarations[i], private) \in G[i]
  PROVE  AddAll(sofar, declarations, private) \in G[Len(declarations)]
  <1> DEFINE n == Len(declarations)
  <1>1. AddsWithin(R, declarations, private)
    BY DEF AddsWithin
  <1>2. PICK f : AddsUp(f, R, sofar, declarations, private)
    BY <1>1, AddAllIs
  <1>3. /\ f \in [0..n -> R] /\ f[0] = sofar
        /\ \A i \in 1..n : f[i] = Insert(f[i - 1], declarations[i], private)
        /\ AddAll(sofar, declarations, private) = f[n]
    BY <1>2 DEF AddsUp
  <1> DEFINE T == {i \in 0..n : f[i] \in G[i]}
  <1>4. 0 \in T /\ n \in Nat
    BY <1>3
  <1>5. ASSUME NEW i \in 0..(n - 1), i \in T
        PROVE  i + 1 \in T
    <2>1. i + 1 \in 1..n /\ (i + 1) - 1 = i /\ i \in 0..n /\ i + 1 \in 0..n
      BY <1>4
    <2>2. f[i] \in R /\ f[i] \in G[i]
      BY <1>3, <1>5, <2>1
    <2> QED
      BY <1>3, <2>1, <2>2
  <1> HIDE DEF T
  <1>6. n \in T
    <2>1. \A i \in 0..n : i \in T
      BY <1>4, <1>5, UpToAll
    <2> QED
      BY <1>4, <2>1
  <1> QED
    BY <1>3, <1>6 DEF T

ImportsWithin(R, files, contents) ==
  \A i \in 1..Len(files) : \A r \in R : Import(r, files[i], contents[files[i]], FALSE) \in R

ImportsUp(f, R, sofar, files, contents) ==
  /\ f \in [0..Len(files) -> R] /\ f[0] = sofar
  /\ \A i \in 1..Len(files) : f[i] = Import(f[i - 1], files[i], contents[files[i]], FALSE)
  /\ ImportAll(sofar, files, contents) = f[Len(files)]

LEMMA ImportAllIs ==
  ASSUME NEW R, NEW sofar \in R, NEW files, NEW contents, Len(files) \in Nat,
         ImportsWithin(R, files, contents)
  PROVE  \E f : ImportsUp(f, R, sofar, files, contents)
  <1> DEFINE n == Len(files)
             Is(f) == f = [i \in 0..n |-> IF i = 0 THEN sofar ELSE Import(f[i - 1], files[i], contents[files[i]], FALSE)]
             h == [i \in 1..n |-> [r \in R |-> Import(r, files[i], contents[files[i]], FALSE)]]
             whole == CHOOSE f : Is(f)
  <1>1. \A i \in 1..n : \A r \in R : h[i][r] = Import(r, files[i], contents[files[i]], FALSE)
    OBVIOUS
  <1>2. n \in Nat /\ StaysIn(h, n, R)
    BY <1>1 DEF StaysIn, ImportsWithin
  <1> HIDE DEF h
  <1>3. PICK f : Iteration(f, h, n, R, sofar)
    BY <1>2, Iterates
  <1>4. Is(f)
    <2>1. ASSUME NEW i \in 0..n
          PROVE  f[i] = IF i = 0 THEN sofar ELSE Import(f[i - 1], files[i], contents[files[i]], FALSE)
      <3>1. i # 0 => i \in 1..n /\ i - 1 \in 0..n
        BY <1>2
      <3> QED
        BY <1>1, <1>3, <3>1 DEF Iteration
    <2>2. f = [i \in 0..n |-> f[i]]
      BY <1>3 DEF Iteration
    <2> QED
      BY <2>1, <2>2
  <1> HIDE DEF Is
  <1>5. Is(whole)
    BY <1>4
  <1>6. ImportAll(sofar, files, contents) = whole[n]
    BY DEF ImportAll, Is
  <1> HIDE DEF whole
  <1> DEFINE T == {i \in 0..n : whole[i] \in R}
  <1>7. 0 \in T
    BY <1>2, <1>5 DEF Is
  <1>8. \A i \in 0..(n - 1) : i \in T => i + 1 \in T
    BY <1>2, <1>5 DEF Is, ImportsWithin
  <1> HIDE DEF T
  <1>9. \A i \in 0..n : i \in T
    BY <1>2, <1>7, <1>8, UpToAll
  <1>10. whole \in [0..n -> R]
    <2>1. whole = [i \in 0..n |-> whole[i]]
      BY <1>5 DEF Is
    <2> QED
      BY <1>9, <2>1 DEF T
  <1>11. whole[0] = sofar /\ \A i \in 1..n : whole[i] = Import(whole[i - 1], files[i], contents[files[i]], FALSE)
    BY <1>2, <1>5 DEF Is
  <1> QED
    BY <1>6, <1>10, <1>11 DEF ImportsUp

LEMMA ImportAllKeeps ==
  ASSUME NEW R, NEW sofar \in R, NEW files, NEW contents, Len(files) \in Nat,
         \A i \in 1..Len(files) : \A r \in R : Import(r, files[i], contents[files[i]], FALSE) \in R
  PROVE  ImportAll(sofar, files, contents) \in R
  <1>1. ImportsWithin(R, files, contents)
    BY DEF ImportsWithin
  <1>2. PICK f : ImportsUp(f, R, sofar, files, contents)
    BY <1>1, ImportAllIs
  <1> QED
    BY <1>2 DEF ImportsUp

(* And what each step adds to, the whole adds up to.                       *)
LEMMA ImportAllReaches ==
  ASSUME NEW R, NEW sofar \in R, NEW files, NEW contents, Len(files) \in Nat,
         \A i \in 1..Len(files) : \A r \in R : Import(r, files[i], contents[files[i]], FALSE) \in R,
         NEW G, sofar \in G[0],
         \A i \in 1..Len(files) : \A r \in R : r \in G[i - 1] => Import(r, files[i], contents[files[i]], FALSE) \in G[i]
  PROVE  ImportAll(sofar, files, contents) \in G[Len(files)]
  <1> DEFINE n == Len(files)
  <1>1. ImportsWithin(R, files, contents)
    BY DEF ImportsWithin
  <1>2. PICK f : ImportsUp(f, R, sofar, files, contents)
    BY <1>1, ImportAllIs
  <1>3. /\ f \in [0..n -> R] /\ f[0] = sofar
        /\ \A i \in 1..n : f[i] = Import(f[i - 1], files[i], contents[files[i]], FALSE)
        /\ ImportAll(sofar, files, contents) = f[n]
    BY <1>2 DEF ImportsUp
  <1> DEFINE T == {i \in 0..n : f[i] \in G[i]}
  <1>4. 0 \in T /\ n \in Nat
    BY <1>3
  <1>5. ASSUME NEW i \in 0..(n - 1), i \in T
        PROVE  i + 1 \in T
    <2>1. i + 1 \in 1..n /\ (i + 1) - 1 = i /\ i \in 0..n /\ i + 1 \in 0..n
      BY <1>4
    <2>2. f[i] \in R /\ f[i] \in G[i]
      BY <1>3, <1>5, <2>1
    <2> QED
      BY <1>3, <2>1, <2>2
  <1> HIDE DEF T
  <1>6. n \in T
    <2>1. \A i \in 0..n : i \in T
      BY <1>4, <1>5, UpToAll
    <2> QED
      BY <1>4, <2>1
  <1> QED
    BY <1>3, <1>6 DEF T

LEMMA SetScopeReaches ==
  ASSUME NEW R, NEW p, Inserted(add_namespaces(EmptyScope, scopes[p].namespaces)) \in R, Len(Cleaned(p)) \in Nat,
         \A i \in 1..Len(Cleaned(p)) : \A r \in R : PutCopy(r, Cleaned(p)[i]) \in R,
         NEW G, Inserted(add_namespaces(EmptyScope, scopes[p].namespaces)) \in G[0],
         \A i \in 1..Len(Cleaned(p)) : \A r \in R : r \in G[i - 1] => PutCopy(r, Cleaned(p)[i]) \in G[i]
  PROVE  set_scope(p) \in R /\ set_scope(p) \in G[Len(Cleaned(p))]
  <1> DEFINE n == Len(Cleaned(p))
             start == Inserted(add_namespaces(EmptyScope, scopes[p].namespaces))
             Is(f) == f = [i \in 0..n |-> IF i = 0 THEN start ELSE PutCopy(f[i - 1], Cleaned(p)[i])]
             h == [i \in 1..n |-> [r \in R |-> PutCopy(r, Cleaned(p)[i])]]
             whole == CHOOSE f : Is(f)
  <1>1. \A i \in 1..n : \A r \in R : h[i][r] = PutCopy(r, Cleaned(p)[i])
    OBVIOUS
  <1>2. n \in Nat /\ StaysIn(h, n, R) /\ start \in R
    BY <1>1 DEF StaysIn
  <1>6. set_scope(p) = whole[n]
    BY DEF set_scope, Is
  <1>10. start \in G[0]
    OBVIOUS
  <1> HIDE DEF h, start
  <1>3. PICK f : Iteration(f, h, n, R, start)
    BY <1>2, Iterates
  <1>4. Is(f)
    <2>1. ASSUME NEW i \in 0..n
          PROVE  f[i] = IF i = 0 THEN start ELSE PutCopy(f[i - 1], Cleaned(p)[i])
      <3>1. i # 0 => i \in 1..n /\ i - 1 \in 0..n
        BY <1>2
      <3> QED
        BY <1>1, <1>3, <3>1 DEF Iteration
    <2>2. f = [i \in 0..n |-> f[i]]
      BY <1>3 DEF Iteration
    <2> QED
      BY <2>1, <2>2
  <1> HIDE DEF Is
  <1>5. Is(whole)
    BY <1>4
  <1> HIDE DEF whole
  <1> DEFINE T == {i \in 0..n : whole[i] \in R /\ whole[i] \in G[i]}
  <1>7. 0 \in T
    BY <1>2, <1>5, <1>10 DEF Is
  <1>8. ASSUME NEW i \in 0..(n - 1), i \in T
        PROVE  i + 1 \in T
    <2>1. i + 1 \in 0..n /\ i + 1 \in 1..n /\ i + 1 # 0 /\ (i + 1) - 1 = i
      BY <1>2
    <2>2. whole[i + 1] = PutCopy(whole[i], Cleaned(p)[i + 1])
      BY <1>5, <2>1 DEF Is
    <2>3. whole[i] \in R /\ whole[i] \in G[i]
      BY <1>8
    <2> QED
      BY <2>1, <2>2, <2>3
  <1> HIDE DEF T, n
  <1>9. \A i \in 0..n : i \in T
    BY <1>2, <1>7, <1>8, UpToAll
  <1> QED
    BY <1>2, <1>6, <1>9 DEF T, n

LEMMA SetScopeKeeps ==
  ASSUME NEW R, NEW p, Inserted(add_namespaces(EmptyScope, scopes[p].namespaces)) \in R, Len(Cleaned(p)) \in Nat,
         \A i \in 1..Len(Cleaned(p)) : \A r \in R : PutCopy(r, Cleaned(p)[i]) \in R
  PROVE  set_scope(p) \in R
  <1> DEFINE G == [i \in 0..Len(Cleaned(p)) |-> R]
  <1>1. \A i \in 0..Len(Cleaned(p)) : G[i] = R
    OBVIOUS
  <1>2. 0 \in 0..Len(Cleaned(p)) /\ \A i \in 1..Len(Cleaned(p)) : i \in 0..Len(Cleaned(p)) /\ i - 1 \in 0..Len(Cleaned(p))
    OBVIOUS
  <1> HIDE DEF G
  <1> QED
    BY <1>1, <1>2, SetScopeReaches

LEMMA CleanedReaches ==
  ASSUME NEW R, <<>> \in R, NEW p, Len(program[p]) \in Nat,
         \A i \in 1..Len(program[p]) : \A r \in R : CleanNext(r, p, i) \in R,
         NEW G, <<>> \in G[0],
         \A i \in 1..Len(program[p]) : \A r \in R : r \in G[i - 1] => CleanNext(r, p, i) \in G[i]
  PROVE  Cleaned(p) \in R /\ Cleaned(p) \in G[Len(program[p])]
  <1> DEFINE n == Len(program[p])
             Is(f) == f = [i \in 0..n |-> IF i = 0 THEN <<>> ELSE CleanNext(f[i - 1], p, i)]
             h == [i \in 1..n |-> [r \in R |-> CleanNext(r, p, i)]]
             whole == CHOOSE f : Is(f)
  <1>1. \A i \in 1..n : \A r \in R : h[i][r] = CleanNext(r, p, i)
    OBVIOUS
  <1>2. n \in Nat /\ StaysIn(h, n, R)
    BY <1>1 DEF StaysIn
  <1> HIDE DEF h
  <1>3. PICK f : Iteration(f, h, n, R, <<>>)
    BY <1>2, Iterates
  <1>4. Is(f)
    <2>1. ASSUME NEW i \in 0..n
          PROVE  f[i] = IF i = 0 THEN <<>> ELSE CleanNext(f[i - 1], p, i)
      <3>1. i # 0 => i \in 1..n /\ i - 1 \in 0..n
        BY <1>2
      <3> QED
        BY <1>1, <1>3, <3>1 DEF Iteration
    <2>2. f = [i \in 0..n |-> f[i]]
      BY <1>3 DEF Iteration
    <2> QED
      BY <2>1, <2>2
  <1> HIDE DEF Is
  <1>5. Is(whole)
    BY <1>4
  <1>6. Cleaned(p) = whole[n]
    BY DEF Cleaned, Is
  <1> HIDE DEF whole
  <1> DEFINE T == {i \in 0..n : whole[i] \in R /\ whole[i] \in G[i]}
  <1>7. 0 \in T
    BY <1>2, <1>5 DEF Is
  <1>8. ASSUME NEW i \in 0..(n - 1), i \in T
        PROVE  i + 1 \in T
    <2>1. i + 1 \in 0..n /\ i + 1 \in 1..n /\ i + 1 # 0 /\ (i + 1) - 1 = i
      BY <1>2
    <2>2. whole[i + 1] = CleanNext(whole[i], p, i + 1)
      BY <1>5, <2>1 DEF Is
    <2>3. whole[i] \in R /\ whole[i] \in G[i]
      BY <1>8
    <2> QED
      BY <2>1, <2>2, <2>3
  <1> HIDE DEF T, n
  <1>9. \A i \in 0..n : i \in T
    BY <1>2, <1>7, <1>8, UpToAll
  <1> QED
    BY <1>2, <1>6, <1>9 DEF T, n

LEMMA CleanedKeeps ==
  ASSUME NEW R, <<>> \in R, NEW p, Len(program[p]) \in Nat,
         \A i \in 1..Len(program[p]) : \A r \in R : CleanNext(r, p, i) \in R
  PROVE  Cleaned(p) \in R
  <1> DEFINE G == [i \in 0..Len(program[p]) |-> R]
  <1>1. \A i \in 0..Len(program[p]) : G[i] = R
    OBVIOUS
  <1>2. 0 \in 0..Len(program[p]) /\ \A i \in 1..Len(program[p]) : i \in 0..Len(program[p]) /\ i - 1 \in 0..Len(program[p])
    OBVIOUS
  <1> HIDE DEF G
  <1> QED
    BY <1>1, <1>2, CleanedReaches

-----------------------------------------------------------------------------
(* What a scope can hold, and what inserting hands on.                     *)
Constructor == [kind : {"constructor"}, ns : STRING, name : Names, type : Places]
Recording == [ns : STRING, name : Names, kind : {"type", "function", "variable"}]

Scope(E) == [namespaces : SUBSET STRING, entries : SUBSET E, recorded : SUBSET Recording]
Result(E) == [scope : Scope(E), thrown : {"none", "already", "collide"}]

(* What may be added to a scope of entries E.                              *)
Fit(d, E) ==
  /\ d.kind \in {"type", "function", "variable", "statement"}
  /\ d.kind # "statement" => d.ns \in STRING /\ d.name \in Names /\ d \in E
  /\ d.kind = "type" => ConstructorOf(d) \in E

LEMMA InsertedIs ==
  ASSUME NEW E, NEW s \in Scope(E)
  PROVE  Inserted(s) \in Result(E)
  BY DEF Inserted, Result

LEMMA ThrowsIs ==
  ASSUME NEW E, NEW s \in Scope(E), NEW exception \in {"already", "collide"}
  PROVE  Throws(s, exception) \in Result(E)
  BY DEF Throws, Result

LEMMA PutKeeps ==
  ASSUME NEW E, NEW s \in Scope(E), NEW kind \in {"type", "function", "variable"},
         NEW d \in E, d.ns \in STRING, d.name \in Names
  PROVE  Put(s, d, kind) \in Result(E)
  <1> DEFINE t == [s EXCEPT
                     !.entries = @ \cup {d},
                     !.recorded = IF Recorded(s, d) # {} THEN @
                                  ELSE @ \cup {[ns |-> d.ns, name |-> d.name, kind |-> kind]}]
  <1>1. [ns |-> d.ns, name |-> d.name, kind |-> kind] \in Recording
    BY DEF Recording
  <1>2. t \in Scope(E)
    BY <1>1 DEF Scope
  <1> QED
    BY <1>2, InsertedIs DEF Put

LEMMA AddKeeps ==
  ASSUME NEW E, NEW s \in Scope(E), NEW d, Fit(d, E)
  PROVE  Add(s, d) \in Result(E)
  <1>1. CASE d.kind = "statement"
    BY <1>1, InsertedIs DEF Add
  <1>2. CASE d.kind = "function"
    <2>1. insert_function(s, d) \in Result(E)
      BY <1>2, ThrowsIs, PutKeeps DEF insert_function, Fit
    <2>2. Add(s, d) = add_function(s, d)
      BY <1>2 DEF Add
    <2> QED
      BY <2>1, <2>2, ThrowsIs DEF add_function
  <1>3. CASE d.kind = "variable"
    <2>1. insert_variable(s, d) \in Result(E)
      BY <1>3, ThrowsIs, PutKeeps DEF insert_variable, Fit
    <2>2. Add(s, d) = add_variable(s, d)
      BY <1>3 DEF Add
    <2> QED
      BY <2>1, <2>2, ThrowsIs DEF add_variable
  <1>4. CASE d.kind = "type"
    <2>1. insert_type(s, d) \in Result(E)
      BY <1>4, ThrowsIs, PutKeeps DEF insert_type, Fit
    <2> DEFINE t == insert_type(s, d).scope
               c == ConstructorOf(d)
    <2>2. t \in Scope(E) /\ c \in E
      BY <1>4, <2>1 DEF Result, Fit
    <2> HIDE DEF t, c
    <2>3. [t EXCEPT !.entries = @ \cup {c}] \in Scope(E)
      BY <2>2 DEF Scope
    <2>4. add_constructor(t, c) \in Result(E)
      BY <2>2, <2>3, ThrowsIs, InsertedIs DEF add_constructor
    <2>5. Add(s, d) = add_type(s, d)
      BY <1>4 DEF Add
    <2> QED
      BY <2>1, <2>4, <2>5 DEF add_type, t, c
  <1> QED
    BY <1>1, <1>2, <1>3, <1>4 DEF Fit

LEMMA InsertKeeps ==
  ASSUME NEW E, NEW r \in Result(E), NEW d, NEW private, Offered(d, private) => Fit(d, E)
  PROVE  Insert(r, d, private) \in Result(E)
  <1>1. r.scope \in Scope(E)
    BY DEF Result
  <1> QED
    BY <1>1, AddKeeps DEF Insert

LEMMA NamespacesKeep ==
  ASSUME NEW E, NEW s \in Scope(E), NEW names \in SUBSET STRING
  PROVE  add_namespaces(s, names) \in Scope(E)
  BY DEF add_namespaces, Scope

LEMMA ImportKeeps ==
  ASSUME NEW E, NEW r \in Result(E), NEW from, NEW declarations, NEW private,
         Len(declarations) \in Nat, NamespacesOf(from) \in SUBSET STRING,
         \A i \in 1..Len(declarations) : Offered(declarations[i], private) => Fit(declarations[i], E)
  PROVE  Import(r, from, declarations, private) \in Result(E)
  <1>1. r.scope \in Scope(E)
    BY DEF Result
  <1>2. Inserted(add_namespaces(r.scope, NamespacesOf(from))) \in Result(E)
    BY <1>1, NamespacesKeep, InsertedIs
  <1>3. \A i \in 1..Len(declarations) : \A x \in Result(E) :
          Insert(x, declarations[i], private) \in Result(E)
    BY InsertKeeps
  <1>4. AddAll(Inserted(add_namespaces(r.scope, NamespacesOf(from))), declarations, private) \in Result(E)
    BY <1>2, <1>3, AddAllKeeps
  <1> QED
    BY <1>4 DEF Import

LEMMA EmptyScopeIs ==
  ASSUME NEW E
  PROVE  EmptyScope \in Scope(E)
  BY DEF EmptyScope, Scope

-----------------------------------------------------------------------------
(* What a file may use of the others, and what its scope can hold.         *)
Seen(p, place) == place[1] = p \/ program[place[1]][place[2]].public
Declares(q, i, d) == q \in Files /\ i \in 1..Len(program[q]) /\ d = program[q][i] /\ d.id = <<q, i>>
Written(d) == Declares(d.id[1], d.id[2], d)

Visible(p) ==
  {d \in Declaration : Seen(p, d.id) /\ Written(d)} \cup {c \in Constructor : Seen(p, c.type)}

LEMMA ProgramIs ==
  ASSUME program \in Programs, NEW p \in Files
  PROVE  /\ program[p] \in Seq(Declaration) /\ Len(program[p]) \in Nat
         /\ \A i \in 1..Len(program[p]) :
              program[p][i] \in Declaration /\ program[p][i].id = <<p, i>>
         /\ NamespacesOf(p) \in SUBSET STRING
  <1>1. program[p] \in Seq(Declaration) /\ \A i \in DOMAIN program[p] : program[p][i].id = <<p, i>>
    BY ProgramsAssumption
  <1>2. \A i \in 1..Len(program[p]) : program[p][i] \in Declaration
    BY <1>1
  <1>3. DOMAIN program[p] = 1..Len(program[p]) /\ Len(program[p]) \in Nat
    BY <1>1
  <1>4. \A d \in Declaration : d.ns \in STRING
    BY DEF Declaration, TypeDeclaration, VariableDeclaration, FunctionDeclaration, StatementDeclaration
  <1>5. NamespacesOf(p) \in SUBSET STRING
    BY <1>2, <1>3, <1>4 DEF NamespacesOf
  <1> QED
    BY <1>1, <1>2, <1>3, <1>5

LEMMA VisibleFits ==
  ASSUME program \in Programs, NEW p \in Files, NEW q \in Files,
         NEW i \in 1..Len(program[q]), q = p \/ program[q][i].public
  PROVE  Fit(program[q][i], Visible(p))
  <1> DEFINE d == program[q][i]
  <1>1. d \in Declaration /\ d.id = <<q, i>>
    BY ProgramIs
  <1>2. Seen(p, <<q, i>>)
    BY DEF Seen
  <1>7. Written(d)
    BY <1>1 DEF Written, Declares
  <1> HIDE DEF d
  <1>3. d \in Visible(p)
    BY <1>1, <1>2, <1>7 DEF Visible
  <1>4. d.kind \in {"type", "function", "variable", "statement"}
    BY <1>1 DEF Declaration, TypeDeclaration, VariableDeclaration, FunctionDeclaration, StatementDeclaration
  <1>5. d.kind # "statement" => d.ns \in STRING /\ d.name \in Names
    BY <1>1 DEF Declaration, TypeDeclaration, VariableDeclaration, FunctionDeclaration, StatementDeclaration
  <1>6. ASSUME d.kind = "type"
        PROVE  ConstructorOf(d) \in Visible(p)
    <2>1. d \in TypeDeclaration
      BY <1>1, <1>6 DEF Declaration, TypeDeclaration, VariableDeclaration, FunctionDeclaration, StatementDeclaration
    <2>2. ConstructorOf(d) \in Constructor /\ ConstructorOf(d).type = <<q, i>>
      BY <1>1, <2>1 DEF ConstructorOf, Constructor, TypeDeclaration
    <2> QED
      BY <1>2, <2>2 DEF Visible
  <1> QED
    BY <1>3, <1>4, <1>5, <1>6 DEF Fit, d

(* importer.cpp:558: only what is public comes from another file.          *)
LEMMA RunImportsKeeps ==
  ASSUME program \in Programs, NEW p \in Files
  PROVE  run_imports_util(p) \in Result(Visible(p))
  <1> DEFINE R == Result(Visible(p))
             files == ImportsOf[p]
  <1>8. ImportsOf \in [Files -> Seq(Files)]
    BY FilesAssumption
  <1>1. files \in Seq(Files) /\ Len(files) \in Nat
    BY <1>8
  <1>2. Inserted(EmptyScope) \in R
    BY EmptyScopeIs, InsertedIs
  <1>3. ASSUME NEW i \in 1..Len(files), NEW r \in R
        PROVE  Import(r, files[i], program[files[i]], FALSE) \in R
    <2> DEFINE q == files[i]
    <2>1. q \in Files
      BY <1>1
    <2> HIDE DEF q
    <2>2. \A j \in 1..Len(program[q]) :
            Offered(program[q][j], FALSE) => Fit(program[q][j], Visible(p))
      BY <2>1, VisibleFits DEF Offered
    <2>3. Len(program[q]) \in Nat /\ NamespacesOf(q) \in SUBSET STRING
      BY <2>1, ProgramIs
    <2>4. Import(r, q, program[q], FALSE) \in R
      BY <2>2, <2>3, ImportKeeps
    <2> QED
      BY <2>4 DEF q
  <1>4. ImportAll(Inserted(EmptyScope), files, program) \in R
    <2> HIDE DEF R, files
    <2> QED
      BY <1>1, <1>2, <1>3, ImportAllKeeps
  <1>5. \A j \in 1..Len(program[p]) :
          Offered(program[p][j], TRUE) => Fit(program[p][j], Visible(p))
    BY VisibleFits
  <1>6. Len(program[p]) \in Nat /\ NamespacesOf(p) \in SUBSET STRING
    BY ProgramIs
  <1>7. Import(ImportAll(Inserted(EmptyScope), files, program), p, program[p], TRUE) \in R
    BY <1>4, <1>5, <1>6, ImportKeeps
  <1> QED
    BY <1>7 DEF run_imports_util

-----------------------------------------------------------------------------
(* The types of the variables. What a frame holds depends on the phase.    *)
ResolvedUse ==
  [kind : {"variable", "constructor", "call"}, ns : STRING, name : Names, target : Places]
CheckFrame == [fun : FunctionDeclaration, arg : Tokens, next : Nat \ {0}, body : Seq(ResolvedUse)]
FunctionCopy ==
  [kind : {"function"}, ns : STRING, name : Names, param : Tokens, ret : Tokens,
   public : BOOLEAN, id : Places, body : Seq(ResolvedUse)]
Linkable == TypeDeclaration \cup VariableDeclaration \cup Constructor \cup copies
RunFrame == [fun : FunctionCopy, next : Nat \ {0}]

TypeOK ==
  /\ program \in Programs
  /\ phase \in {"import", "check", "clean", "link", "run", "ended"}
  /\ phase = "import" => queue \in Seq(Files) /\ calls = <<>>
  /\ phase = "check" => calls \in Seq(CheckFrame)
  /\ phase = "run" => calls \in Seq(RunFrame)
  /\ scopes = [p \in Files |-> scopes[p]]
  /\ \A p \in Files : scopes[p] \in Scope(Visible(p))
  /\ complete \in BOOLEAN /\ checked \in BOOLEAN
  /\ copies \in SUBSET FunctionCopy /\ IsFiniteSet(copies)
  /\ linked \in [Files -> Scope(Linkable)]
  /\ mainFqn \in Files \cup {""}

(* The calls being checked: each of a function its caller can see, which   *)
(* has found nothing that it cannot.                                       *)
SeesOwn(frame) ==
  \A i \in DOMAIN frame.body : Seen(frame.fun.id[1], frame.body[i].target)

CallsSeen ==
  phase = "check" =>
    \A k \in 1..Len(calls) :
      SeesOwn(calls[k]) /\ (k > 1 => Seen(calls[k - 1].fun.id[1], calls[k].fun.id))

(* The scope of a file depends on the programs only.                       *)
LEMMA ImportsStay ==
  ASSUME program' = program, NEW p
  PROVE  run_imports_util(p)' = run_imports_util(p)
  BY DEF run_imports_util, ImportAll, Import, NamespacesOf

LEMMA VisibleStays ==
  ASSUME program' = program
  PROVE  /\ \A p : Visible(p)' = Visible(p)
         /\ \A p, place : Seen(p, place)' <=> Seen(p, place)
  BY DEF Visible, Seen, Written, Declares

LEMMA FoundIs ==
  /\ \A s, ns, name, arg :
       find_function(s, ns, name, arg) \subseteq Entries(s, "function", ns, name)
  /\ \A s, ns, name, arg, ret :
       find_function_returning(s, ns, name, arg, ret) \subseteq Entries(s, "function", ns, name)
  /\ \A s, ns, name : get_function(s, ns, name) \subseteq Entries(s, "function", ns, name)
  BY DEF find_function, find_function_returning, get_function, Unique, ByReturn, fill_duplicates

LEMMA EntryIs ==
  ASSUME TypeOK, NEW p \in Files, NEW kind \in {"function", "variable", "constructor"},
         NEW ns, NEW name, NEW e \in Entries(scopes[p], kind, ns, name)
  PROVE  /\ e.kind = kind /\ e.name = name
         /\ kind = "function" => e \in FunctionDeclaration /\ Seen(p, e.id)
         /\ kind = "variable" => e \in VariableDeclaration /\ Seen(p, e.id)
         /\ kind = "constructor" => e \in Constructor /\ Seen(p, e.type)
  <1>1. e \in scopes[p].entries /\ e.kind = kind /\ e.name = name
    BY DEF Entries
  <1>2. scopes[p] \in Scope(Visible(p))
    BY DEF TypeOK
  <1>3. e \in Visible(p)
    BY <1>1, <1>2 DEF Scope
  <1>4. \/ e \in Declaration /\ Seen(p, e.id)
        \/ e \in Constructor /\ Seen(p, e.type)
    BY <1>3 DEF Visible
  <1>5. e \in Declaration =>
          /\ kind # "constructor"
          /\ kind = "function" => e \in FunctionDeclaration
          /\ kind = "variable" => e \in VariableDeclaration
    BY <1>1 DEF Declaration, TypeDeclaration, VariableDeclaration, FunctionDeclaration, StatementDeclaration
  <1>6. e \in Constructor => kind = "constructor"
    BY <1>1 DEF Constructor
  <1> QED
    BY <1>1, <1>4, <1>5, <1>6

-----------------------------------------------------------------------------
(* The inductive invariant: the types; what calls and copies see; what is  *)
(* known of the scopes and of __main__ in each phase.                      *)
ScopesInOrder ==
  /\ phase = "import" =>
       /\ ~complete /\ mainFqn = "" /\ copies = {}
       /\ \A p \in Files : p \in ToSet(queue) \/ run_imports_util(p) = Inserted(scopes[p])
  /\ complete => \A p \in Files : run_imports_util(p) = Inserted(scopes[p])
  /\ phase = "clean" /\ ~complete => waiting = {}
  /\ mainFqn # "" => complete
  /\ phase \in {"link", "run"} => mainFqn # ""

MainChecked ==
  /\ \A c \in copies : c.name = <<"__main__">> => checked /\ c.id \in {f.id : f \in MainFound}
  /\ phase \in {"import", "check"} => ~checked
  /\ phase = "check" /\ calls # <<>> => calls[1].fun \in MainFound
  /\ phase = "run" =>
       checked /\ (calls # <<>> => calls[1].fun \in copies /\ calls[1].fun.name = <<"__main__">>)

Inv == TypeOK /\ CallsSeen /\ PrivateKept /\ ScopesInOrder /\ MainChecked

LEMMA InvInit ==
  ASSUME Init
  PROVE  Inv
  <1>1. TypeOK
    <2>1. Order \in Seq(Files)
      BY FilesAssumption
    <2>2. scopes = [p \in Files |-> scopes[p]] /\ \A p \in Files : scopes[p] \in Scope(Visible(p))
      BY EmptyScopeIs DEF Init
    <2>3. linked \in [Files -> Scope(Linkable)]
      BY EmptyScopeIs DEF Init
    <2>4. copies \in SUBSET FunctionCopy /\ IsFiniteSet(copies)
      BY FS_EmptySet DEF Init
    <2> QED
      BY <2>1, <2>2, <2>3, <2>4 DEF Init, TypeOK
  <1>2. CallsSeen /\ PrivateKept /\ MainChecked
    BY DEF Init, CallsSeen, PrivateKept, MainChecked
  <1>3. ScopesInOrder
    BY DEF Init, ScopesInOrder, Files
  <1> QED
    BY <1>1, <1>2, <1>3 DEF Inv

(* The importer.                                                           *)
ScopesAre ==
  /\ scopes = [p \in Files |-> scopes[p]]
  /\ \A p \in Files : scopes[p] \in Scope(Visible(p))

LEMMA OneImported ==
  ASSUME Inv, phase = "import", queue # <<>>, program' = program,
         scopes' = [scopes EXCEPT ![Head(queue)] = run_imports_util(Head(queue)).scope]
  PROVE  ScopesAre' /\ Head(queue) \in Files
  <1> DEFINE h == Head(queue)
             r == run_imports_util(h)
  <1>1. queue \in Seq(Files)
    BY DEF Inv, TypeOK
  <1>2. h \in Files
    BY <1>1
  <1>3. r \in Result(Visible(h))
    BY <1>2, RunImportsKeeps DEF Inv, TypeOK
  <1>4. r.scope \in Scope(Visible(h))
    BY <1>3 DEF Result
  <1>5. scopes' = [scopes EXCEPT ![h] = r.scope]
    OBVIOUS
  <1> HIDE DEF h, r
  <1>6. scopes = [p \in Files |-> scopes[p]]
    BY DEF Inv, TypeOK
  <1>7. scopes' = [p \in Files |-> scopes'[p]] /\ scopes'[h] = r.scope
        /\ \A p \in Files : p # h => scopes'[p] = scopes[p]
    BY <1>2, <1>5, <1>6
  <1>8. ASSUME NEW p \in Files
        PROVE  scopes'[p] \in Scope(Visible(p))'
    <2>1. scopes[p] \in Scope(Visible(p)) /\ Visible(p)' = Visible(p)
      BY VisibleStays DEF Inv, TypeOK
    <2>2. scopes'[p] \in Scope(Visible(p))
      BY <1>4, <1>7, <2>1
    <2> QED
      BY <2>1, <2>2 DEF Scope
  <1> QED
    BY <1>2, <1>7, <1>8 DEF ScopesAre, h

LEMMA ScopesStay ==
  ASSUME TypeOK, program' = program, scopes' = scopes
  PROVE  ScopesAre'
  <1>1. \A p \in Files : scopes'[p] \in Scope(Visible(p))'
    BY VisibleStays DEF TypeOK, Scope
  <1> QED
    BY <1>1 DEF TypeOK, ScopesAre

LEMMA NothingCalled ==
  ASSUME calls' = <<>>, copies' = {}
  PROVE  CallsSeen' /\ PrivateKept'
  <1>1. CallsSeen'
    <2>1. 1..Len(calls') = {}
      OBVIOUS
    <2> QED
      BY <2>1 DEF CallsSeen
  <1>2. PrivateKept'
    BY DEF PrivateKept
  <1> QED
    BY <1>1, <1>2

LEMMA InvImportRefused ==
  ASSUME Inv, ImportRefused
  PROVE  Inv'
  <1>1. phase = "import" /\ queue # <<>> /\ queue \in Seq(Files) /\ calls = <<>>
    BY DEF Inv, TypeOK, ImportRefused
  <1>2. /\ scopes' = [scopes EXCEPT ![Head(queue)] = run_imports_util(Head(queue)).scope]
        /\ program' = program /\ phase' = "check"
        /\ queue' = queue /\ complete' = complete /\ copies' = copies /\ checked' = checked
        /\ calls' = calls /\ linked' = linked /\ mainFqn' = mainFqn
    BY DEF ImportRefused, GoOn, source, checking, cleaning
  <1>3. ScopesAre'
    BY <1>1, <1>2, OneImported
  <1>4. calls' \in Seq(CheckFrame)
    BY <1>1, <1>2
  <1>5. TypeOK'
    BY <1>1, <1>2, <1>3, <1>4 DEF Inv, TypeOK, ScopesAre, Linkable
  <1>6. copies' = {} /\ ~complete' /\ mainFqn' = "" /\ ~checked'
    BY <1>1, <1>2 DEF Inv, ScopesInOrder, MainChecked
  <1> QED
    BY <1>1, <1>2, <1>5, <1>6, NothingCalled DEF Inv, ScopesInOrder, MainChecked

LEMMA InvImportDone ==
  ASSUME Inv, ImportDone
  PROVE  Inv'
  <1>1. phase = "import" /\ queue = <<>> /\ calls = <<>>
    BY DEF Inv, TypeOK, ImportDone
  <1>2. /\ program' = program /\ scopes' = scopes /\ phase' = "check" /\ complete' = TRUE
        /\ queue' = queue /\ copies' = copies /\ checked' = checked
        /\ calls' = calls /\ linked' = linked /\ mainFqn' = mainFqn
    BY DEF ImportDone, GoOn, source, checking, cleaning
  <1>3. ScopesAre'
    BY <1>2, ScopesStay DEF Inv
  <1>4. calls' \in Seq(CheckFrame)
    BY <1>1, <1>2
  <1>5. TypeOK'
    BY <1>1, <1>2, <1>3, <1>4 DEF Inv, TypeOK, ScopesAre, Linkable
  <1>6. copies' = {} /\ mainFqn' = "" /\ ~checked'
    BY <1>1, <1>2 DEF Inv, ScopesInOrder, MainChecked
  <1>7. ToSet(queue) = {}
    BY <1>1 DEF ToSet
  <1>8. \A p \in Files : run_imports_util(p)' = Inserted(scopes'[p])
    BY <1>1, <1>2, <1>7, ImportsStay DEF Inv, ScopesInOrder
  <1>9. ScopesInOrder'
    BY <1>2, <1>6, <1>8 DEF ScopesInOrder
  <1> QED
    BY <1>1, <1>2, <1>5, <1>6, <1>9, NothingCalled DEF Inv, MainChecked

LEMMA InvImportProgram ==
  ASSUME Inv, ImportProgram
  PROVE  Inv'
  <1> DEFINE h == Head(queue)
             r == run_imports_util(h)
  <1>1. phase = "import" /\ queue # <<>> /\ queue \in Seq(Files) /\ calls = <<>>
    BY DEF Inv, TypeOK, ImportProgram
  <1>2. /\ scopes' = [scopes EXCEPT ![Head(queue)] = run_imports_util(Head(queue)).scope]
        /\ program' = program /\ phase' = phase /\ r.thrown = "none"
        /\ queue' = Tail(queue) /\ complete' = complete /\ copies' = copies /\ checked' = checked
        /\ calls' = calls /\ linked' = linked /\ mainFqn' = mainFqn
    BY DEF ImportProgram, GoOn, source, checking, cleaning
  <1>3. ScopesAre' /\ h \in Files
    BY <1>1, <1>2, OneImported
  <1>4. queue' \in Seq(Files) /\ calls' = <<>>
    BY <1>1, <1>2
  <1>5. TypeOK'
    BY <1>1, <1>2, <1>3, <1>4 DEF Inv, TypeOK, ScopesAre, Linkable
  <1>6. copies' = {} /\ mainFqn' = "" /\ ~checked' /\ ~complete'
    BY <1>1, <1>2 DEF Inv, ScopesInOrder, MainChecked
  <1>7. ASSUME NEW p \in Files
        PROVE  p \in ToSet(queue') \/ run_imports_util(p)' = Inserted(scopes'[p])
    <2>1. run_imports_util(p)' = run_imports_util(p)
      BY <1>2, ImportsStay
    <2>2. scopes = [q \in Files |-> scopes[q]]
      BY DEF Inv, TypeOK
    <2>3. CASE p = h
      <3>1. r \in Result(Visible(h))
        BY <1>3, RunImportsKeeps DEF Inv, TypeOK
      <3>2. r = [scope |-> r.scope, thrown |-> "none"]
        BY <1>2, <3>1 DEF Result
      <3>3. scopes'[p] = r.scope
        BY <1>2, <1>3, <2>2, <2>3
      <3> QED
        BY <2>1, <2>3, <3>2, <3>3 DEF Inserted
    <2>4. CASE p # h
      <3>1. scopes'[p] = scopes[p]
        BY <1>2, <2>2, <2>4
      <3>2. p \in ToSet(queue) => p \in ToSet(Tail(queue))
        <4>1. ASSUME NEW i \in 1..Len(queue), p = queue[i]
              PROVE  p \in ToSet(Tail(queue))
          <5>1. i # 1 /\ Len(queue) \in Nat
            BY <1>1, <2>4, <4>1
          <5>2. i - 1 \in 1..Len(Tail(queue)) /\ Tail(queue)[i - 1] = queue[i]
            BY <1>1, <5>1
          <5>3. DOMAIN Tail(queue) = 1..Len(Tail(queue))
            BY <1>1
          <5> QED
            BY <4>1, <5>2, <5>3 DEF ToSet
        <4>2. DOMAIN queue = 1..Len(queue)
          BY <1>1
        <4> QED
          BY <4>1, <4>2 DEF ToSet
      <3>3. p \in ToSet(queue) \/ run_imports_util(p) = Inserted(scopes[p])
        BY <1>1 DEF Inv, ScopesInOrder
      <3> QED
        BY <1>2, <2>1, <3>1, <3>2, <3>3
    <2> QED
      BY <2>3, <2>4
  <1>8. ScopesInOrder'
    BY <1>1, <1>2, <1>6, <1>7 DEF ScopesInOrder
  <1> QED
    BY <1>1, <1>2, <1>4, <1>5, <1>6, <1>8, NothingCalled DEF Inv, MainChecked

(* The checker.                                                            *)
Chained(stack) ==
  \A k \in 1..Len(stack) :
    SeesOwn(stack[k]) /\ (k > 1 => Seen(stack[k - 1].fun.id[1], stack[k].fun.id))

LEMMA TopIs ==
  ASSUME Inv, phase = "check", calls # <<>>
  PROVE  /\ calls \in Seq(CheckFrame) /\ Len(calls) \in Nat \ {0} /\ Top = calls[Len(calls)]
         /\ Top \in CheckFrame /\ Top.fun.id[1] \in Files
         /\ Chained(calls) /\ calls[1].fun \in MainFound
         /\ HasUse => /\ Use \in UseInBody
                      /\ Use.ns \in STRING /\ Use.name \in Names
                      /\ Use.kind = "call" => Use.arg \in Tokens
  <1>1. calls \in Seq(CheckFrame)
    BY DEF Inv, TypeOK
  <1>2. Len(calls) \in Nat \ {0}
    BY <1>1
  <1>3. Top = calls[Len(calls)]
    BY DEF Top, Last
  <1>4. Top \in CheckFrame
    BY <1>1, <1>2, <1>3
  <1>5. Top.fun \in FunctionDeclaration /\ Top.next \in Nat \ {0}
    BY <1>4 DEF CheckFrame
  <1>6. Top.fun.id \in Places /\ Top.fun.body \in Seq(UseInBody)
    BY <1>5 DEF FunctionDeclaration
  <1>7. Top.fun.id[1] \in Files
    BY <1>6 DEF Places
  <1>8. ASSUME HasUse
        PROVE  /\ Use \in UseInBody
               /\ Use.ns \in STRING /\ Use.name \in Names
               /\ Use.kind = "call" => Use.arg \in Tokens
    <2>1. Top.next \in 1..Len(Top.fun.body)
      BY <1>5, <1>6, <1>8 DEF HasUse
    <2>2. Use \in UseInBody
      BY <1>6, <2>1 DEF Use
    <2> QED
      BY <2>2 DEF UseInBody
  <1> QED
    BY <1>1, <1>2, <1>3, <1>4, <1>7, <1>8 DEF Inv, CallsSeen, Chained, MainChecked

LEMMA FrameIs ==
  ASSUME NEW f \in FunctionDeclaration, NEW arg \in Tokens
  PROVE  Frame(f, arg) \in CheckFrame /\ Frame(f, arg).fun = f /\ SeesOwn(Frame(f, arg))
  <1>1. <<>> \in Seq(ResolvedUse) /\ DOMAIN <<>> = {}
    OBVIOUS
  <1>2. Frame(f, arg) = [fun |-> f, arg |-> arg, next |-> 1, body |-> <<>>]
    BY DEF Frame
  <1> QED
    BY <1>1, <1>2 DEF CheckFrame, SeesOwn

(* The innermost of the calls goes on, with one use more resolved.         *)
WithUse(stack, use) ==
  [stack EXCEPT ![Len(stack)].next = @ + 1, ![Len(stack)].body = Append(@, use)]

LEMMA WithUseIs ==
  ASSUME NEW stack \in Seq(CheckFrame), Len(stack) > 0, NEW use \in ResolvedUse
  PROVE  LET n == Len(stack)
             after == WithUse(stack, use)
         IN  /\ after \in Seq(CheckFrame) /\ Len(after) = n
             /\ \A k \in 1..(n - 1) : after[k] = stack[k]
             /\ after[n].fun = stack[n].fun /\ after[n].arg = stack[n].arg
             /\ after[n].body = Append(stack[n].body, use)
  <1> DEFINE n == Len(stack)
             top == stack[n]
             done == [top EXCEPT !.next = @ + 1, !.body = Append(@, use)]
  <1>1. n \in Nat \ {0} /\ top \in CheckFrame
    OBVIOUS
  <1>2. top.next \in Nat \ {0} /\ top.body \in Seq(ResolvedUse)
    BY <1>1 DEF CheckFrame
  <1>3. top.next + 1 \in Nat \ {0}
    BY <1>2
  <1>4. Append(top.body, use) \in Seq(ResolvedUse)
    BY <1>2
  <1>5. done \in CheckFrame
    BY <1>1, <1>3, <1>4 DEF CheckFrame
  <1>6. done.fun = top.fun /\ done.arg = top.arg /\ done.body = Append(top.body, use)
    BY <1>1 DEF CheckFrame
  <1>7. WithUse(stack, use) = [stack EXCEPT ![n] = done]
    BY DEF WithUse
  <1> HIDE DEF done
  <1>8. [stack EXCEPT ![n] = done] \in Seq(CheckFrame)
    BY <1>1, <1>5
  <1>9. Len([stack EXCEPT ![n] = done]) = n
    BY <1>1, <1>5
  <1>10. [stack EXCEPT ![n] = done][n] = done
    BY <1>1
  <1>11. \A k \in 1..(n - 1) : [stack EXCEPT ![n] = done][k] = stack[k]
    BY <1>1
  <1> QED
    BY <1>6, <1>7, <1>8, <1>9, <1>10, <1>11

LEMMA WithUseChained ==
  ASSUME NEW stack \in Seq(CheckFrame), Len(stack) > 0, NEW use \in ResolvedUse,
         Chained(stack), Seen(stack[Len(stack)].fun.id[1], use.target)
  PROVE  Chained(WithUse(stack, use))
  <1> DEFINE n == Len(stack)
             after == WithUse(stack, use)
  <1>1. /\ after \in Seq(CheckFrame) /\ Len(after) = n
        /\ \A k \in 1..(n - 1) : after[k] = stack[k]
        /\ after[n].fun = stack[n].fun
        /\ after[n].body = Append(stack[n].body, use)
    BY WithUseIs
  <1>2. n \in Nat \ {0}
    OBVIOUS
  <1>3. stack[n].body \in Seq(ResolvedUse)
    <2>1. stack[n] \in CheckFrame
      BY <1>2
    <2> QED
      BY <2>1 DEF CheckFrame
  <1> HIDE DEF after
  <1>4. \A k \in 1..n : after[k].fun = stack[k].fun
    BY <1>1, <1>2
  <1>5. SeesOwn(after[n])
    <2> DEFINE b == stack[n].body
    <2>1. b \in Seq(ResolvedUse) /\ Append(b, use) \in Seq(ResolvedUse) /\ Len(b) \in Nat
      BY <1>3
    <2>2. DOMAIN Append(b, use) = 1..(Len(b) + 1) /\ DOMAIN b = 1..Len(b)
      BY <2>1
    <2>3. Append(b, use)[Len(b) + 1] = use /\ \A i \in 1..Len(b) : Append(b, use)[i] = b[i]
      BY <2>1
    <2>4. \A i \in 1..Len(b) : Seen(stack[n].fun.id[1], b[i].target)
      BY <1>2, <2>2 DEF Chained, SeesOwn
    <2> HIDE DEF b
    <2>5. \A i \in 1..(Len(b) + 1) : Seen(stack[n].fun.id[1], Append(b, use)[i].target)
      BY <2>1, <2>3, <2>4
    <2> QED
      BY <1>1, <2>2, <2>5 DEF SeesOwn, b
  <1>6. \A k \in 1..n : SeesOwn(after[k])
    BY <1>1, <1>2, <1>5 DEF Chained
  <1>7. ASSUME NEW k \in 1..n, k > 1
        PROVE  Seen(after[k - 1].fun.id[1], after[k].fun.id)
    BY <1>2, <1>4, <1>7 DEF Chained
  <1> QED
    BY <1>1, <1>6, <1>7 DEF Chained, after

(* A step of the checker that does not end it.                             *)
LEMMA StillChecking ==
  ASSUME Inv, phase = "check", phase' = "check", program' = program, scopes' = scopes,
         complete' = complete, checked' = checked, linked' = linked, mainFqn' = mainFqn,
         copies' \in SUBSET FunctionCopy, IsFiniteSet(copies'), copies \subseteq copies', PrivateKept',
         \A c \in copies' : c.name = <<"__main__">> => c \in copies,
         calls' \in Seq(CheckFrame), Chained(calls'), calls' # <<>> => calls'[1].fun \in MainFound
  PROVE  Inv'
  <1>1. ScopesAre'
    BY ScopesStay DEF Inv
  <1>2. Linkable \subseteq Linkable'
    BY DEF Linkable
  <1>3. linked' \in [Files -> Scope(Linkable)']
    BY <1>2 DEF Inv, TypeOK, Scope
  <1>4. TypeOK'
    BY <1>1, <1>3 DEF Inv, TypeOK, ScopesAre
  <1>5. CallsSeen'
    BY VisibleStays DEF CallsSeen, Chained, SeesOwn
  <1>6. MainFound' = MainFound
    BY DEF MainFound
  <1>7. MainChecked'
    BY <1>6 DEF Inv, MainChecked
  <1>8. ScopesInOrder'
    BY ImportsStay DEF Inv, ScopesInOrder
  <1> QED
    BY <1>4, <1>5, <1>7, <1>8 DEF Inv

LEMMA FunctionIs ==
  ASSUME Inv, NEW p \in Files, NEW ns, NEW name,
         NEW f \in Entries(scopes[p], "function", ns, name)
  PROVE  f \in FunctionDeclaration /\ Seen(p, f.id) /\ f.name = name
  <1>1. TypeOK
    BY DEF Inv
  <1> DEFINE kind == "function"
  <1>2. kind \in {"function", "variable", "constructor"} /\ f \in Entries(scopes[p], kind, ns, name)
    OBVIOUS
  <1>3. kind = "function"
    OBVIOUS
  <1> HIDE DEF kind
  <1> QED
    BY <1>1, <1>2, <1>3, EntryIs

LEMMA MainIs ==
  Main \in Files
  <1>1. Order \in Seq(Files) /\ Order # <<>>
    BY FilesAssumption
  <1> QED
    BY <1>1 DEF Main, Last

LEMMA InvCheckMain ==
  ASSUME Inv, CheckMain
  PROVE  Inv'
  <1>1. PICK f \in MainFound : calls' = <<Frame(f, "list")>>
    BY DEF CheckMain
  <1>2. /\ phase = "check" /\ phase' = "check" /\ program' = program /\ scopes' = scopes
        /\ complete' = complete /\ checked' = checked /\ copies' = copies
        /\ linked' = linked /\ mainFqn' = mainFqn
    BY DEF CheckMain, source, tables, checking, cleaning
  <1>3. f \in FunctionDeclaration
    <2>1. Main \in Files
      BY MainIs
    <2>2. f \in Entries(scopes[Main], "function", "*", <<"__main__">>)
      BY FoundIs DEF MainFound
    <2> QED
      BY <2>1, <2>2, FunctionIs
  <1> DEFINE arg == "list"
             g == Frame(f, arg)
  <1>4. g \in CheckFrame /\ g.fun = f /\ SeesOwn(g)
    <2>1. arg \in Tokens
      BY DEF Tokens
    <2> HIDE DEF arg
    <2> QED
      BY <1>3, <2>1, FrameIs
  <1> HIDE DEF g
  <1>5. calls' = <<g>>
    BY <1>1 DEF g
  <1>6. calls' \in Seq(CheckFrame) /\ Len(calls') = 1 /\ calls'[1] = g
    BY <1>4, <1>5
  <1>7. Chained(calls')
    BY <1>4, <1>6 DEF Chained
  <1>8. PrivateKept' /\ copies' \in SUBSET FunctionCopy /\ IsFiniteSet(copies')
    BY <1>2 DEF Inv, TypeOK, PrivateKept
  <1> QED
    BY <1>2, <1>4, <1>6, <1>7, <1>8, StillChecking

(* A use that is resolved, to what the file of the function can see.       *)
LEMMA InvResolved ==
  ASSUME Inv, phase = "check", HasUse, NEW use \in ResolvedUse, Resolved(use),
         Seen(Top.fun.id[1], use.target),
         phase' = "check", program' = program, scopes' = scopes,
         complete' = complete, checked' = checked, copies' = copies,
         linked' = linked, mainFqn' = mainFqn
  PROVE  Inv'
  <1>1. calls # <<>>
    BY DEF HasUse
  <1>2. /\ calls \in Seq(CheckFrame) /\ Len(calls) \in Nat \ {0} /\ Top = calls[Len(calls)]
        /\ Chained(calls) /\ calls[1].fun \in MainFound
    BY <1>1, TopIs
  <1>3. calls' = WithUse(calls, use)
    BY DEF Resolved, WithUse
  <1>4. /\ calls' \in Seq(CheckFrame) /\ Len(calls') = Len(calls)
        /\ \A k \in 1..(Len(calls) - 1) : calls'[k] = calls[k]
        /\ calls'[Len(calls)].fun = calls[Len(calls)].fun
    <2>1. Len(calls) > 0
      BY <1>2
    <2> DEFINE after == WithUse(calls, use)
    <2>2. /\ after \in Seq(CheckFrame) /\ Len(after) = Len(calls)
          /\ \A k \in 1..(Len(calls) - 1) : after[k] = calls[k]
          /\ after[Len(calls)].fun = calls[Len(calls)].fun
      BY <1>2, <2>1, WithUseIs
    <2> QED
      BY <1>3, <2>2
  <1>5. Chained(calls')
    BY <1>2, <1>3, WithUseChained
  <1>6. calls'[1].fun = calls[1].fun
    BY <1>2, <1>4
  <1>7. PrivateKept' /\ copies' \in SUBSET FunctionCopy /\ IsFiniteSet(copies')
    BY DEF Inv, TypeOK, PrivateKept
  <1> QED
    BY <1>2, <1>4, <1>5, <1>6, <1>7, StillChecking

LEMMA InvCheckVariable ==
  ASSUME Inv, CheckVariable
  PROVE  Inv'
  <1>1. PICK v \in VariableUsed :
          Resolved([kind |-> "variable", ns |-> Use.ns, name |-> v.name, target |-> v.id])
    BY DEF CheckVariable
  <1>2. /\ phase = "check" /\ phase' = "check" /\ program' = program /\ scopes' = scopes
        /\ complete' = complete /\ checked' = checked /\ copies' = copies
        /\ linked' = linked /\ mainFqn' = mainFqn /\ HasUse /\ calls # <<>>
    BY DEF CheckVariable, source, tables, checking, cleaning, HasUse
  <1>3. Top.fun.id[1] \in Files /\ Use.ns \in STRING
    BY <1>2, TopIs
  <1>4. v \in VariableDeclaration /\ Seen(Top.fun.id[1], v.id)
    BY <1>3, EntryIs DEF VariableUsed, ScopeOf, Inv
  <1> DEFINE use == [kind |-> "variable", ns |-> Use.ns, name |-> v.name, target |-> v.id]
  <1>5. use \in ResolvedUse /\ use.target = v.id
    BY <1>3, <1>4 DEF VariableDeclaration, ResolvedUse
  <1>6. Resolved(use)
    BY <1>1
  <1> HIDE DEF use
  <1> QED
    BY <1>2, <1>4, <1>5, <1>6, InvResolved

LEMMA InvCheckConstructor ==
  ASSUME Inv, CheckConstructor
  PROVE  Inv'
  <1>1. PICK c \in ConstructorUsed :
          Resolved([kind |-> "constructor", ns |-> c.ns, name |-> c.name, target |-> c.type])
    BY DEF CheckConstructor
  <1>2. /\ phase = "check" /\ phase' = "check" /\ program' = program /\ scopes' = scopes
        /\ complete' = complete /\ checked' = checked /\ copies' = copies
        /\ linked' = linked /\ mainFqn' = mainFqn /\ HasUse /\ calls # <<>>
    BY DEF CheckConstructor, source, tables, checking, cleaning, HasUse
  <1>3. Top.fun.id[1] \in Files /\ Use.ns \in STRING
    BY <1>2, TopIs
  <1>4. \E ns : c \in Entries(scopes[Top.fun.id[1]], "constructor", ns, Use.name)
    BY DEF ConstructorUsed, ConstructorsIn, ScopeOf
  <1>7. c \in Constructor /\ Seen(Top.fun.id[1], c.type)
    BY <1>3, <1>4, EntryIs DEF Inv
  <1> DEFINE use == [kind |-> "constructor", ns |-> c.ns, name |-> c.name, target |-> c.type]
  <1>5. use \in ResolvedUse /\ use.target = c.type
    BY <1>3, <1>7 DEF Constructor, ResolvedUse
  <1>6. Resolved(use)
    BY <1>1
  <1> HIDE DEF use
  <1> QED
    BY <1>2, <1>7, <1>5, <1>6, InvResolved

LEMMA InvCheckCall ==
  ASSUME Inv, CheckCall
  PROVE  Inv'
  <1> DEFINE arg == Bound(Use.arg, Top.arg)
  <1>1. PICK f \in CalleeFound : calls' = Append(calls, Frame(f, arg))
    BY DEF CheckCall
  <1>2. /\ phase = "check" /\ phase' = "check" /\ program' = program /\ scopes' = scopes
        /\ complete' = complete /\ checked' = checked /\ copies' = copies
        /\ linked' = linked /\ mainFqn' = mainFqn /\ HasUse /\ calls # <<>> /\ Use.kind = "call"
    BY DEF CheckCall, source, tables, checking, cleaning, HasUse
  <1>3. /\ calls \in Seq(CheckFrame) /\ Len(calls) \in Nat \ {0} /\ Top = calls[Len(calls)]
        /\ Top \in CheckFrame /\ Top.fun.id[1] \in Files /\ Use.arg \in Tokens
        /\ Chained(calls) /\ calls[1].fun \in MainFound
    BY <1>2, TopIs
  <1>4. f \in Entries(scopes[Top.fun.id[1]], "function", CalleeNs, Use.name)
    <2> DEFINE s == ScopeOf(Top.fun)
               ns == CalleeNs
               name == Use.name
    <2>1. f \in find_function(s, ns, name, arg)
      BY DEF CalleeFound
    <2>2. s = scopes[Top.fun.id[1]]
      BY DEF ScopeOf
    <2> HIDE DEF s, ns, name, arg
    <2>3. f \in Entries(s, "function", ns, name)
      BY <2>1, FoundIs
    <2> QED
      BY <2>2, <2>3 DEF ns, name
  <1>5. f \in FunctionDeclaration /\ Seen(Top.fun.id[1], f.id)
    <2> DEFINE p == Top.fun.id[1]
    <2>1. p \in Files /\ f \in Entries(scopes[p], "function", CalleeNs, Use.name)
      BY <1>3, <1>4
    <2> HIDE DEF p
    <2>2. f \in FunctionDeclaration /\ Seen(p, f.id)
      BY <2>1, FunctionIs
    <2> QED
      BY <2>2 DEF p
  <1>6. arg \in Tokens
    BY <1>3 DEF Bound, CheckFrame
  <1> HIDE DEF arg
  <1> DEFINE g == Frame(f, arg)
             n == Len(calls)
  <1>7. g \in CheckFrame /\ g.fun = f /\ SeesOwn(g)
    BY <1>5, <1>6, FrameIs
  <1> HIDE DEF g
  <1>8. calls' = Append(calls, g)
    BY <1>1 DEF g
  <1>9. calls' \in Seq(CheckFrame) /\ Len(calls') = n + 1
        /\ calls'[n + 1] = g /\ \A k \in 1..n : calls'[k] = calls[k]
    BY <1>3, <1>7, <1>8
  <1>10. ASSUME NEW k \in 1..(n + 1)
         PROVE  SeesOwn(calls'[k]) /\ (k > 1 => Seen(calls'[k - 1].fun.id[1], calls'[k].fun.id))
    <2>1. CASE k = n + 1
      <3>1. calls'[k] = g /\ calls'[k - 1] = Top
        BY <1>3, <1>9, <2>1
      <3> QED
        BY <1>5, <1>7, <3>1
    <2>2. CASE k # n + 1
      <3>1. k \in 1..n /\ (k > 1 => k - 1 \in 1..n)
        BY <1>3, <2>2
      <3> QED
        BY <1>3, <1>9, <3>1 DEF Chained
    <2> QED
      BY <2>1, <2>2
  <1>11. Chained(calls')
    BY <1>9, <1>10 DEF Chained
  <1>12. PrivateKept' /\ copies' \in SUBSET FunctionCopy /\ IsFiniteSet(copies')
    BY <1>2 DEF Inv, TypeOK, PrivateKept
  <1>13. calls'[1].fun \in MainFound
    BY <1>3, <1>9
  <1> QED
    BY <1>2, <1>9, <1>11, <1>12, <1>13, StillChecking

(* The checker ends: whatever was found, the cleaner comes next.           *)
LEMMA CheckLeft ==
  ASSUME Inv, phase = "check", phase' = "clean", program' = program, scopes' = scopes,
         complete' = complete, linked' = linked, mainFqn' = mainFqn, AllWaiting,
         copies' \in SUBSET FunctionCopy, IsFiniteSet(copies'), copies \subseteq copies',
         PrivateKept', checked' \in BOOLEAN,
         \A c \in copies' : c.name = <<"__main__">> => checked' /\ c.id \in {f.id : f \in MainFound}
  PROVE  Inv'
  <1>1. ScopesAre'
    BY ScopesStay DEF Inv
  <1>2. Linkable \subseteq Linkable'
    BY DEF Linkable
  <1>3. linked' \in [Files -> Scope(Linkable)']
    BY <1>2 DEF Inv, TypeOK, Scope
  <1>4. TypeOK'
    BY <1>1, <1>3 DEF Inv, TypeOK, ScopesAre
  <1>5. CallsSeen'
    BY DEF CallsSeen
  <1>6. MainFound' = MainFound
    BY DEF MainFound
  <1>7. MainChecked'
    BY <1>6 DEF MainChecked
  <1>8. \A p \in Files : run_imports_util(p)' = run_imports_util(p)
    BY ImportsStay
  <1>9. ScopesInOrder'
    BY <1>8 DEF Inv, ScopesInOrder, AllWaiting
  <1> QED
    BY <1>4, <1>5, <1>7, <1>9 DEF Inv

LEMMA InvCheckFails ==
  ASSUME Inv, phase = "check", AllWaiting, CheckFails
  PROVE  Inv'
  <1>1. /\ phase' = "clean" /\ program' = program /\ scopes' = scopes
        /\ complete' = complete /\ checked' = checked /\ copies' = copies
        /\ linked' = linked /\ mainFqn' = mainFqn
    BY DEF CheckFails, GoOn, source, tables, checking, cleaning
  <1>2. PrivateKept'
    BY <1>1 DEF Inv, PrivateKept
  <1>3. copies' \in SUBSET FunctionCopy /\ IsFiniteSet(copies') /\ checked' \in BOOLEAN
    BY <1>1 DEF Inv, TypeOK
  <1>4. \A c \in copies' : c.name = <<"__main__">> => checked' /\ c.id \in {f.id : f \in MainFound}
    BY <1>1 DEF Inv, MainChecked
  <1> QED
    BY <1>1, <1>2, <1>3, <1>4, CheckLeft

LEMMA FrontIs ==
  ASSUME NEW S, NEW s \in Seq(S), Len(s) > 1
  PROVE  /\ Front(s) \in Seq(S) /\ Len(Front(s)) = Len(s) - 1
         /\ \A k \in 1..(Len(s) - 1) : Front(s)[k] = s[k]
  <1>1. Front(s) = SubSeq(s, 1, Len(s) - 1)
    BY DEF Front
  <1> QED
    BY <1>1

LEMMA JoinedIs ==
  ASSUME NEW S, NEW s \in Seq(S), NEW t \in Seq(S)
  PROVE  s \o t \in Seq(S) /\ Len(s \o t) = Len(s) + Len(t)
  OBVIOUS

LEMMA NameIs ==
  ASSUME Inv, phase = "check", calls # <<>>
  PROVE  /\ CopyName \in Names
         /\ Len(calls) > 1 => CopyName # <<"__main__">>
         /\ Copy(Top, CopyName) \in FunctionCopy
         /\ Copy(Top, CopyName).name = CopyName
         /\ Copy(Top, CopyName).id = Top.fun.id
         /\ Copy(Top, CopyName).body = Top.body
  <1> DEFINE f == Top.fun
             arg == Top.arg
             ret == Bound(f.ret, arg)
             name == CopyName
             body == Top.body
  <1>1. Top \in CheckFrame
    BY TopIs
  <1>2. f \in FunctionDeclaration /\ arg \in Tokens /\ body \in Seq(ResolvedUse)
    BY <1>1 DEF CheckFrame
  <1>3. ret \in Tokens /\ f.name \in Seq(Tokens)
    BY <1>2 DEF FunctionDeclaration, Bound, Names
  <1>4. Mangled(Top) = f.name \o <<arg, ret>>
    BY DEF Mangled
  <1>5. Copy(Top, name) = [f EXCEPT !.name = name, !.param = arg, !.ret = ret, !.body = body]
    BY <1>2 DEF Copy, FunctionDeclaration
  <1>6. name = IF Len(calls) = 1 THEN f.name ELSE Mangled(Top)
    BY DEF CopyName
  <1> HIDE DEF f, arg, ret, name, body
  <1> DEFINE two == <<arg, ret>>
  <1>7. two \in Seq(Tokens) /\ Len(two) = 2
    BY <1>2, <1>3
  <1> HIDE DEF two
  <1>8. f.name \o two \in Seq(Tokens) /\ Len(f.name \o two) = Len(f.name) + 2
    BY <1>3, <1>7, JoinedIs
  <1>9. name \in Names
    BY <1>3, <1>4, <1>6, <1>8 DEF Names, two
  <1>10. ASSUME Len(calls) > 1
         PROVE  name # <<"__main__">>
    <2>1. name = f.name \o two
      BY <1>4, <1>6, <1>10, TopIs DEF two
    <2>2. Len(name) > 1
      BY <1>3, <1>8, <2>1
    <2> QED
      BY <2>2
  <1> DEFINE c == [f EXCEPT !.name = name, !.param = arg, !.ret = ret, !.body = body]
  <1>11. c \in FunctionCopy /\ c.name = name /\ c.id = f.id /\ c.body = body
    BY <1>2, <1>3, <1>9 DEF FunctionCopy, FunctionDeclaration
  <1> QED
    BY <1>5, <1>9, <1>10, <1>11 DEF f, name, body

(* A copy made of a function sees what the call it is made for did.        *)
LEMMA CopyAdded ==
  ASSUME Inv, phase = "check", calls # <<>>, copies' = add_specialization, program' = program
  PROVE  /\ copies' \in SUBSET FunctionCopy /\ IsFiniteSet(copies') /\ copies \subseteq copies'
         /\ PrivateKept'
         /\ \A c \in copies' : c \in copies \/ (c.name = CopyName /\ c.id = Top.fun.id)
  <1> DEFINE d == Copy(Top, CopyName)
  <1>1. d \in FunctionCopy /\ d.name = CopyName /\ d.id = Top.fun.id /\ d.body = Top.body
    BY NameIs
  <1>2. copies' = copies \/ copies' = copies \cup {d}
    BY DEF add_specialization
  <1> HIDE DEF d
  <1>3. copies' \in SUBSET FunctionCopy /\ copies \subseteq copies'
    BY <1>1, <1>2 DEF Inv, TypeOK
  <1>4. IsFiniteSet(copies')
    <2>1. IsFiniteSet(copies)
      BY DEF Inv, TypeOK
    <2>2. IsFiniteSet(copies \cup {d})
      BY <2>1, FS_AddElement
    <2> QED
      BY <1>2, <2>1, <2>2
  <1>5. SeesOwn(Top)
    BY TopIs DEF Chained
  <1>6. \A i \in DOMAIN d.body :
          d.body[i].target[1] = d.id[1] \/ program[d.body[i].target[1]][d.body[i].target[2]].public
    BY <1>1, <1>5 DEF SeesOwn, Seen
  <1>7. PrivateKept'
    BY <1>2, <1>6 DEF Inv, PrivateKept
  <1>8. \A c \in copies' : c \in copies \/ (c.name = CopyName /\ c.id = Top.fun.id)
    BY <1>1, <1>2
  <1> QED
    BY <1>3, <1>4, <1>7, <1>8

LEMMA InvCheckReturns ==
  ASSUME Inv, CheckReturns
  PROVE  Inv'
  <1>1. /\ phase = "check" /\ program' = program /\ scopes' = scopes /\ calls # <<>>
        /\ complete' = complete /\ copies' = add_specialization
        /\ linked' = linked /\ mainFqn' = mainFqn
    BY DEF CheckReturns, source, tables, cleaning
  <1>2. /\ calls \in Seq(CheckFrame) /\ Len(calls) \in Nat \ {0} /\ Top = calls[Len(calls)]
        /\ Top \in CheckFrame /\ Chained(calls) /\ calls[1].fun \in MainFound
    BY <1>1, TopIs
  <1>3. /\ copies' \in SUBSET FunctionCopy /\ IsFiniteSet(copies') /\ copies \subseteq copies'
        /\ PrivateKept'
        /\ \A c \in copies' : c \in copies \/ (c.name = CopyName /\ c.id = Top.fun.id)
    BY <1>1, CopyAdded
  <1>4. CASE Len(calls) > 1
    <2> DEFINE before == Front(calls)
               n == Len(before)
    <2>1. /\ before \in Seq(CheckFrame) /\ n = Len(calls) - 1
          /\ \A k \in 1..(Len(calls) - 1) : before[k] = calls[k]
      BY <1>2, <1>4, FrontIs
    <2>2. calls' = WithUse(before, Callee) /\ phase' = "check" /\ checked' = checked
      BY <1>1, <1>4, <2>1 DEF CheckReturns, WithUse
    <2>3. Callee \in ResolvedUse /\ Callee.target = Top.fun.id
      <3>1. CopyName \in Names
        BY <1>1, NameIs
      <3>2. Top.fun \in FunctionDeclaration
        BY <1>2 DEF CheckFrame
      <3> QED
        BY <3>1, <3>2 DEF Callee, ResolvedUse, FunctionDeclaration
    <2> HIDE DEF before
    <2>4. Chained(before)
      BY <1>2, <2>1 DEF Chained
    <2>5. n \in 1..(Len(calls) - 1) /\ n \in Nat /\ n > 0
      BY <1>2, <1>4, <2>1
    <2>6. Seen(before[n].fun.id[1], Callee.target)
      <3>1. Len(calls) > 1 /\ Len(calls) \in 1..Len(calls) /\ Len(calls) - 1 = n
        BY <1>2, <1>4, <2>1
      <3>2. Seen(calls[Len(calls) - 1].fun.id[1], calls[Len(calls)].fun.id)
        BY <1>2, <3>1 DEF Chained
      <3> QED
        BY <1>2, <2>1, <2>3, <2>5, <3>1, <3>2
    <2>7. Chained(calls')
      BY <2>1, <2>2, <2>3, <2>4, <2>5, <2>6, WithUseChained
    <2> DEFINE after == WithUse(before, Callee)
    <2>8. /\ after \in Seq(CheckFrame) /\ Len(after) = n
          /\ \A k \in 1..(n - 1) : after[k] = before[k]
          /\ after[n].fun = before[n].fun
      BY <2>1, <2>3, <2>5, WithUseIs
    <2> HIDE DEF after
    <2>9. after[1].fun = calls[1].fun
      BY <2>1, <2>5, <2>8
    <2>10. calls' \in Seq(CheckFrame) /\ calls'[1].fun \in MainFound
      BY <1>2, <2>2, <2>8, <2>9 DEF after
    <2>11. \A c \in copies' : c.name = <<"__main__">> => c \in copies
      BY <1>1, <1>3, <1>4, NameIs
    <2> QED
      BY <1>1, <1>3, <2>2, <2>7, <2>10, <2>11, StillChecking
  <1>5. CASE Len(calls) = 1
    <2>1. phase' = "clean" /\ checked' = TRUE /\ AllWaiting
      BY <1>5 DEF CheckReturns, GoOn
    <2>2. Top.fun.id \in {f.id : f \in MainFound}
      BY <1>2, <1>5
    <2>3. \A c \in copies' : c.name = <<"__main__">> => checked' /\ c.id \in {f.id : f \in MainFound}
      BY <1>3, <2>1, <2>2 DEF Inv, MainChecked
    <2>4. checked' \in BOOLEAN
      BY <2>1
    <2> QED
      BY <1>1, <1>3, <2>1, <2>3, <2>4, CheckLeft
  <1>6. Len(calls) > 1 \/ Len(calls) = 1
    <2> DEFINE n == Len(calls)
    <2>1. n \in Nat \ {0}
      BY <1>2
    <2> HIDE DEF n
    <2>2. n > 1 \/ n = 1
      BY <2>1
    <2> QED
      BY <2>2 DEF n
  <1> QED
    BY <1>4, <1>5, <1>6

-----------------------------------------------------------------------------
(* The cleaner: what is left of a program can be put into a scope.         *)
Left == TypeDeclaration \cup VariableDeclaration \cup StatementDeclaration \cup copies

LEMMA LeftFits ==
  ASSUME TypeOK, NEW d \in Left
  PROVE  Fit(d, Linkable)
  <1>1. CASE d \in TypeDeclaration
    <2>1. ConstructorOf(d) \in Constructor
      BY <1>1 DEF ConstructorOf, Constructor, TypeDeclaration
    <2> QED
      BY <1>1, <2>1 DEF Fit, Linkable, TypeDeclaration
  <1>2. CASE d \in VariableDeclaration
    BY <1>2 DEF Fit, Linkable, VariableDeclaration
  <1>3. CASE d \in StatementDeclaration
    BY <1>3 DEF Fit, StatementDeclaration
  <1>4. CASE d \in copies
    <2>1. d \in FunctionCopy
      BY <1>4 DEF TypeOK
    <2> QED
      BY <1>4, <2>1 DEF Fit, Linkable, FunctionCopy
  <1> QED
    BY <1>1, <1>2, <1>3, <1>4 DEF Left

LEMMA SetToSeqIs ==
  ASSUME NEW S, IsFiniteSet(S)
  PROVE  SetToSeq(S) \in Seq(S)
  <1> DEFINE n == Cardinality(S)
  <1>1. n \in Nat /\ ExistsBijection(1..n, S)
    BY FS_CardinalityType
  <1>2. \E f \in [1..n -> S] : IsInjective(f)
    BY <1>1 DEF ExistsBijection, Bijection, Injection
  <1>3. SetToSeq(S) \in [1..n -> S]
    BY <1>2 DEF SetToSeq
  <1> HIDE DEF n
  <1> QED
    BY <1>1, <1>3

LEMMA TypeCopyIs ==
  ASSUME NEW d \in TypeDeclaration
  PROVE  TypeCopy(d) \in TypeDeclaration
  <1>1. d.cons \in Seq(Tokens) /\ d.name \in Seq(Tokens)
    BY DEF TypeDeclaration, Names
  <1>2. d.cons \o d.name \in Names
    BY <1>1, JoinedIs DEF Names
  <1> DEFINE cons == d.cons \o d.name
  <1>3. TypeCopy(d) = [d EXCEPT !.public = TRUE, !.cons = cons]
    BY DEF TypeCopy
  <1> HIDE DEF cons
  <1>4. cons \in Names
    BY <1>2 DEF cons
  <1> QED
    BY <1>3, <1>4 DEF TypeDeclaration

LEMMA OneIs ==
  ASSUME NEW S, NEW x \in S
  PROVE  <<x>> \in Seq(S) /\ <<>> \in Seq(S)
  OBVIOUS

LEMMA SeqWithin ==
  ASSUME NEW S, NEW T, S \subseteq T, NEW s \in Seq(S)
  PROVE  s \in Seq(T)
  OBVIOUS

LEMMA CleanDeclarationIs ==
  ASSUME TypeOK, NEW d \in Declaration
  PROVE  CleanDeclaration(d) \in Seq(Left)
  <1>1. CASE d.kind = "type"
    <2>1. d \in TypeDeclaration
      BY <1>1 DEF Declaration, TypeDeclaration, VariableDeclaration, FunctionDeclaration, StatementDeclaration
    <2>2. TypeCopy(d) \in Left
      BY <2>1, TypeCopyIs DEF Left
    <2>3. <<TypeCopy(d)>> \in Seq(Left) /\ <<>> \in Seq(Left)
      BY <2>2, OneIs
    <2> QED
      BY <1>1, <2>3 DEF CleanDeclaration
  <1>2. CASE d.kind = "function"
    <2>1. CopiesOf(d) \subseteq copies /\ IsFiniteSet(copies)
      BY DEF CopiesOf, TypeOK
    <2>2. IsFiniteSet(CopiesOf(d))
      BY <2>1, FS_Subset
    <2>3. SetToSeq(CopiesOf(d)) \in Seq(CopiesOf(d))
      BY <2>2, SetToSeqIs
    <2>4. CopiesOf(d) \subseteq Left
      BY <2>1 DEF Left
    <2>5. SetToSeq(CopiesOf(d)) \in Seq(Left)
      BY <2>3, <2>4, SeqWithin
    <2> QED
      BY <1>2, <2>5 DEF CleanDeclaration
  <1>3. CASE d.kind \notin {"type", "function"}
    <2>1. d \in VariableDeclaration \cup StatementDeclaration
      BY <1>3 DEF Declaration, TypeDeclaration, VariableDeclaration, FunctionDeclaration, StatementDeclaration
    <2>2. d \in Left
      BY <2>1 DEF Left
    <2>3. <<d>> \in Seq(Left)
      BY <2>2, OneIs
    <2> QED
      BY <1>3, <2>3 DEF CleanDeclaration
  <1> QED
    BY <1>1, <1>2, <1>3

LEMMA CleanedIs ==
  ASSUME TypeOK, NEW p \in Files
  PROVE  Cleaned(p) \in Seq(Left)
  <1> DEFINE R == Seq(Left)
  <1>1. program \in Programs
    BY DEF TypeOK
  <1>2. Len(program[p]) \in Nat /\ \A i \in 1..Len(program[p]) : program[p][i] \in Declaration
    BY <1>1, ProgramIs
  <1>3. ASSUME NEW i \in 1..Len(program[p]), NEW r \in R
        PROVE  CleanNext(r, p, i) \in R
    <2> DEFINE d == CleanDeclaration(program[p][i])
    <2>1. d \in Seq(Left)
      BY <1>2, CleanDeclarationIs
    <2>2. r \o d \in Seq(Left)
      <3> HIDE DEF d
      <3> QED
        BY <2>1, JoinedIs
    <2> QED
      BY <2>2 DEF CleanNext
  <1>4. <<>> \in R
    OBVIOUS
  <1> HIDE DEF R
  <1>5. Cleaned(p) \in R
    BY <1>2, <1>3, <1>4, CleanedKeeps
  <1> QED
    BY <1>5 DEF R

LEMMA SetScopeIs ==
  ASSUME TypeOK, NEW p \in Files
  PROVE  set_scope(p) \in Result(Linkable)
  <1> DEFINE R == Result(Linkable)
             c == Cleaned(p)
  <1>1. c \in Seq(Left) /\ Len(c) \in Nat /\ \A i \in 1..Len(c) : c[i] \in Left
    BY CleanedIs
  <1>2. scopes[p].namespaces \in SUBSET STRING
    BY DEF TypeOK, Scope
  <1>3. Inserted(add_namespaces(EmptyScope, scopes[p].namespaces)) \in R
    <2>1. add_namespaces(EmptyScope, scopes[p].namespaces) \in Scope(Linkable)
      BY <1>2, EmptyScopeIs, NamespacesKeep
    <2> QED
      BY <2>1, InsertedIs
  <1>4. ASSUME NEW i \in 1..Len(c), NEW r \in R
        PROVE  PutCopy(r, c[i]) \in R
    <2>1. Fit(c[i], Linkable) /\ r.scope \in Scope(Linkable)
      BY <1>1, LeftFits DEF Result
    <2>2. Add(r.scope, c[i]) \in R
      BY <2>1, AddKeeps
    <2> QED
      BY <2>2 DEF PutCopy
  <1> HIDE DEF R
  <1>5. set_scope(p) \in R
    BY <1>1, <1>3, <1>4, SetScopeKeeps
  <1> QED
    BY <1>5 DEF R

(* Behind the checker, neither what it left nor the scopes change.         *)
LEMMA LaterStep ==
  ASSUME Inv, phase' \in {"clean", "link", "run", "ended"},
         program' = program, scopes' = scopes, complete' = complete,
         copies' = copies, checked' = checked,
         linked' \in [Files -> Scope(Linkable)], mainFqn' \in Files \cup {""},
         mainFqn' # "" => complete,
         phase' = "clean" /\ ~complete => waiting' = {},
         phase' \in {"link", "run"} => mainFqn' # "",
         phase' = "run" =>
           /\ calls' \in Seq(RunFrame) /\ checked
           /\ calls' # <<>> => calls'[1].fun \in copies /\ calls'[1].fun.name = <<"__main__">>
  PROVE  Inv'
  <1>1. ScopesAre'
    BY ScopesStay DEF Inv
  <1>2. linked' \in [Files -> Scope(Linkable)']
    BY DEF Linkable, Scope
  <1>3. TypeOK'
    BY <1>1, <1>2 DEF Inv, TypeOK, ScopesAre
  <1>4. CallsSeen'
    BY DEF CallsSeen
  <1>5. PrivateKept'
    BY DEF Inv, PrivateKept
  <1>6. MainFound' = MainFound
    BY DEF MainFound
  <1>7. MainChecked'
    BY <1>6 DEF Inv, MainChecked
  <1>8. \A p \in Files : run_imports_util(p)' = run_imports_util(p)
    BY ImportsStay
  <1>9. ScopesInOrder'
    BY <1>8 DEF Inv, ScopesInOrder
  <1> QED
    BY <1>3, <1>4, <1>5, <1>7, <1>9 DEF Inv

LEMMA InvClean ==
  ASSUME Inv, NEW p \in Files, CleanProgram(p) \/ CleanAborts(p) \/ StatementFound(p)
  PROVE  Inv'
  <1>1. phase = "clean" /\ p \in waiting
    BY DEF CleanProgram, CleanAborts, StatementFound, Cleaning
  <1>2. complete
    <2>1. ASSUME waiting = {}
          PROVE  FALSE
      BY <1>1, <2>1 DEF ToSet
    <2> QED
      BY <1>1, <2>1 DEF Inv, ScopesInOrder
  <1>3. linked \in [Files -> Scope(Linkable)] /\ mainFqn \in Files \cup {""} /\ TypeOK
    BY DEF Inv, TypeOK
  <1>4. CASE CleanProgram(p)
    <2>1. set_scope(p).scope \in Scope(Linkable)
      BY <1>3, SetScopeIs DEF Result
    <2>2. linked' = [linked EXCEPT ![p] = set_scope(p).scope]
      BY <1>4 DEF CleanProgram
    <2>3. linked' \in [Files -> Scope(Linkable)]
      BY <1>3, <2>1, <2>2
    <2>4. mainFqn' \in Files \cup {""}
      BY <1>3, <1>4 DEF CleanProgram
    <2>5. /\ phase' = "clean" /\ program' = program /\ scopes' = scopes /\ complete' = complete
          /\ copies' = copies /\ checked' = checked
      BY <1>1, <1>4 DEF CleanProgram, source, tables, checking
    <2> QED
      BY <1>2, <2>3, <2>4, <2>5, LaterStep
  <1>5. CASE CleanAborts(p)
    <2>1. /\ phase' = "ended" /\ program' = program /\ scopes' = scopes /\ complete' = complete
          /\ copies' = copies /\ checked' = checked /\ linked' = linked /\ mainFqn' = mainFqn
      BY <1>5 DEF CleanAborts, End, source, tables, checking, cleaning
    <2> QED
      BY <1>2, <1>3, <2>1, LaterStep
  <1>6. CASE StatementFound(p)
    <2>1. /\ phase' = "clean" /\ program' = program /\ scopes' = scopes /\ complete' = complete
          /\ copies' = copies /\ checked' = checked /\ linked' = linked /\ mainFqn' = ""
      BY <1>1, <1>6 DEF StatementFound, source, tables, checking
    <2> QED
      BY <1>2, <1>3, <2>1, LaterStep
  <1> QED
    BY <1>4, <1>5, <1>6

LEMMA InvCleanEnds ==
  ASSUME Inv, CleanDone \/ MainProgramMissing
  PROVE  Inv'
  <1>1. /\ program' = program /\ scopes' = scopes /\ complete' = complete
        /\ copies' = copies /\ checked' = checked /\ linked' = linked /\ mainFqn' = mainFqn
    BY DEF CleanDone, MainProgramMissing, source, tables, checking, cleaning
  <1>2. /\ linked \in [Files -> Scope(Linkable)] /\ mainFqn \in Files \cup {""}
        /\ mainFqn # "" => complete
    BY DEF Inv, TypeOK, ScopesInOrder
  <1>3. \/ phase' = "link" /\ mainFqn' # ""
        \/ phase' = "ended"
    BY <1>1 DEF CleanDone, MainProgramMissing, GoOn, End
  <1> QED
    BY <1>1, <1>2, <1>3, LaterStep

-----------------------------------------------------------------------------
(* The interpreter.                                                        *)
LEMMA LinkIs ==
  ASSUME TypeOK, NEW p \in Files
  PROVE  link(p) \in Result(Linkable)
  <1> DEFINE R == Result(Linkable)
             files == ImportsOf[p]
             contents == [q \in Files |-> Cleaned(q)]
  <1>1. files \in Seq(Files) /\ Len(files) \in Nat /\ \A i \in 1..Len(files) : files[i] \in Files
    <2>1. ImportsOf \in [Files -> Seq(Files)]
      BY FilesAssumption
    <2>2. files \in Seq(Files)
      BY <2>1
    <2> HIDE DEF files
    <2> QED
      BY <2>2
  <1>2. linked[p] \in Scope(Linkable)
    BY DEF TypeOK
  <1>3. Inserted(linked[p]) \in R
    BY <1>2, InsertedIs
  <1>4. ASSUME NEW i \in 1..Len(files), NEW r \in R
        PROVE  Import(r, files[i], contents[files[i]], FALSE) \in R
    <2> DEFINE q == files[i]
               c == Cleaned(q)
    <2>1. q \in Files /\ contents[files[i]] = c
      BY <1>1
    <2> HIDE DEF q
    <2>2. c \in Seq(Left) /\ Len(c) \in Nat /\ \A j \in 1..Len(c) : c[j] \in Left
      BY <2>1, CleanedIs
    <2> HIDE DEF c
    <2>3. \A j \in 1..Len(c) : Offered(c[j], FALSE) => Fit(c[j], Linkable)
      BY <2>2, LeftFits
    <2>4. program \in Programs
      BY DEF TypeOK
    <2>5. NamespacesOf(q) \in SUBSET STRING
      BY <2>1, <2>4, ProgramIs
    <2>6. Import(r, q, c, FALSE) \in R
      BY <2>2, <2>3, <2>5, ImportKeeps
    <2> QED
      BY <2>1, <2>6 DEF q
  <1>5. link(p) = ImportAll(Inserted(linked[p]), files, contents)
    BY DEF link
  <1> HIDE DEF R, files, contents
  <1>6. ImportAll(Inserted(linked[p]), files, contents) \in R
    BY <1>1, <1>3, <1>4, ImportAllKeeps
  <1> QED
    BY <1>5, <1>6 DEF R

LEMMA CopyFound ==
  ASSUME TypeOK, NEW p \in Files, NEW ns, NEW name, NEW f \in get_function(linked[p], ns, name)
  PROVE  f \in copies /\ f \in FunctionCopy /\ f.name = name
  <1>1. f \in Entries(linked[p], "function", ns, name)
    BY FoundIs
  <1>2. f \in linked[p].entries /\ f.kind = "function" /\ f.name = name
    BY <1>1 DEF Entries
  <1>3. linked[p] \in Scope(Linkable)
    BY DEF TypeOK
  <1>4. f \in Linkable
    BY <1>2, <1>3 DEF Scope
  <1>5. f \in copies
    BY <1>2, <1>4 DEF Linkable, TypeDeclaration, VariableDeclaration, Constructor
  <1> QED
    BY <1>2, <1>5 DEF TypeOK

LEMMA RunningIs ==
  ASSUME NEW f \in FunctionCopy
  PROVE  Running(f) \in RunFrame /\ Running(f).fun = f
  BY DEF Running, RunFrame

LEMMA InvLink ==
  ASSUME Inv, NEW p \in Files, LinkProgram(p) \/ LinkFails(p)
  PROVE  Inv'
  <1>1. /\ program' = program /\ scopes' = scopes /\ complete' = complete
        /\ copies' = copies /\ checked' = checked /\ mainFqn' = mainFqn /\ phase = "link"
    BY DEF LinkProgram, LinkFails, source, tables, checking, cleaning
  <1>2. /\ linked \in [Files -> Scope(Linkable)] /\ mainFqn \in Files \cup {""} /\ TypeOK
        /\ mainFqn # "" /\ complete
    BY <1>1 DEF Inv, TypeOK, ScopesInOrder
  <1>3. CASE LinkProgram(p)
    <2>1. link(p).scope \in Scope(Linkable)
      BY <1>2, LinkIs DEF Result
    <2>2. linked' = [linked EXCEPT ![p] = link(p).scope] /\ phase' = "link"
      BY <1>1, <1>3 DEF LinkProgram
    <2>3. linked' \in [Files -> Scope(Linkable)]
      BY <1>2, <2>1, <2>2
    <2> QED
      BY <1>1, <1>2, <2>2, <2>3, LaterStep
  <1>4. CASE LinkFails(p)
    <2>1. linked' = linked /\ phase' = "ended"
      BY <1>4 DEF LinkFails, End, cleaning
    <2> QED
      BY <1>1, <1>2, <2>1, LaterStep
  <1> QED
    BY <1>3, <1>4

LEMMA InvStart ==
  ASSUME Inv, StartMain \/ MainNotThere
  PROVE  Inv'
  <1>1. /\ program' = program /\ scopes' = scopes /\ complete' = complete /\ linked' = linked
        /\ copies' = copies /\ checked' = checked /\ mainFqn' = mainFqn /\ phase = "link"
    BY DEF StartMain, MainNotThere, source, tables, checking, cleaning
  <1>2. /\ linked \in [Files -> Scope(Linkable)] /\ mainFqn \in Files \cup {""} /\ TypeOK
        /\ mainFqn # "" /\ complete
    BY <1>1 DEF Inv, TypeOK, ScopesInOrder
  <1>3. CASE StartMain
    <2> DEFINE name == <<"__main__">>
               ns == "*"
    <2>1. PICK f \in get_function(linked[mainFqn], ns, name) : calls' = <<Running(f)>>
      BY <1>3 DEF StartMain
    <2>2. mainFqn \in Files
      BY <1>2
    <2>3. f \in copies /\ f \in FunctionCopy /\ f.name = <<"__main__">>
      <3> HIDE DEF ns, name
      <3>1. f \in copies /\ f \in FunctionCopy /\ f.name = name
        BY <1>2, <2>2, CopyFound
      <3> QED
        BY <3>1 DEF name
    <2>4. checked
      BY <2>3 DEF Inv, MainChecked
    <2> DEFINE g == Running(f)
    <2>5. g \in RunFrame /\ g.fun = f /\ calls' = <<g>>
      BY <2>1, <2>3, RunningIs
    <2> HIDE DEF g
    <2>6. calls' \in Seq(RunFrame) /\ calls'[1] = g
      BY <2>5
    <2>7. phase' = "run"
      BY <1>3 DEF StartMain, GoOn
    <2> QED
      BY <1>1, <1>2, <2>3, <2>4, <2>5, <2>6, <2>7, LaterStep
  <1>4. CASE MainNotThere
    <2>1. phase' = "ended"
      BY <1>4 DEF MainNotThere, End
    <2> QED
      BY <1>1, <1>2, <2>1, LaterStep
  <1> QED
    BY <1>3, <1>4

(* One use further on, in the innermost call.                              *)
Stepped == [calls EXCEPT ![Len(calls)].next = @ + 1]

LEMMA SteppedIs ==
  ASSUME calls \in Seq(RunFrame), calls # <<>>
  PROVE  /\ Stepped \in Seq(RunFrame) /\ Len(Stepped) = Len(calls) /\ Len(calls) \in Nat \ {0}
         /\ \A k \in 1..Len(calls) : Stepped[k].fun = calls[k].fun
  <1> DEFINE n == Len(calls)
             top == calls[n]
             g == [top EXCEPT !.next = @ + 1]
  <1>1. n \in Nat \ {0} /\ top \in RunFrame
    OBVIOUS
  <1>2. g \in RunFrame /\ g.fun = top.fun
    BY <1>1 DEF RunFrame
  <1>3. Stepped = [calls EXCEPT ![n] = g]
    BY DEF Stepped
  <1> HIDE DEF g
  <1>4. [calls EXCEPT ![n] = g] \in Seq(RunFrame) /\ Len([calls EXCEPT ![n] = g]) = n
    BY <1>1, <1>2
  <1>5. \A k \in 1..n : [calls EXCEPT ![n] = g][k] = IF k = n THEN g ELSE calls[k]
    BY <1>1
  <1> QED
    BY <1>1, <1>2, <1>3, <1>4, <1>5

LEMMA InvRun ==
  ASSUME Inv, RunUse \/ RunCall \/ RunReturns
  PROVE  Inv'
  <1>1. /\ program' = program /\ scopes' = scopes /\ complete' = complete /\ linked' = linked
        /\ copies' = copies /\ checked' = checked /\ mainFqn' = mainFqn
        /\ phase = "run" /\ calls # <<>>
    BY DEF RunUse, RunCall, RunReturns, HasUse, source, tables, checking, cleaning
  <1>2. /\ linked \in [Files -> Scope(Linkable)] /\ mainFqn \in Files \cup {""} /\ TypeOK
        /\ mainFqn # "" /\ complete /\ calls \in Seq(RunFrame)
    BY <1>1 DEF Inv, TypeOK, ScopesInOrder
  <1>3. checked /\ calls[1].fun \in copies /\ calls[1].fun.name = <<"__main__">>
    BY <1>1 DEF Inv, MainChecked
  <1>4. /\ Stepped \in Seq(RunFrame) /\ Len(Stepped) = Len(calls) /\ Len(calls) \in Nat \ {0}
        /\ Stepped[1].fun = calls[1].fun
    <2>1. /\ Stepped \in Seq(RunFrame) /\ Len(Stepped) = Len(calls) /\ Len(calls) \in Nat \ {0}
          /\ \A k \in 1..Len(calls) : Stepped[k].fun = calls[k].fun
      BY <1>1, <1>2, SteppedIs
    <2>2. 1 \in 1..Len(calls)
      BY <2>1
    <2> QED
      BY <2>1, <2>2
  <1>5. CASE RunUse
    <2>1. calls' = Stepped /\ phase' = "run"
      BY <1>1, <1>5 DEF RunUse, Stepped
    <2> QED
      BY <1>1, <1>2, <1>3, <1>4, <2>1, LaterStep
  <1>6. CASE RunCall
    <2>1. PICK f \in Meant(Use) : calls' = Append(Stepped, Running(f))
      BY <1>6 DEF RunCall, Stepped
    <2>2. phase' = "run" /\ Use.kind = "call"
      BY <1>1, <1>6 DEF RunCall
    <2> DEFINE p == Top.fun.id[1]
               ns == Use.ns
               name == Use.name
    <2>3. p \in Files
      <3>1. Top = calls[Len(calls)]
        BY DEF Top, Last
      <3> DEFINE n == Len(calls)
      <3>2. calls \in Seq(RunFrame) /\ n \in Nat \ {0} /\ n = Len(calls)
        BY <1>2, <1>4
      <3> HIDE DEF n
      <3>3. n \in 1..n
        BY <3>2
      <3>4. calls[n] \in RunFrame
        BY <3>2, <3>3
      <3> QED
        BY <3>1, <3>4 DEF n, RunFrame, FunctionCopy, Places
    <2>4. f \in get_function(linked[p], ns, name)
      BY <2>1, <2>2 DEF Meant, LinkedScope
    <2> HIDE DEF p, ns, name
    <2>5. f \in FunctionCopy
      BY <1>2, <2>3, <2>4, CopyFound
    <2> DEFINE g == Running(f)
    <2>6. g \in RunFrame
      BY <2>5, RunningIs
    <2> HIDE DEF g
    <2>7. calls' = Append(Stepped, g)
      BY <2>1 DEF g
    <2>8. Append(Stepped, g) \in Seq(RunFrame) /\ Append(Stepped, g)[1] = Stepped[1]
      BY <1>4, <2>6
    <2> QED
      BY <1>1, <1>2, <1>3, <1>4, <2>2, <2>7, <2>8, LaterStep
  <1>7. CASE RunReturns
    <2>1. calls' = Front(calls)
      BY <1>7 DEF RunReturns
    <2>2. CASE Len(calls) = 1
      <3>1. phase' = "ended"
        BY <1>7, <2>2 DEF RunReturns, End
      <3> QED
        BY <1>1, <1>2, <3>1, LaterStep
    <2>3. CASE Len(calls) > 1
      <3>1. phase' = "run"
        <4>1. Len(calls) # 1
          BY <1>4, <2>3
        <4> QED
          BY <1>1, <1>7, <4>1 DEF RunReturns
      <3>2. Front(calls) \in Seq(RunFrame) /\ Front(calls)[1] = calls[1]
        <4>1. 1 \in 1..(Len(calls) - 1)
          BY <1>4, <2>3
        <4> QED
          BY <1>2, <2>3, <4>1, FrontIs
      <3> QED
        BY <1>1, <1>2, <1>3, <2>1, <3>1, <3>2, LaterStep
    <2> DEFINE n == Len(calls)
    <2>4. n \in Nat \ {0}
      BY <1>4
    <2>5. n = 1 \/ n > 1
      <3> HIDE DEF n
      <3> QED
        BY <2>4
    <2> QED
      BY <2>2, <2>3, <2>5
  <1> QED
    BY <1>5, <1>6, <1>7

LEMMA InvNext ==
  ASSUME Inv, [Next]_vars
  PROVE  Inv'
  <1>1. CASE ImportProgram \/ ImportRefused \/ ImportDone
    BY <1>1, InvImportProgram, InvImportRefused, InvImportDone
  <1>2. CASE CheckMain \/ CheckVariable \/ CheckConstructor \/ CheckCall \/ CheckReturns
    BY <1>2, InvCheckMain, InvCheckVariable, InvCheckConstructor, InvCheckCall, InvCheckReturns
  <1>3. CASE MainMissing
    BY <1>3, InvCheckFails DEF MainMissing
  <1>4. CASE NotFound
    BY <1>4, InvCheckFails DEF NotFound
  <1>5. CASE \E p \in Files : CleanProgram(p) \/ CleanAborts(p) \/ StatementFound(p)
    BY <1>5, InvClean
  <1>6. CASE CleanDone \/ MainProgramMissing
    BY <1>6, InvCleanEnds
  <1>7. CASE \E p \in Files : LinkProgram(p) \/ LinkFails(p)
    BY <1>7, InvLink
  <1>8. CASE StartMain \/ MainNotThere
    BY <1>8, InvStart
  <1>9. CASE RunUse \/ RunCall \/ RunReturns
    BY <1>9, InvRun
  <1>10. CASE UNCHANGED vars
    <2>1. /\ program' = program /\ phase' = phase /\ queue' = queue /\ waiting' = waiting /\ scopes' = scopes
          /\ complete' = complete /\ copies' = copies /\ calls' = calls /\ checked' = checked
          /\ linked' = linked /\ mainFqn' = mainFqn
      BY <1>10 DEF vars, source, tables, checking, cleaning
    <2>2. ScopesAre'
      BY <2>1, ScopesStay DEF Inv
    <2>3. TypeOK'
      BY <2>1, <2>2 DEF Inv, TypeOK, ScopesAre, Linkable
    <2>4. CallsSeen'
      BY <2>1, VisibleStays DEF Inv, CallsSeen, SeesOwn
    <2>5. PrivateKept'
      BY <2>1 DEF Inv, PrivateKept
    <2>6. MainFound' = MainFound
      BY <2>1 DEF MainFound
    <2>7. MainChecked'
      BY <2>1, <2>6 DEF Inv, MainChecked
    <2>8. \A p \in Files : run_imports_util(p)' = run_imports_util(p)
      BY <2>1, ImportsStay
    <2>9. ScopesInOrder'
      BY <2>1, <2>8 DEF Inv, ScopesInOrder
    <2> QED
      BY <2>3, <2>4, <2>5, <2>7, <2>9 DEF Inv
  <1> QED
    BY <1>1, <1>2, <1>3, <1>4, <1>5, <1>6, <1>7, <1>8, <1>9, <1>10 DEF Next

LEMMA InvAlways == Spec => []Inv
  <1>1. Init => Inv
    BY InvInit
  <1>2. Inv /\ [Next]_vars => Inv'
    BY InvNext
  <1> QED
    BY <1>1, <1>2, PTL DEF Spec

(* importer.cpp:558: whatever the files declare and however they import one*)
(* another, a call, variable or constructor in the body of a copy the      *)
(* checker made is what the file of the function declares itself, or public*)
THEOREM PrivateNeverFound == Spec => []PrivateKept
  <1>1. Inv => PrivateKept
    BY DEF Inv
  <1> QED
    BY <1>1, InvAlways, PTL

(* compiler.cpp:483-508: although each phase is followed by the next       *)
(* whatever it came to, nothing runs but the copy of the __main__ the      *)
(* checker found, after a check that went well, in scopes the importer     *)
(* filled to the end.                                                      *)
THEOREM OnlyCheckedRuns == Spec => []RunsChecked
  <1>1. ASSUME Inv
        PROVE  RunsChecked
    <2> SUFFICES ASSUME phase = "run"
                 PROVE  /\ checked
                        /\ \A p \in Files : run_imports_util(p) = Inserted(scopes[p])
                        /\ calls # <<>> => /\ calls[1].fun \in copies
                                           /\ calls[1].fun.id \in {f.id : f \in MainFound}
      BY DEF RunsChecked
    <2>1. complete /\ checked
      BY <1>1 DEF Inv, ScopesInOrder, MainChecked
    <2>2. \A p \in Files : run_imports_util(p) = Inserted(scopes[p])
      BY <1>1, <2>1 DEF Inv, ScopesInOrder
    <2>3. calls # <<>> => calls[1].fun \in copies /\ calls[1].fun.id \in {f.id : f \in MainFound}
      BY <1>1 DEF Inv, MainChecked
    <2> QED
      BY <2>1, <2>2, <2>3
  <1> QED
    BY <1>1, InvAlways, PTL

-----------------------------------------------------------------------------
(* When the tables refuse a declaration. Held is what was added before, D, *)
(* each type with its constructor.                                         *)
Offerable == TypeDeclaration \cup VariableDeclaration \cup FunctionDeclaration \cup FunctionCopy
Types(D) == {d \in D : d.kind = "type"}

Holds(s, D) ==
  /\ s.entries = D \cup {ConstructorOf(d) : d \in Types(D)}
  /\ \A d \in Offerable : Recorded(s, d) # {} <=> \E e \in D : e.ns = d.ns /\ e.name = d.name
  /\ \A r \in s.recorded : r.kind \in {"type", "function"}

Named(names, d) == \E n \in names : FoundBy(d) = <<n>>

(* What d meets in the scope.                                              *)
Kept(s, D, d) == Named(s.namespaces, d) \/ \E e \in D : Bars(e, d)

LEMMA OfferableIs ==
  ASSUME NEW d \in Offerable
  PROVE  /\ d.kind \in {"type", "variable", "function"}
         /\ d.ns \in STRING /\ d.name \in Names /\ d.public \in BOOLEAN
         /\ d.kind = "type" => d \in TypeDeclaration
         /\ d.kind = "variable" => d \in VariableDeclaration
         /\ d.kind = "function" => d \in FunctionDeclaration \cup FunctionCopy
  BY DEF Offerable, TypeDeclaration, VariableDeclaration, FunctionDeclaration, FunctionCopy

(* Looking for a kind of declaration finds those of the kind, a            *)
(* constructor those of the types.                                         *)
LEMMA HeldEntries ==
  ASSUME NEW s, NEW D \in SUBSET Offerable, Holds(s, D), NEW ns, NEW name
  PROVE  /\ \A kind \in {"type", "variable", "function"} :
              Entries(s, kind, ns, name) = {e \in D : e.kind = kind /\ e.ns = ns /\ e.name = name}
         /\ Entries(s, "constructor", ns, name) # {} <=>
              \E e \in D : e.kind = "type" /\ e.ns = ns /\ e.cons = name
  <1>1. s.entries = D \cup {ConstructorOf(d) : d \in Types(D)}
    BY DEF Holds
  <1>2. \A e \in D : e.kind \in {"type", "variable", "function"}
    BY OfferableIs
  <1>3. \A d : /\ ConstructorOf(d).kind = "constructor" /\ ConstructorOf(d).ns = d.ns
               /\ ConstructorOf(d).name = d.cons
    BY DEF ConstructorOf
  <1>4. ASSUME NEW kind \in {"type", "variable", "function"}
        PROVE  Entries(s, kind, ns, name) = {e \in D : e.kind = kind /\ e.ns = ns /\ e.name = name}
    BY <1>1, <1>2, <1>3 DEF Entries
  <1>5. ASSUME NEW e \in Entries(s, "constructor", ns, name)
        PROVE  \E d \in D : d.kind = "type" /\ d.ns = ns /\ d.cons = name
    BY <1>1, <1>2, <1>3 DEF Entries, Types
  <1>6. ASSUME NEW d \in D, d.kind = "type", d.ns = ns, d.cons = name
        PROVE  ConstructorOf(d) \in Entries(s, "constructor", ns, name)
    BY <1>1, <1>3, <1>6 DEF Entries, Types
  <1> QED
    BY <1>4, <1>5, <1>6

(* A declaration that is put where it is not refused.                      *)
LEMMA PutHolds ==
  ASSUME NEW E, NEW s \in Scope(E), NEW D \in SUBSET Offerable, Holds(s, D), NEW d \in Offerable,
         NEW kind \in {"type", "function"}, NEW t, t.recorded = Put(s, d, kind).scope.recorded,
         t.entries = s.entries \cup {d} \cup {ConstructorOf(e) : e \in Types({d})}
  PROVE  Holds(t, D \cup {d})
  <1>1. t.entries = (D \cup {d}) \cup {ConstructorOf(e) : e \in Types(D \cup {d})}
    BY DEF Holds, Types
  <1> DEFINE new == [ns |-> d.ns, name |-> d.name, kind |-> kind]
  <1>2. t.recorded = IF Recorded(s, d) # {} THEN s.recorded ELSE s.recorded \cup {new}
    BY DEF Put, Inserted, Scope
  <1>3. \A r \in t.recorded : r.kind \in {"type", "function"}
    BY <1>2 DEF Holds
  <1>4. ASSUME NEW e \in Offerable
        PROVE  Recorded(t, e) # {} <=> \E c \in D \cup {d} : c.ns = e.ns /\ c.name = e.name
    <2>1. Recorded(s, e) # {} <=> \E c \in D : c.ns = e.ns /\ c.name = e.name
      BY DEF Holds
    <2>2. CASE Recorded(s, d) # {}
      <3>1. Recorded(t, e) = Recorded(s, e)
        BY <1>2, <2>2 DEF Recorded
      <3>2. \E c \in D : c.ns = d.ns /\ c.name = d.name
        BY <2>2 DEF Holds
      <3> QED
        BY <2>1, <3>1, <3>2
    <2>3. CASE Recorded(s, d) = {}
      <3>1. t.recorded = s.recorded \cup {new}
        BY <1>2, <2>3
      <3>2. new.ns = d.ns /\ new.name = d.name
        OBVIOUS
      <3> HIDE DEF new
      <3>3. ASSUME Recorded(s, e) # {}
            PROVE  Recorded(t, e) # {}
        BY <3>1, <3>3 DEF Recorded
      <3>4. ASSUME d.ns = e.ns, d.name = e.name
            PROVE  new \in Recorded(t, e)
        BY <3>1, <3>2, <3>4 DEF Recorded
      <3>5. ASSUME NEW r \in Recorded(t, e), r # new
            PROVE  r \in Recorded(s, e)
        BY <3>1, <3>5 DEF Recorded
      <3>6. new \in Recorded(t, e) => d.ns = e.ns /\ d.name = e.name
        BY <3>2 DEF Recorded
      <3>7. Recorded(t, e) # {} => Recorded(s, e) # {} \/ (d.ns = e.ns /\ d.name = e.name)
        BY <3>5, <3>6
      <3> QED
        BY <2>1, <3>3, <3>4, <3>7
    <2> QED
      BY <2>2, <2>3
  <1> QED
    BY <1>1, <1>3, <1>4 DEF Holds

LEMMA CollidesBoth ==
  \A f, g : collides_with(f, g) <=> collides_with(g, f)
  BY DEF collides_with, weak_compare

LEMMA NoVariableRecorded ==
  ASSUME NEW s, NEW D, Holds(s, D), NEW d \in Offerable
  PROVE  /\ ~RecordedAs(s, d, {"variable"})
         /\ RecordedAs(s, d, {"type", "function"}) <=> \E e \in D : e.ns = d.ns /\ e.name = d.name
  <1>1. \A r \in Recorded(s, d) : r.kind \in {"type", "function"}
    BY DEF Holds, Recorded
  <1>2. Recorded(s, d) # {} <=> \E e \in D : e.ns = d.ns /\ e.name = d.name
    BY DEF Holds
  <1> QED
    BY <1>1, <1>2 DEF RecordedAs

LEMMA PutIs ==
  ASSUME NEW E, NEW s \in Scope(E), NEW d, NEW kind
  PROVE  /\ Put(s, d, kind).thrown = "none"
         /\ Put(s, d, kind).scope.namespaces = s.namespaces
         /\ Put(s, d, kind).scope.entries = s.entries \cup {d}
  BY DEF Put, Inserted, Scope

LEMMA FunctionJudged ==
  ASSUME NEW E, NEW s \in Scope(E), NEW D \in SUBSET Offerable, Holds(s, D),
         NEW d \in Offerable, d.kind = "function"
  PROVE  /\ Kept(s, D, d) => Add(s, d).thrown # "none"
         /\ ~Kept(s, D, d) => Add(s, d) = Put(s, d, "function")
  <1>1. IsNamespace(s, d) <=> Named(s.namespaces, d)
    BY DEF IsNamespace, Named, FoundBy
  <1>2. Exists(s, "constructor", d) <=> \E e \in D : e.kind = "type" /\ e.ns = d.ns /\ e.cons = d.name
    BY HeldEntries DEF Exists
  <1> DEFINE same == Entries(s, "function", d.ns, d.name)
  <1>3. same = {e \in D : e.kind = "function" /\ e.ns = d.ns /\ e.name = d.name}
    BY HeldEntries
  <1>4. (\E f \in same : collides_with(d, f)) <=>
          \E e \in D : e.kind = "function" /\ e.ns = d.ns /\ e.name = d.name /\ collides_with(e, d)
    BY <1>3, CollidesBoth
  <1>5. \A e \in D : Bars(e, d) <=>
          \/ e.kind = "type" /\ e.ns = d.ns /\ e.cons = d.name
          \/ e.kind = "function" /\ e.ns = d.ns /\ e.name = d.name /\ collides_with(e, d)
    BY DEF Bars
  <1>6. Kept(s, D, d) <=>
          IsNamespace(s, d) \/ Exists(s, "constructor", d) \/ \E f \in same : collides_with(d, f)
    BY <1>1, <1>2, <1>4, <1>5 DEF Kept
  <1>7. insert_function(s, d) =
          IF \E f \in same : collides_with(d, f) THEN Throws(s, "collide") ELSE Put(s, d, "function")
    BY NoVariableRecorded DEF insert_function
  <1>8. Add(s, d) = add_function(s, d)
    BY DEF Add
  <1>9. Throws(s, "collide").thrown # "none"
    BY DEF Throws
  <1> HIDE DEF same
  <1> QED
    BY <1>6, <1>7, <1>8, <1>9 DEF add_function

LEMMA VariableJudged ==
  ASSUME NEW E, NEW s \in Scope(E), NEW D \in SUBSET Offerable, Holds(s, D),
         NEW d \in Offerable, d.kind = "variable"
  PROVE  /\ Kept(s, D, d) => Add(s, d).thrown # "none"
         /\ ~Kept(s, D, d) => Add(s, d) = Put(s, d, "function")
  <1>1. IsNamespace(s, d) <=> Named(s.namespaces, d)
    BY DEF IsNamespace, Named, FoundBy
  <1>2. Exists(s, "constructor", d) <=> \E e \in D : e.kind = "type" /\ e.ns = d.ns /\ e.cons = d.name
    BY HeldEntries DEF Exists
  <1>3. RecordedAs(s, d, {"type", "function"}) <=> \E e \in D : e.ns = d.ns /\ e.name = d.name
    BY NoVariableRecorded
  <1>4. Entries(s, "variable", d.ns, d.name) = {e \in D : e.kind = "variable" /\ e.ns = d.ns /\ e.name = d.name}
    BY HeldEntries
  <1>5. Exists(s, "variable", d) => RecordedAs(s, d, {"type", "function"})
    BY <1>3, <1>4 DEF Exists
  <1>6. \A e \in D : Bars(e, d) <=>
          \/ e.kind = "type" /\ e.ns = d.ns /\ e.cons = d.name
          \/ e.ns = d.ns /\ e.name = d.name
    BY DEF Bars
  <1>7. Kept(s, D, d) <=>
          IsNamespace(s, d) \/ Exists(s, "constructor", d) \/ RecordedAs(s, d, {"type", "function"})
    BY <1>1, <1>2, <1>3, <1>6 DEF Kept
  <1>8. Add(s, d) = add_variable(s, d)
    BY DEF Add
  <1>9. Throws(s, "collide").thrown # "none"
    BY DEF Throws
  <1>10. insert_variable(s, d) =
           IF RecordedAs(s, d, {"type", "function"}) THEN Throws(s, "collide") ELSE Put(s, d, "function")
    <2>1. CASE RecordedAs(s, d, {"type", "function"})
      BY <2>1 DEF insert_variable
    <2>2. CASE ~RecordedAs(s, d, {"type", "function"})
      BY <1>5, <2>2 DEF insert_variable
    <2> QED
      BY <2>1, <2>2
  <1> QED
    BY <1>7, <1>8, <1>9, <1>10 DEF add_variable

(* A type that is put, but for its constructor, refuses no more.           *)
LEMMA TypeJudged ==
  ASSUME NEW E, NEW s \in Scope(E), NEW D \in SUBSET Offerable, Holds(s, D),
         NEW d \in Offerable, d.kind = "type"
  PROVE  LET t == Put(s, d, "type").scope
         IN /\ Kept(s, D, d) => Add(s, d).thrown # "none"
            /\ ~Kept(s, D, d) =>
                 Add(s, d) = Inserted([t EXCEPT !.entries = @ \cup {ConstructorOf(d)}])
  <1> DEFINE t == Put(s, d, "type").scope
             c == ConstructorOf(d)
  <1>1. t.namespaces = s.namespaces /\ t.entries = s.entries \cup {d} /\ Put(s, d, "type").thrown = "none"
    BY PutIs
  <1>2. c.kind = "constructor" /\ c.ns = d.ns /\ c.name = d.cons
    BY DEF ConstructorOf
  <1>3. Entries(s, "type", d.ns, d.name) = {e \in D : e.kind = "type" /\ e.ns = d.ns /\ e.name = d.name}
    BY HeldEntries
  <1>4. insert_type(s, d) =
          IF Exists(s, "type", d) THEN Throws(s, "already") ELSE Put(s, d, "type")
    BY NoVariableRecorded DEF insert_type
  <1> HIDE DEF t, c
  <1>5. \A kind \in {"function", "variable", "constructor"} :
          Entries(t, kind, c.ns, c.name) = Entries(s, kind, c.ns, c.name)
    BY <1>1 DEF Entries
  <1>6. /\ Exists(t, "function", c) <=> \E e \in D : e.kind = "function" /\ e.ns = d.ns /\ e.name = d.cons
        /\ Exists(t, "variable", c) <=> \E e \in D : e.kind = "variable" /\ e.ns = d.ns /\ e.name = d.cons
        /\ Exists(t, "constructor", c) <=> \E e \in D : e.kind = "type" /\ e.ns = d.ns /\ e.cons = d.cons
    <2>1. Entries(s, "function", c.ns, c.name) = {e \in D : e.kind = "function" /\ e.ns = c.ns /\ e.name = c.name}
      BY HeldEntries
    <2>2. Entries(s, "variable", c.ns, c.name) = {e \in D : e.kind = "variable" /\ e.ns = c.ns /\ e.name = c.name}
      BY HeldEntries
    <2>3. Entries(s, "constructor", c.ns, c.name) # {} <=>
            \E e \in D : e.kind = "type" /\ e.ns = c.ns /\ e.cons = c.name
      BY HeldEntries
    <2> QED
      BY <1>2, <1>5, <2>1, <2>2, <2>3 DEF Exists
  <1>7. IsNamespace(t, c) <=> Named(s.namespaces, d)
    BY <1>1, <1>2 DEF IsNamespace, Named, FoundBy
  <1>8. \A e \in D : e.kind \in {"type", "variable", "function"}
    BY OfferableIs
  <1>9. \A e \in D : Bars(e, d) <=>
          \/ e.kind = "type" /\ e.ns = d.ns /\ e.name = d.name
          \/ e.kind = "function" /\ e.ns = d.ns /\ e.name = d.cons
          \/ e.kind = "variable" /\ e.ns = d.ns /\ e.name = d.cons
          \/ e.kind = "type" /\ e.ns = d.ns /\ e.cons = d.cons
    BY <1>8 DEF Bars
  <1>10. Exists(s, "type", d) <=> \E e \in D : e.kind = "type" /\ e.ns = d.ns /\ e.name = d.name
    BY <1>3 DEF Exists
  <1>11. Kept(s, D, d) <=>
           \/ Exists(s, "type", d)
           \/ IsNamespace(t, c) \/ Exists(t, "function", c) \/ Exists(t, "variable", c)
           \/ Exists(t, "constructor", c)
    BY <1>6, <1>7, <1>9, <1>10 DEF Kept
  <1>12. Add(s, d) = add_type(s, d)
    BY DEF Add
  <1>13. \A u : Throws(u, "already").thrown = "already" /\ Throws(u, "collide").thrown = "collide"
    BY DEF Throws
  <1>14. CASE Exists(s, "type", d)
    BY <1>4, <1>11, <1>12, <1>13, <1>14 DEF add_type
  <1>15. CASE ~Exists(s, "type", d)
    <2>1. Add(s, d) = add_constructor(t, c)
      BY <1>1, <1>4, <1>12, <1>15 DEF add_type, t, c
    <2>2. Kept(s, D, d) => Add(s, d).thrown # "none"
      BY <1>11, <1>13, <1>15, <2>1 DEF add_constructor
    <2>3. ~Kept(s, D, d) => Add(s, d) = Inserted([t EXCEPT !.entries = @ \cup {c}])
      BY <1>11, <1>15, <2>1 DEF add_constructor
    <2> QED
      BY <2>2, <2>3 DEF t, c
  <1> QED
    BY <1>14, <1>15

LEMMA AddJudged ==
  ASSUME NEW E, NEW s \in Scope(E), NEW D \in SUBSET Offerable, Holds(s, D), NEW d \in Offerable
  PROVE  /\ Add(s, d).thrown = "none" <=> ~Kept(s, D, d)
         /\ Add(s, d).thrown = "none" =>
              Holds(Add(s, d).scope, D \cup {d}) /\ Add(s, d).scope.namespaces = s.namespaces
  <1>1. ASSUME d.kind \in {"function", "variable"}
        PROVE  /\ Kept(s, D, d) => Add(s, d).thrown # "none"
               /\ ~Kept(s, D, d) => Add(s, d) = Put(s, d, "function")
    BY <1>1, FunctionJudged, VariableJudged
  <1>2. CASE d.kind \in {"function", "variable"}
    <2> DEFINE t == Put(s, d, "function").scope
    <2>1. /\ t.entries = s.entries \cup {d} /\ t.namespaces = s.namespaces
          /\ Put(s, d, "function").thrown = "none"
      BY PutIs
    <2>2. Types({d}) = {}
      BY <1>2 DEF Types
    <2>3. t.entries = s.entries \cup {d} \cup {ConstructorOf(e) : e \in Types({d})}
      BY <2>1, <2>2
    <2>4. t.recorded = Put(s, d, "function").scope.recorded
      OBVIOUS
    <2> HIDE DEF t
    <2>5. Holds(t, D \cup {d})
      BY <2>3, <2>4, PutHolds
    <2> QED
      BY <1>1, <1>2, <2>1, <2>5 DEF t
  <1>3. CASE d.kind = "type"
    <2> DEFINE u == Put(s, d, "type").scope
               t == [u EXCEPT !.entries = @ \cup {ConstructorOf(d)}]
    <2>1. /\ Kept(s, D, d) => Add(s, d).thrown # "none"
          /\ ~Kept(s, D, d) => Add(s, d) = Inserted(t)
      BY <1>3, TypeJudged
    <2>2. u.entries = s.entries \cup {d} /\ u.namespaces = s.namespaces
      BY PutIs
    <2>3. t.entries = s.entries \cup {d} \cup {ConstructorOf(d)} /\ t.namespaces = s.namespaces
          /\ t.recorded = u.recorded
      BY <2>2 DEF Put, Inserted, Scope
    <2>4. Types({d}) = {d}
      BY <1>3 DEF Types
    <2>5. t.entries = s.entries \cup {d} \cup {ConstructorOf(e) : e \in Types({d})}
      BY <2>3, <2>4
    <2>6. t.recorded = Put(s, d, "type").scope.recorded
      BY <2>3
    <2> HIDE DEF t
    <2>7. Holds(t, D \cup {d})
      BY <2>5, <2>6, PutHolds
    <2>8. Inserted(t).thrown = "none" /\ Inserted(t).scope = t
      BY DEF Inserted
    <2> QED
      BY <2>1, <2>3, <2>7, <2>8
  <1> QED
    BY <1>2, <1>3, OfferableIs

-----------------------------------------------------------------------------
(* What has come into the scope of a file, declaration by declaration.     *)
UpTo(p, k, i) == {at \in Entering(p) : at[1] < k \/ (at[1] = k /\ at[2] <= i)}
Through(p, k) == {at \in Entering(p) : at[1] <= k}
Come(p, S) == {Entry(p, at) : at \in S}
NamesThrough(p, k) == {n \in STRING : \E j \in 1..k : n \in NamespacesOf(Sources(p)[j])}

Clear(p, S) ==
  /\ \A a, b \in S : Before(a, b) => ~Bars(Entry(p, a), Entry(p, b))
  /\ \A at \in S : ~NamedAsNamespace(p, at)

(* The tables have refused something if and only if S is not clear.        *)
Judged(r, p, S, k) ==
  /\ r.thrown = "none" <=> Clear(p, S)
  /\ r.thrown = "none" => Holds(r.scope, Come(p, S)) /\ r.scope.namespaces = NamesThrough(p, k)

LEMMA SourcesAre ==
  ASSUME NEW p \in Files
  PROVE  LET n == Len(ImportsOf[p])
         IN /\ n \in Nat /\ Len(Sources(p)) = n + 1 /\ DOMAIN Sources(p) = 1..(n + 1)
            /\ \A k \in 1..n : Sources(p)[k] = ImportsOf[p][k] /\ ImportsOf[p][k] \in Files
            /\ Sources(p)[n + 1] = p
            /\ \A k \in 1..(n + 1) : Sources(p)[k] \in Files
  <1> DEFINE s == ImportsOf[p]
             n == Len(s)
  <1>1. ImportsOf \in [Files -> Seq(Files)]
    BY FilesAssumption
  <1>2. s \in Seq(Files)
    BY <1>1
  <1>3. Sources(p) = Append(s, p)
    BY DEF Sources
  <1> HIDE DEF s
  <1>4. n \in Nat /\ Append(s, p) \in Seq(Files) /\ Len(Append(s, p)) = n + 1
    BY <1>2
  <1>5. \A k \in 1..n : Append(s, p)[k] = s[k] /\ s[k] \in Files
    BY <1>2
  <1>6. Append(s, p)[n + 1] = p
    BY <1>2
  <1>7. DOMAIN Append(s, p) = 1..(n + 1)
    BY <1>4
  <1>8. \A k \in 1..(n + 1) : Append(s, p)[k] \in Files
    BY <1>4
  <1> QED
    BY <1>3, <1>4, <1>5, <1>6, <1>7, <1>8 DEF s

LEMMA PlacesAre ==
  ASSUME program \in Programs, NEW p \in Files
  PROVE  /\ \A at \in PlacesOf(p) :
              /\ at[1] \in 1..Len(Sources(p)) /\ at[2] \in 1..Len(program[Sources(p)[at[1]]])
              /\ at = <<at[1], at[2]>>
              /\ Entry(p, at) \in Declaration
              /\ Entry(p, at).id = <<Sources(p)[at[1]], at[2]>>
         /\ \A k \in 1..Len(Sources(p)) : \A i \in 1..Len(program[Sources(p)[k]]) :
              <<k, i>> \in PlacesOf(p)
  <1>1. DOMAIN Sources(p) = 1..Len(Sources(p)) /\ \A k \in 1..Len(Sources(p)) : Sources(p)[k] \in Files
    BY SourcesAre
  <1>2. \A q \in Files : DOMAIN program[q] = 1..Len(program[q])
    BY ProgramIs
  <1>3. ASSUME NEW at \in PlacesOf(p)
        PROVE  /\ at[1] \in 1..Len(Sources(p)) /\ at[2] \in 1..Len(program[Sources(p)[at[1]]])
               /\ at = <<at[1], at[2]>>
    <2>1. PICK k \in DOMAIN Sources(p) : at \in {k} \X DOMAIN program[Sources(p)[k]]
      BY DEF PlacesOf
    <2>2. at[1] = k /\ at[2] \in DOMAIN program[Sources(p)[k]] /\ at = <<at[1], at[2]>>
      BY <2>1
    <2> QED
      BY <1>1, <1>2, <2>1, <2>2
  <1>4. ASSUME NEW at \in PlacesOf(p)
        PROVE  Entry(p, at) \in Declaration /\ Entry(p, at).id = <<Sources(p)[at[1]], at[2]>>
    BY <1>1, <1>3, ProgramIs DEF Entry
  <1>5. ASSUME NEW k \in 1..Len(Sources(p)), NEW i \in 1..Len(program[Sources(p)[k]])
        PROVE  <<k, i>> \in PlacesOf(p)
    <2>1. k \in DOMAIN Sources(p) /\ i \in DOMAIN program[Sources(p)[k]]
      BY <1>1, <1>2
    <2>2. <<k, i>> \in {k} \X DOMAIN program[Sources(p)[k]]
      BY <2>1
    <2> QED
      BY <2>1, <2>2 DEF PlacesOf
  <1> QED
    BY <1>3, <1>4, <1>5

LEMMA EnteringIs ==
  ASSUME program \in Programs, NEW p \in Files
  PROVE  /\ \A at \in Entering(p) :
              /\ at[1] \in 1..Len(Sources(p)) /\ at[2] \in 1..Len(program[Sources(p)[at[1]]])
              /\ at = <<at[1], at[2]>>
              /\ Offered(Entry(p, at), at[1] = Len(Sources(p)))
              /\ Entry(p, at) \in Offerable
         /\ \A k \in 1..Len(Sources(p)) : \A i \in 1..Len(program[Sources(p)[k]]) :
              Offered(Entry(p, <<k, i>>), k = Len(Sources(p))) => <<k, i>> \in Entering(p)
  <1>1. ASSUME NEW at \in Entering(p)
        PROVE  Entry(p, at) \in Offerable
    <2>1. at \in PlacesOf(p) /\ Offered(Entry(p, at), Own(p, at))
      BY DEF Entering
    <2>2. Entry(p, at) \in Declaration
      BY <2>1, PlacesAre
    <2>3. Entry(p, at).kind # "statement"
      BY <2>1 DEF Offered
    <2> QED
      BY <2>2, <2>3 DEF Offerable, Declaration, StatementDeclaration
  <1>2. \A at : Own(p, at) <=> at[1] = Len(Sources(p))
    BY DEF Own
  <1>3. \A at \in Entering(p) : at \in PlacesOf(p) /\ Offered(Entry(p, at), at[1] = Len(Sources(p)))
    BY <1>2 DEF Entering, Offered
  <1>4. ASSUME NEW k \in 1..Len(Sources(p)), NEW i \in 1..Len(program[Sources(p)[k]]),
               Offered(Entry(p, <<k, i>>), k = Len(Sources(p)))
        PROVE  <<k, i>> \in Entering(p)
    <2>1. <<k, i>> \in PlacesOf(p)
      BY PlacesAre
    <2>2. Own(p, <<k, i>>) <=> k = Len(Sources(p))
      BY DEF Own
    <2> QED
      BY <1>4, <2>1, <2>2 DEF Entering, Offered
  <1> QED
    BY <1>1, <1>3, <1>4, PlacesAre

LEMMA ClearShrinks ==
  ASSUME NEW p, NEW T, NEW S \in SUBSET T, Clear(p, T)
  PROVE  Clear(p, S)
  BY DEF Clear

(* One declaration of the k-th file.                                       *)
LEMMA InsertJudged ==
  ASSUME program \in Programs, NEW p \in Files, NEW k \in 1..Len(Sources(p)),
         NEW i \in 1..Len(program[Sources(p)[k]]),
         NEW private, private <=> (k = Len(Sources(p))),
         NEW r \in Result(Visible(p)), Judged(r, p, UpTo(p, k, i - 1), k)
  PROVE  Judged(Insert(r, program[Sources(p)[k]][i], private), p, UpTo(p, k, i), k)
  <1> DEFINE at == <<k, i>>
             d == Entry(p, at)
             S == UpTo(p, k, i - 1)
             T == UpTo(p, k, i)
             D == Come(p, S)
  <1>1. Sources(p)[k] \in Files /\ k \in Nat
    BY SourcesAre
  <1>2. i \in Nat /\ i - 1 \in Nat
    BY <1>1, ProgramIs
  <1>3. at[1] = k /\ at[2] = i /\ d = program[Sources(p)[k]][i]
    BY DEF Entry
  <1>4. \A a \in Entering(p) : a[1] \in Nat /\ a[2] \in Nat /\ a = <<a[1], a[2]>>
    <2>1. \A a \in Entering(p) :
            /\ a[1] \in 1..Len(Sources(p)) /\ a[2] \in 1..Len(program[Sources(p)[a[1]]])
            /\ a = <<a[1], a[2]>>
      BY EnteringIs
    <2>2. ASSUME NEW a \in Entering(p)
          PROVE  a[1] \in Nat /\ a[2] \in Nat
      <3>1. Sources(p)[a[1]] \in Files /\ a[1] \in Nat
        BY <2>1, SourcesAre
      <3> QED
        BY <2>1, <3>1, ProgramIs
    <2> QED
      BY <2>1, <2>2
  <1>5. S \subseteq Entering(p) /\ T \subseteq Entering(p)
    BY DEF UpTo
  <1>6. S \subseteq T
    BY <1>2, <1>4 DEF UpTo
  <1>7. T \subseteq S \cup {at}
    <2>1. ASSUME NEW a \in T, a \notin S
          PROVE  a[1] = k /\ a[2] = i
      BY <1>2, <1>4, <2>1 DEF UpTo
    <2> QED
      BY <1>4, <1>5, <2>1
  <1>8. Offered(d, private) <=> Offered(d, k = Len(Sources(p)))
    BY DEF Offered
  <1>9. at \in T <=> Offered(d, private)
    <2>1. at \in Entering(p) => Offered(d, k = Len(Sources(p)))
      BY <1>3, EnteringIs
    <2>2. Offered(d, k = Len(Sources(p))) => at \in Entering(p)
      BY EnteringIs
    <2>3. at \in T <=> at \in Entering(p)
      BY <1>2, <1>3 DEF UpTo
    <2> QED
      BY <1>8, <2>1, <2>2, <2>3
  <1>10. \A a \in S : Before(a, at) /\ ~Before(at, a)
    BY <1>1, <1>2, <1>3, <1>4 DEF UpTo, Before
  <1>11. ~Before(at, at)
    BY <1>1, <1>2, <1>3 DEF Before
  <1>12. NamedAsNamespace(p, at) <=> Named(NamesThrough(p, k), d)
    <2>1. \A j \in 1..k : NamespacesOf(Sources(p)[j]) \in SUBSET STRING
      <3>1. \A j \in 1..k : Sources(p)[j] \in Files
        BY SourcesAre
      <3> QED
        BY <3>1, ProgramIs
    <2> QED
      BY <1>3, <2>1 DEF NamedAsNamespace, Named, NamesThrough
  <1>13. \A a \in Entering(p) : Entry(p, a) \in Offerable
    BY EnteringIs
  <1>14. D \subseteq Offerable
    BY <1>5, <1>13 DEF Come
  <1>15. r.scope \in Scope(Visible(p))
    BY DEF Result
  <1> HIDE DEF at, d, S, T, D
  <1>16. Judged(r, p, S, k)
    BY DEF S
  <1>17. CASE ~Offered(d, private)
    <2>1. T = S
      BY <1>6, <1>7, <1>9, <1>17
    <2>2. Insert(r, d, private) = r
      BY <1>17 DEF Insert
    <2> QED
      BY <1>3, <1>16, <2>1, <2>2 DEF T
  <1>18. CASE Offered(d, private)
    <2>1. T = S \cup {at} /\ d \in Offerable /\ Come(p, T) = D \cup {d}
      BY <1>5, <1>6, <1>7, <1>9, <1>13, <1>18 DEF Come, D, d
    <2>2. CASE r.thrown # "none"
      <3>1. ~Clear(p, T)
        BY <1>6, <1>16, <2>2, ClearShrinks DEF Judged
      <3>2. Insert(r, d, private) = r
        BY <2>2 DEF Insert
      <3> QED
        BY <1>3, <2>2, <3>1, <3>2 DEF Judged, T
    <2>3. CASE r.thrown = "none"
      <3> DEFINE s == r.scope
                 x == Add(s, d)
      <3>1. Clear(p, S) /\ Holds(s, D) /\ s.namespaces = NamesThrough(p, k)
        BY <1>16, <2>3 DEF Judged, D
      <3>2. Insert(r, d, private) = x
        BY <1>18, <2>3 DEF Insert
      <3>3. /\ x.thrown = "none" <=> ~Kept(s, D, d)
            /\ x.thrown = "none" => Holds(x.scope, D \cup {d}) /\ x.scope.namespaces = s.namespaces
        BY <1>14, <1>15, <2>1, <3>1, AddJudged
      <3> HIDE DEF s, x
      <3>4. Kept(s, D, d) <=> NamedAsNamespace(p, at) \/ \E a \in S : Bars(Entry(p, a), d)
        BY <1>12, <3>1 DEF Kept, D, Come
      <3>5. Clear(p, T) <=> ~Kept(s, D, d)
        BY <1>10, <1>11, <2>1, <3>1, <3>4 DEF Clear, d
      <3> QED
        BY <1>3, <2>1, <3>1, <3>2, <3>3, <3>5 DEF Judged, T
    <2> QED
      BY <2>2, <2>3
  <1> QED
    BY <1>17, <1>18

(* The k-th file as a whole.                                               *)
LEMMA ImportJudged ==
  ASSUME program \in Programs, NEW p \in Files, NEW k \in 1..Len(Sources(p)),
         NEW private, private <=> (k = Len(Sources(p))),
         NEW r \in Result(Visible(p)), Judged(r, p, Through(p, k - 1), k - 1)
  PROVE  Judged(Import(r, Sources(p)[k], program[Sources(p)[k]], private), p, Through(p, k), k)
  <1> DEFINE q == Sources(p)[k]
             ds == program[q]
             R == Result(Visible(p))
             start == Inserted(add_namespaces(r.scope, NamespacesOf(q)))
             G == [i \in 0..Len(ds) |-> {x \in R : Judged(x, p, UpTo(p, k, i), k)}]
  <1>1. q \in Files /\ k \in Nat /\ k - 1 \in Nat
    BY SourcesAre
  <1>2. Len(ds) \in Nat /\ NamespacesOf(q) \in SUBSET STRING
    BY <1>1, ProgramIs
  <1>3. \A a \in Entering(p) :
          /\ a[1] \in Nat /\ a[2] \in Nat /\ a[2] > 0
          /\ a[1] = k => a[2] <= Len(ds)
    <2>1. ASSUME NEW a \in Entering(p)
          PROVE  a[1] \in Nat /\ a[2] \in 1..Len(program[Sources(p)[a[1]]])
                 /\ Len(program[Sources(p)[a[1]]]) \in Nat
      <3>1. a[1] \in 1..Len(Sources(p)) /\ a[2] \in 1..Len(program[Sources(p)[a[1]]])
        BY EnteringIs
      <3>2. Sources(p)[a[1]] \in Files /\ a[1] \in Nat
        BY <3>1, SourcesAre
      <3> QED
        BY <3>1, <3>2, ProgramIs
    <2> QED
      BY <2>1
  <1>4. UpTo(p, k, 0) = Through(p, k - 1)
    BY <1>1, <1>3 DEF UpTo, Through
  <1>5. UpTo(p, k, Len(ds)) = Through(p, k)
    BY <1>1, <1>3 DEF UpTo, Through
  <1>6. Through(p, k - 1) \subseteq Through(p, k)
    BY <1>1, <1>3 DEF Through
  <1>7. CASE r.thrown # "none"
    <2>1. ~Clear(p, Through(p, k))
      BY <1>6, <1>7, ClearShrinks DEF Judged
    <2>2. Import(r, q, ds, private) = r
      BY <1>7 DEF Import
    <2> QED
      BY <1>7, <2>1, <2>2 DEF Judged
  <1>8. CASE r.thrown = "none"
    <2>1. r.scope \in Scope(Visible(p))
      BY DEF Result
    <2>2. start \in R
      BY <1>2, <2>1, NamespacesKeep, InsertedIs
    <2>3. ASSUME NEW i \in 1..Len(ds), NEW x \in R
          PROVE  Insert(x, ds[i], private) \in R
      <3>1. Offered(ds[i], private) => q = p \/ ds[i].public
        <4>1. private => q = p
          BY SourcesAre
        <4> QED
          BY <4>1 DEF Offered
      <3>2. Offered(ds[i], private) => Fit(ds[i], Visible(p))
        BY <1>1, <3>1, VisibleFits
      <3> QED
        BY <3>2, InsertKeeps
    <2>4. Judged(start, p, UpTo(p, k, 0), k)
      <3> DEFINE s == r.scope
                 t == add_namespaces(s, NamespacesOf(q))
                 S == Through(p, k - 1)
      <3>1. Clear(p, S) /\ Holds(s, Come(p, S)) /\ s.namespaces = NamesThrough(p, k - 1)
        BY <1>8 DEF Judged
      <3>2. /\ t.entries = s.entries /\ t.recorded = s.recorded
            /\ t.namespaces = s.namespaces \cup NamespacesOf(q)
        BY <2>1 DEF add_namespaces, Scope
      <3>3. start.thrown = "none" /\ start.scope = t
        BY DEF Inserted
      <3> HIDE DEF s, t, S, start
      <3>4. Holds(t, Come(p, S))
        BY <3>1, <3>2 DEF Holds, Recorded
      <3>5. t.namespaces = NamesThrough(p, k)
        <4>1. \A j \in 1..k : j = k \/ j \in 1..(k - 1)
          BY <1>1
        <4>2. k \in 1..k /\ \A j \in 1..(k - 1) : j \in 1..k
          BY <1>1
        <4> QED
          BY <1>2, <3>1, <3>2, <4>1, <4>2 DEF NamesThrough, q
      <3> QED
        BY <1>4, <3>1, <3>3, <3>4, <3>5 DEF Judged, S
    <2>5. \A i \in 0..Len(ds) : G[i] = {x \in R : Judged(x, p, UpTo(p, k, i), k)}
      OBVIOUS
    <2>6. ASSUME NEW i \in 1..Len(ds), NEW x \in R, x \in G[i - 1]
          PROVE  Insert(x, ds[i], private) \in G[i]
      <3>1. i \in 0..Len(ds) /\ i - 1 \in 0..Len(ds)
        BY <1>2
      <3>2. Judged(x, p, UpTo(p, k, i - 1), k)
        BY <2>5, <2>6, <3>1
      <3>3. Judged(Insert(x, ds[i], private), p, UpTo(p, k, i), k)
        BY <3>2, InsertJudged
      <3> QED
        BY <2>3, <2>5, <3>1, <3>3
    <2>7. start \in G[0]
      BY <1>2, <2>2, <2>4, <2>5
    <2>8. Import(r, q, ds, private) = AddAll(start, ds, private)
      BY <1>8 DEF Import
    <2> HIDE DEF start, ds, R, G
    <2>9. AddAll(start, ds, private) \in G[Len(ds)]
      BY <1>2, <2>2, <2>3, <2>6, <2>7, AddAllReaches
    <2>10. Judged(AddAll(start, ds, private), p, UpTo(p, k, Len(ds)), k)
      BY <1>2, <2>5, <2>9
    <2> QED
      BY <1>5, <2>8, <2>10 DEF ds
  <1> QED
    BY <1>7, <1>8

LEMMA ImportWithin ==
  ASSUME program \in Programs, NEW p \in Files, NEW k \in 1..Len(ImportsOf[p]),
         NEW r \in Result(Visible(p))
  PROVE  Import(r, ImportsOf[p][k], program[ImportsOf[p][k]], FALSE) \in Result(Visible(p))
  <1> DEFINE q == ImportsOf[p][k]
  <1>1. q \in Files
    BY SourcesAre
  <1> HIDE DEF q
  <1>2. \A j \in 1..Len(program[q]) : Offered(program[q][j], FALSE) => Fit(program[q][j], Visible(p))
    BY <1>1, VisibleFits DEF Offered
  <1>3. Len(program[q]) \in Nat /\ NamespacesOf(q) \in SUBSET STRING
    BY <1>1, ProgramIs
  <1>4. Import(r, q, program[q], FALSE) \in Result(Visible(p))
    BY <1>2, <1>3, ImportKeeps
  <1> QED
    BY <1>4 DEF q

LEMMA EmptyJudged ==
  ASSUME program \in Programs, NEW p \in Files
  PROVE  Judged(Inserted(EmptyScope), p, Through(p, 0), 0)
  <1>1. \A a \in Entering(p) : ~(a[1] <= 0)
    <2>1. \A a \in Entering(p) : a[1] \in 1..Len(Sources(p))
      BY EnteringIs
    <2>2. \A k \in 1..Len(Sources(p)) : ~(k <= 0)
      BY SourcesAre
    <2> QED
      BY <2>1, <2>2
  <1>2. Through(p, 0) = {}
    BY <1>1 DEF Through
  <1>3. Clear(p, {}) /\ Come(p, {}) = {}
    BY DEF Clear, Come
  <1>4. Holds(EmptyScope, {})
    BY DEF Holds, EmptyScope, Types, Recorded
  <1>5. NamesThrough(p, 0) = {}
    BY DEF NamesThrough
  <1> QED
    BY <1>2, <1>3, <1>4, <1>5 DEF Judged, Inserted, EmptyScope

LEMMA RunImportsJudged ==
  ASSUME program \in Programs, NEW p \in Files
  PROVE  /\ Judged(run_imports_util(p), p, Entering(p), Len(Sources(p)))
         /\ run_imports_util(p).thrown = "none" <=> Clear(p, Entering(p))
  <1> DEFINE files == ImportsOf[p]
             n == Len(files)
             R == Result(Visible(p))
             G == [k \in 0..n |-> {x \in R : Judged(x, p, Through(p, k), k)}]
             r == ImportAll(Inserted(EmptyScope), files, program)
  <1>1. /\ n \in Nat /\ Len(Sources(p)) = n + 1
        /\ \A k \in 1..n : Sources(p)[k] = files[k]
        /\ Sources(p)[n + 1] = p
    BY SourcesAre
  <1>2. Inserted(EmptyScope) \in R
    BY EmptyScopeIs, InsertedIs
  <1>3. \A k \in 1..n : \A x \in R : Import(x, files[k], program[files[k]], FALSE) \in R
    BY ImportWithin
  <1>4. \A k \in 0..n : G[k] = {x \in R : Judged(x, p, Through(p, k), k)}
    OBVIOUS
  <1> HIDE DEF G
  <1>5. ASSUME NEW k \in 1..n, NEW x \in R, x \in G[k - 1]
        PROVE  Import(x, files[k], program[files[k]], FALSE) \in G[k]
    <2>1. k \in 0..n /\ k - 1 \in 0..n /\ k \in 1..Len(Sources(p)) /\ k # Len(Sources(p))
      BY <1>1
    <2>2. Judged(x, p, Through(p, k - 1), k - 1)
      BY <1>4, <1>5, <2>1
    <2> DEFINE private == FALSE
    <2>3. private <=> (k = Len(Sources(p)))
      BY <2>1
    <2> HIDE DEF private
    <2>4. Judged(Import(x, Sources(p)[k], program[Sources(p)[k]], private), p, Through(p, k), k)
      BY <2>1, <2>2, <2>3, ImportJudged
    <2>5. Judged(Import(x, files[k], program[files[k]], FALSE), p, Through(p, k), k)
      BY <1>1, <2>4 DEF private
    <2> QED
      BY <1>3, <1>4, <2>1, <2>5
  <1>6. Inserted(EmptyScope) \in G[0]
    BY <1>1, <1>2, <1>4, EmptyJudged
  <1>7. r \in R /\ r \in G[n]
    <2> HIDE DEF files, R
    <2>1. r \in R
      BY <1>1, <1>2, <1>3, ImportAllKeeps
    <2>2. r \in G[n]
      BY <1>1, <1>2, <1>3, <1>5, <1>6, ImportAllReaches
    <2> QED
      BY <2>1, <2>2
  <1>8. Judged(r, p, Through(p, n), n)
    BY <1>1, <1>4, <1>7
  <1> HIDE DEF r
  <1>9. Judged(Import(r, p, program[p], TRUE), p, Through(p, n + 1), n + 1)
    <2> DEFINE k == n + 1
               private == TRUE
    <2>1. k \in 1..Len(Sources(p)) /\ k - 1 = n /\ (private <=> (k = Len(Sources(p)))) /\ Sources(p)[k] = p
      BY <1>1
    <2>2. r \in Result(Visible(p)) /\ Judged(r, p, Through(p, k - 1), k - 1)
      BY <1>7, <1>8, <2>1
    <2> HIDE DEF k, private
    <2>3. Judged(Import(r, Sources(p)[k], program[Sources(p)[k]], private), p, Through(p, k), k)
      BY <2>1, <2>2, ImportJudged
    <2> QED
      BY <2>1, <2>3 DEF k, private
  <1>10. run_imports_util(p) = Import(r, p, program[p], TRUE)
    BY DEF run_imports_util, r
  <1>11. Through(p, n + 1) = Entering(p)
    <2>1. \A a \in Entering(p) : a[1] \in 1..(n + 1)
      BY <1>1, EnteringIs
    <2>2. \A k \in 1..(n + 1) : k <= n + 1
      OBVIOUS
    <2> QED
      BY <2>1, <2>2 DEF Through
  <1> QED
    BY <1>1, <1>9, <1>10, <1>11 DEF Judged

(* scope.cpp:119, dtable.cpp:266: whatever the declarations are, a file is *)
(* refused if and only if two of those that come into its scope bar one    *)
(* another, or one is named as a namespace.                                *)
THEOREM RefusedIfBarred ==
  ASSUME program \in Programs, NEW p \in Files
  PROVE  run_imports_util(p).thrown = "none" <=> ~Barred(p)
  <1>1. Clear(p, Entering(p)) <=> ~Barred(p)
    BY DEF Clear, Barred
  <1> QED
    BY <1>1, RunImportsJudged

(* The file the importer stopped at stays the first that waits.            *)
RefusalStands ==
  phase = "check" /\ ~complete =>
    queue # <<>> /\ queue \in Seq(Files) /\ run_imports_util(Head(queue)).thrown # "none"

LEMMA RefusalStays ==
  ASSUME Inv, RefusalStands, [Next]_vars
  PROVE  RefusalStands'
  <1>1. CASE ImportRefused
    <2>1. queue' = queue /\ program' = program
      BY <1>1 DEF ImportRefused, source
    <2>2. run_imports_util(Head(queue))' = run_imports_util(Head(queue))
      BY <2>1 DEF run_imports_util, ImportAll, Import, NamespacesOf
    <2>3. queue # <<>> /\ queue \in Seq(Files) /\ run_imports_util(Head(queue)).thrown # "none"
      BY <1>1 DEF Inv, TypeOK, ImportRefused
    <2> QED
      BY <2>1, <2>2, <2>3 DEF RefusalStands
  <1>2. CASE ImportDone
    BY <1>2 DEF ImportDone, RefusalStands
  <1>3. CASE phase' = "check" /\ ~ImportRefused /\ ~ImportDone
    <2>1. phase = "check" /\ queue' = queue /\ complete' = complete /\ program' = program
      BY <1>3
      DEF Next, vars, GoOn, End, source, tables, ImportProgram, CheckMain, MainMissing, CheckFails,
          CheckVariable, CheckConstructor, CheckCall, NotFound, CheckReturns, Cleaning, CleanProgram,
          CleanAborts, StatementFound, CleanDone, MainProgramMissing, LinkProgram, LinkFails,
          StartMain, MainNotThere, RunUse, RunCall, RunReturns
    <2>2. run_imports_util(Head(queue))' = run_imports_util(Head(queue))
      BY <2>1 DEF run_imports_util, ImportAll, Import, NamespacesOf
    <2> QED
      BY <2>1, <2>2 DEF RefusalStands
  <1>4. CASE phase' # "check"
    BY <1>4 DEF RefusalStands
  <1> QED
    BY <1>1, <1>2, <1>3, <1>4

(* The importer, while it runs and when it stopped, has refused exactly the*)
(* programs of which two declarations bar one another.                     *)
THEOREM TablesRefusePairs == Spec => []CollisionsPairwise
  <1>1. Init => Inv /\ RefusalStands
    BY InvInit DEF Init, RefusalStands
  <1>2. Inv /\ RefusalStands /\ [Next]_vars => (Inv /\ RefusalStands)'
    BY InvNext, RefusalStays
  <1>3. ASSUME Inv, RefusalStands
        PROVE  CollisionsPairwise
    <2> SUFFICES ASSUME NEW p \in Files
                 PROVE  /\ p \notin ToSet(queue) /\ phase = "import" => ~Barred(p)
                        /\ phase = "check" /\ ~complete /\ queue # <<>> /\ Head(queue) = p => Barred(p)
      BY DEF CollisionsPairwise
    <2>1. run_imports_util(p).thrown = "none" <=> ~Barred(p)
      BY <1>3, RefusedIfBarred DEF Inv, TypeOK
    <2>2. ASSUME p \notin ToSet(queue), phase = "import"
          PROVE  ~Barred(p)
      <3>1. run_imports_util(p) = Inserted(scopes[p])
        BY <1>3, <2>2 DEF Inv, ScopesInOrder
      <3>2. run_imports_util(p).thrown = "none"
        BY <3>1 DEF Inserted
      <3> QED
        BY <2>1, <3>2
    <2>3. ASSUME phase = "check", ~complete, queue # <<>>, Head(queue) = p
          PROVE  Barred(p)
      BY <1>3, <2>1, <2>3 DEF RefusalStands
    <2> QED
      BY <2>2, <2>3
  <1> QED
    BY <1>1, <1>2, <1>3, PTL DEF Spec

-----------------------------------------------------------------------------
(* The second time names are looked up. Whatever is added, a scope keeps   *)
(* what it has, and of two variables, or two functions of the same types,  *)
(* that go by one name it has one.                                         *)
Tidy(s) ==
  /\ \A e \in s.entries : e.kind # "constructor" => Recorded(s, e) # {}
  /\ \A r \in s.recorded : r.kind \in {"type", "function"}
  /\ \A e, f \in s.entries :
       e.ns = f.ns /\ e.name = f.name /\ e.kind = f.kind =>
         /\ e.kind = "variable" => e = f
         /\ e.kind = "function" /\ collides_with(e, f) => e = f

Findable(d) == d.kind \in {"variable", "function"}

LEMMA PutTidy ==
  ASSUME NEW E, NEW s \in Scope(E), Tidy(s), NEW d, NEW kind \in {"type", "function"},
         d.kind \in {"type", "variable", "function"},
         \A e \in s.entries : e.ns = d.ns /\ e.name = d.name /\ e.kind = d.kind =>
           d.kind # "variable" /\ ~(d.kind = "function" /\ collides_with(d, e))
  PROVE  Tidy(Put(s, d, kind).scope)
  <1> DEFINE t == Put(s, d, kind).scope
             new == [ns |-> d.ns, name |-> d.name, kind |-> kind]
  <1>1. t.entries = s.entries \cup {d}
    BY PutIs
  <1>2. t.recorded = IF Recorded(s, d) # {} THEN s.recorded ELSE s.recorded \cup {new}
    BY DEF Put, Inserted, Scope
  <1>3. new.ns = d.ns /\ new.name = d.name /\ new.kind = kind
    OBVIOUS
  <1> HIDE DEF t, new
  <1>4. \A e : Recorded(s, e) \subseteq Recorded(t, e)
    BY <1>2 DEF Recorded
  <1>5. Recorded(t, d) # {}
    <2>1. CASE Recorded(s, d) # {}
      BY <1>4, <2>1
    <2>2. CASE Recorded(s, d) = {}
      <3>1. new \in Recorded(t, d)
        BY <1>2, <1>3, <2>2 DEF Recorded
      <3> QED
        BY <3>1
    <2> QED
      BY <2>1, <2>2
  <1>6. \A e \in t.entries : e.kind # "constructor" => Recorded(t, e) # {}
    BY <1>1, <1>4, <1>5 DEF Tidy
  <1>7. \A r \in t.recorded : r.kind \in {"type", "function"}
    BY <1>2, <1>3 DEF Tidy
  <1>8. ASSUME NEW e \in t.entries, NEW f \in t.entries, e.ns = f.ns, e.name = f.name, e.kind = f.kind
        PROVE  /\ e.kind = "variable" => e = f
               /\ e.kind = "function" /\ collides_with(e, f) => e = f
    <2>1. CASE e \in s.entries /\ f \in s.entries
      BY <1>8, <2>1 DEF Tidy
    <2>2. CASE e = d /\ f = d
      BY <2>2
    <2>3. CASE e = d /\ f \in s.entries
      BY <1>8, <2>3
    <2>4. CASE f = d /\ e \in s.entries
      BY <1>8, <2>4, CollidesBoth
    <2> QED
      BY <1>1, <2>1, <2>2, <2>3, <2>4
  <1> QED
    BY <1>6, <1>7, <1>8 DEF Tidy, t

(* What has been added on top of base.                                     *)
Grown(E, base) == {x \in Result(E) : Tidy(x.scope) /\ base \subseteq x.scope.entries}

LEMMA RecordedIs ==
  ASSUME NEW s, Tidy(s), NEW d
  PROVE  /\ ~RecordedAs(s, d, {"variable"})
         /\ RecordedAs(s, d, {"type", "function"}) <=> Recorded(s, d) # {}
         /\ Recorded(s, d) = {} =>
              \A e \in s.entries : e.ns = d.ns /\ e.name = d.name => e.kind = "constructor"
  <1>1. \A r \in Recorded(s, d) : r.kind \in {"type", "function"}
    BY DEF Tidy, Recorded
  <1>2. \A e : e.ns = d.ns /\ e.name = d.name => Recorded(s, e) = Recorded(s, d)
    BY DEF Recorded
  <1> QED
    BY <1>1, <1>2 DEF RecordedAs, Tidy

(* Functions and variables are taken or make the compiler stop.            *)
LEMMA AddFindable ==
  ASSUME NEW E, NEW s \in Scope(E), Tidy(s), NEW d, Findable(d)
  PROVE  \/ Add(s, d) = Throws(s, "collide")
         \/ Add(s, d) = Put(s, d, "function") /\ Tidy(Put(s, d, "function").scope)
  <1> DEFINE kind == "function"
             same == Entries(s, "function", d.ns, d.name)
  <1>1. CASE d.kind = "function"
    <2>1. Add(s, d) = add_function(s, d)
      BY <1>1 DEF Add
    <2>2. insert_function(s, d) =
            IF \E f \in same : collides_with(d, f) THEN Throws(s, "collide") ELSE Put(s, d, "function")
      BY RecordedIs DEF insert_function
    <2>3. ASSUME ~\E f \in same : collides_with(d, f)
          PROVE  Tidy(Put(s, d, "function").scope)
      <3>1. \A e \in s.entries : e.ns = d.ns /\ e.name = d.name /\ e.kind = d.kind => e \in same
        BY <1>1 DEF Entries
      <3>2. kind \in {"type", "function"} /\ kind = "function"
        OBVIOUS
      <3> HIDE DEF same, kind
      <3>3. \A e \in s.entries : e.ns = d.ns /\ e.name = d.name /\ e.kind = d.kind =>
              d.kind # "variable" /\ ~(d.kind = "function" /\ collides_with(d, e))
        BY <1>1, <2>3, <3>1
      <3>4. d.kind \in {"type", "variable", "function"}
        BY <1>1
      <3>5. Tidy(Put(s, d, kind).scope)
        BY <3>2, <3>3, <3>4, PutTidy
      <3> QED
        BY <3>2, <3>5
    <2> HIDE DEF same
    <2> QED
      BY <2>1, <2>2, <2>3 DEF add_function
  <1>2. CASE d.kind = "variable"
    <2>1. Add(s, d) = add_variable(s, d)
      BY <1>2 DEF Add
    <2>2. CASE Recorded(s, d) # {}
      <3>1. insert_variable(s, d) = Throws(s, "collide")
        BY <2>2, RecordedIs DEF insert_variable
      <3> QED
        BY <2>1, <3>1 DEF add_variable
    <2>3. CASE Recorded(s, d) = {}
      <3>1. \A e \in s.entries : e.ns = d.ns /\ e.name = d.name => e.kind = "constructor"
        BY <2>3, RecordedIs
      <3>2. ~Exists(s, "variable", d)
        BY <3>1 DEF Exists, Entries
      <3>3. insert_variable(s, d) = Put(s, d, "function")
        BY <2>3, <3>2, RecordedIs DEF insert_variable
      <3>4. \A e \in s.entries : e.ns = d.ns /\ e.name = d.name /\ e.kind = d.kind =>
              d.kind # "variable" /\ ~(d.kind = "function" /\ collides_with(d, e))
        BY <1>2, <3>1
      <3>5. kind \in {"type", "function"} /\ kind = "function" /\ d.kind \in {"type", "variable", "function"}
        BY <1>2
      <3> HIDE DEF kind
      <3>6. Tidy(Put(s, d, kind).scope)
        BY <3>4, <3>5, PutTidy
      <3> QED
        BY <2>1, <3>3, <3>5, <3>6 DEF add_variable
    <2> QED
      BY <2>2, <2>3
  <1> QED
    BY <1>1, <1>2 DEF Findable

LEMMA ConstructorTidy ==
  ASSUME NEW s, Tidy(s), NEW c, c.kind = "constructor", NEW t, t.recorded = s.recorded, t.entries = s.entries \cup {c}
  PROVE  Tidy(t)
  <1>1. \A e : Recorded(t, e) = Recorded(s, e)
    BY DEF Recorded
  <1>2. \A e, f \in t.entries : e.kind = f.kind /\ e.kind \in {"variable", "function"} => e \in s.entries /\ f \in s.entries
    OBVIOUS
  <1> QED
    BY <1>1, <1>2 DEF Tidy

LEMMA AddTypeTidy ==
  ASSUME NEW E, NEW s \in Scope(E), Tidy(s), NEW d, d.kind = "type"
  PROVE  Tidy(Add(s, d).scope) /\ s.entries \subseteq Add(s, d).scope.entries
  <1> DEFINE kind == "type"
             u == Put(s, d, kind)
             t == u.scope
             c == ConstructorOf(d)
  <1>1. Add(s, d) = add_type(s, d)
    BY DEF Add
  <1>2. t.entries = s.entries \cup {d} /\ u.thrown = "none"
    BY PutIs
  <1>3. Tidy(t)
    <2>1. \A e \in s.entries : e.ns = d.ns /\ e.name = d.name /\ e.kind = d.kind =>
            d.kind # "variable" /\ ~(d.kind = "function" /\ collides_with(d, e))
      OBVIOUS
    <2>2. kind \in {"type", "function"} /\ d.kind \in {"type", "variable", "function"}
      OBVIOUS
    <2> HIDE DEF kind
    <2> QED
      BY <2>1, <2>2, PutTidy
  <1>4. c.kind = "constructor"
    BY DEF ConstructorOf
  <1>5. \A x : Throws(s, x).scope = s /\ Throws(s, x).thrown = x /\ Throws(t, x).scope = t /\ Inserted(t).scope = t
    BY DEF Throws, Inserted
  <1>6. insert_type(s, d) \in {Throws(s, "collide"), Throws(s, "already"), u}
    BY DEF insert_type
  <1>7. CASE insert_type(s, d) \in {Throws(s, "collide"), Throws(s, "already")}
    <2>1. add_type(s, d) = insert_type(s, d)
      BY <1>5, <1>7 DEF add_type
    <2> HIDE DEF u, t, c
    <2> QED
      BY <1>1, <1>5, <1>7, <2>1
  <1>8. CASE insert_type(s, d) = u
    <2>1. add_type(s, d) = add_constructor(t, c)
      BY <1>2, <1>8 DEF add_type
    <2> DEFINE w == [t EXCEPT !.entries = @ \cup {c}]
    <2>2. add_constructor(t, c) \in {Throws(t, "collide"), Throws(t, "already"), Inserted(w)}
      BY DEF add_constructor
    <2>3. w.recorded = t.recorded /\ w.entries = t.entries \cup {c} /\ Inserted(w).scope = w
      BY DEF Put, Inserted, Scope
    <2> HIDE DEF u, t, c, w
    <2>4. Tidy(w)
      BY <1>3, <1>4, <2>3, ConstructorTidy
    <2>5. CASE add_constructor(t, c) = Inserted(w)
      BY <1>1, <1>2, <2>1, <2>3, <2>4, <2>5
    <2>6. CASE add_constructor(t, c) \in {Throws(t, "collide"), Throws(t, "already")}
      BY <1>1, <1>2, <1>3, <1>5, <2>1, <2>6
    <2> QED
      BY <2>2, <2>5, <2>6
  <1> QED
    BY <1>6, <1>7, <1>8

(* Adding what fits: a function or a variable is there, if nothing is      *)
(* thrown, and the compiler stops if it is not.                            *)
LEMMA AddGrows ==
  ASSUME NEW E, NEW base, NEW r \in Grown(E, base), NEW d, Fit(d, E)
  PROVE  /\ Add(r.scope, d) \in Grown(E, base)
         /\ r.scope.entries \subseteq Add(r.scope, d).scope.entries
         /\ Findable(d) => Add(r.scope, d).thrown = "collide" \/ d \in Add(r.scope, d).scope.entries
         /\ d.kind # "type" => Add(r.scope, d).thrown \in {"none", "collide"}
  <1> DEFINE s == r.scope
             x == Add(s, d)
  <1>1. s \in Scope(E) /\ Tidy(s) /\ base \subseteq s.entries
    BY DEF Grown, Result
  <1>2. x \in Result(E)
    BY <1>1, AddKeeps
  <1> HIDE DEF s
  <1>3. Throws(s, "collide").scope = s /\ Throws(s, "collide").thrown = "collide"
    BY DEF Throws
  <1>4. Put(s, d, "function").scope.entries = s.entries \cup {d} /\ Put(s, d, "function").thrown = "none"
    BY <1>1, PutIs
  <1>5. CASE Findable(d)
    <2>1. \/ x = Throws(s, "collide")
          \/ x = Put(s, d, "function") /\ Tidy(Put(s, d, "function").scope)
      BY <1>1, <1>5, AddFindable
    <2>2. Tidy(x.scope) /\ s.entries \subseteq x.scope.entries
      BY <1>1, <1>3, <1>4, <2>1
    <2>3. x.thrown = "collide" \/ (x.thrown = "none" /\ d \in x.scope.entries)
      BY <1>3, <1>4, <2>1
    <2> HIDE DEF x
    <2>4. x \in Grown(E, base)
      BY <1>1, <1>2, <2>2 DEF Grown
    <2> QED
      BY <2>2, <2>3, <2>4 DEF x, s
  <1>6. CASE d.kind = "type"
    <2>1. Tidy(x.scope) /\ s.entries \subseteq x.scope.entries
      BY <1>1, <1>6, AddTypeTidy
    <2> HIDE DEF x
    <2>2. x \in Grown(E, base)
      BY <1>1, <1>2, <2>1 DEF Grown
    <2> QED
      BY <1>6, <2>1, <2>2 DEF x, s, Findable
  <1>7. CASE d.kind = "statement"
    <2>1. x = Inserted(s)
      BY <1>7 DEF Add
    <2>2. x.scope = s /\ x.thrown = "none"
      BY <2>1 DEF Inserted
    <2> HIDE DEF x
    <2>3. x \in Grown(E, base)
      BY <1>1, <1>2, <2>2 DEF Grown
    <2> QED
      BY <1>7, <2>2, <2>3 DEF x, s, Findable
  <1> QED
    BY <1>5, <1>6, <1>7 DEF Fit, Findable

(* All that is offered and can be found is in the scope.                   *)
Has(x, declarations, private) ==
  \A i \in 1..Len(declarations) :
    Offered(declarations[i], private) /\ Findable(declarations[i]) => declarations[i] \in x.scope.entries

LEMMA InsertGrows ==
  ASSUME NEW E, NEW base, NEW r \in Grown(E, base), NEW d, NEW private, Offered(d, private) => Fit(d, E)
  PROVE  LET x == Insert(r, d, private)
         IN /\ x \in Grown(E, base) /\ r.scope.entries \subseteq x.scope.entries
            /\ x.thrown = "none" => r.thrown = "none"
            /\ x.thrown = "none" /\ Offered(d, private) /\ Findable(d) => d \in x.scope.entries
  <1>1. CASE r.thrown = "none" /\ Offered(d, private)
    <2>1. Insert(r, d, private) = Add(r.scope, d)
      BY <1>1 DEF Insert
    <2> DEFINE x == Add(r.scope, d)
    <2>2. /\ x \in Grown(E, base) /\ r.scope.entries \subseteq x.scope.entries
          /\ Findable(d) => x.thrown = "collide" \/ d \in x.scope.entries
      BY <1>1, AddGrows
    <2> HIDE DEF x
    <2> QED
      BY <1>1, <2>1, <2>2 DEF x
  <1>2. CASE ~(r.thrown = "none" /\ Offered(d, private))
    <2>1. Insert(r, d, private) = r
      BY <1>2 DEF Insert
    <2> QED
      BY <1>2, <2>1
  <1> QED
    BY <1>1, <1>2

LEMMA AddAllHas ==
  ASSUME NEW E, NEW base, NEW sofar \in Grown(E, base), NEW declarations, NEW private,
         Len(declarations) \in Nat,
         \A i \in 1..Len(declarations) : Offered(declarations[i], private) => Fit(declarations[i], E)
  PROVE  LET x == AddAll(sofar, declarations, private)
         IN x \in Grown(E, base) /\ (x.thrown = "none" => Has(x, declarations, private))
  <1> DEFINE n == Len(declarations)
             R == Grown(E, base)
             G == [i \in 0..n |-> {x \in R : x.thrown = "none" => \A h \in 1..i :
                     Offered(declarations[h], private) /\ Findable(declarations[h]) => declarations[h] \in x.scope.entries}]
             whole == AddAll(sofar, declarations, private)
  <1>1. \A i \in 0..n : G[i] = {x \in R : x.thrown = "none" => \A h \in 1..i :
          Offered(declarations[h], private) /\ Findable(declarations[h]) => declarations[h] \in x.scope.entries}
    OBVIOUS
  <1> HIDE DEF G
  <1>2. ASSUME NEW i \in 1..n, NEW r \in R
        PROVE  Insert(r, declarations[i], private) \in R /\ (r \in G[i - 1] => Insert(r, declarations[i], private) \in G[i])
    <2> DEFINE x == Insert(r, declarations[i], private)
    <2>1. /\ x \in R /\ r.scope.entries \subseteq x.scope.entries
          /\ x.thrown = "none" => r.thrown = "none"
          /\ x.thrown = "none" /\ Offered(declarations[i], private) /\ Findable(declarations[i]) => declarations[i] \in x.scope.entries
      BY InsertGrows
    <2> HIDE DEF x, R
    <2>2. i \in 0..n /\ i - 1 \in 0..n /\ \A h \in 1..i : h = i \/ h \in 1..(i - 1)
      OBVIOUS
    <2>3. ASSUME r \in G[i - 1], x.thrown = "none", NEW h \in 1..i,
                 Offered(declarations[h], private), Findable(declarations[h])
          PROVE  declarations[h] \in x.scope.entries
      <3>1. CASE h = i
        BY <2>1, <2>3, <3>1
      <3>2. CASE h \in 1..(i - 1)
        BY <1>1, <2>1, <2>2, <2>3, <3>2
      <3> QED
        BY <2>2, <3>1, <3>2
    <2>4. r \in G[i - 1] => x \in G[i]
      BY <1>1, <2>1, <2>2, <2>3
    <2> QED
      BY <2>1, <2>4 DEF x
  <1>3. sofar \in R /\ sofar \in G[0] /\ n \in 0..n
    BY <1>1
  <1> HIDE DEF R
  <1>4. whole \in R
    BY <1>2, <1>3, AddAllKeeps
  <1>5. whole \in G[n]
    BY <1>2, <1>3, AddAllReaches
  <1>6. whole.thrown = "none" => Has(whole, declarations, private)
    BY <1>1, <1>3, <1>5 DEF Has
  <1> QED
    BY <1>4, <1>6 DEF R

LEMMA ImportHas ==
  ASSUME NEW E, NEW base, NEW sofar \in Grown(E, base), NEW from, NEW declarations, NEW private,
         Len(declarations) \in Nat, NamespacesOf(from) \in SUBSET STRING,
         \A i \in 1..Len(declarations) : Offered(declarations[i], private) => Fit(declarations[i], E)
  PROVE  LET x == Import(sofar, from, declarations, private)
         IN /\ x \in Grown(E, base) /\ sofar.scope.entries \subseteq x.scope.entries
            /\ x.thrown = "none" => sofar.thrown = "none" /\ Has(x, declarations, private)
  <1> DEFINE s == sofar.scope
             t == add_namespaces(s, NamespacesOf(from))
             start == Inserted(t)
             x == AddAll(start, declarations, private)
  <1>1. CASE sofar.thrown # "none"
    <2>1. Import(sofar, from, declarations, private) = sofar
      BY <1>1 DEF Import
    <2> QED
      BY <1>1, <2>1
  <1>2. CASE sofar.thrown = "none"
    <2>1. Import(sofar, from, declarations, private) = x
      BY <1>2 DEF Import
    <2>2. s \in Scope(E) /\ Tidy(s) /\ base \subseteq s.entries
      BY DEF Grown, Result
    <2>3. t \in Scope(E) /\ t.entries = s.entries /\ t.recorded = s.recorded
      BY <2>2, NamespacesKeep DEF add_namespaces, Scope
    <2>4. start.scope = t /\ start \in Result(E)
      BY <2>3, InsertedIs DEF Inserted
    <2> HIDE DEF s, t, start
    <2>5. Tidy(t)
      BY <2>2, <2>3 DEF Tidy, Recorded
    <2> DEFINE under == s.entries
    <2>6. start \in Grown(E, under)
      BY <2>3, <2>4, <2>5 DEF Grown
    <2>7. base \subseteq under
      BY <2>2
    <2> HIDE DEF under
    <2>8. x \in Grown(E, under) /\ (x.thrown = "none" => Has(x, declarations, private))
      BY <2>6, AddAllHas
    <2>9. x \in Grown(E, base)
      BY <2>7, <2>8 DEF Grown
    <2>10. sofar.scope.entries \subseteq x.scope.entries
      BY <2>8 DEF Grown, under, s
    <2> QED
      BY <1>2, <2>1, <2>8, <2>9, <2>10
  <1> QED
    BY <1>1, <1>2

LEMMA ImportAllHas ==
  ASSUME NEW E, NEW base, NEW sofar \in Grown(E, base), NEW files, NEW contents, Len(files) \in Nat,
         \A k \in 1..Len(files) :
           /\ Len(contents[files[k]]) \in Nat /\ NamespacesOf(files[k]) \in SUBSET STRING
           /\ \A i \in 1..Len(contents[files[k]]) :
                Offered(contents[files[k]][i], FALSE) => Fit(contents[files[k]][i], E)
  PROVE  LET x == ImportAll(sofar, files, contents)
         IN /\ x \in Grown(E, base)
            /\ x.thrown = "none" => \A k \in 1..Len(files) : Has(x, contents[files[k]], FALSE)
  <1> DEFINE n == Len(files)
             R == Grown(E, base)
             G == [i \in 0..n |-> {x \in R : x.thrown = "none" => \A k \in 1..i : Has(x, contents[files[k]], FALSE)}]
             whole == ImportAll(sofar, files, contents)
  <1>1. \A i \in 0..n : G[i] = {x \in R : x.thrown = "none" => \A k \in 1..i : Has(x, contents[files[k]], FALSE)}
    OBVIOUS
  <1> HIDE DEF G
  <1>2. ASSUME NEW i \in 1..n, NEW r \in R
        PROVE  /\ Import(r, files[i], contents[files[i]], FALSE) \in R
               /\ r \in G[i - 1] => Import(r, files[i], contents[files[i]], FALSE) \in G[i]
    <2> DEFINE from == files[i]
               declarations == contents[from]
               private == FALSE
               x == Import(r, from, declarations, private)
    <2>1. /\ Len(declarations) \in Nat /\ NamespacesOf(from) \in SUBSET STRING
          /\ \A j \in 1..Len(declarations) : Offered(declarations[j], private) => Fit(declarations[j], E)
      OBVIOUS
    <2> HIDE DEF from, declarations, private
    <2>2. /\ x \in Grown(E, base) /\ r.scope.entries \subseteq x.scope.entries
          /\ x.thrown = "none" => r.thrown = "none" /\ Has(x, declarations, private)
      BY <2>1, ImportHas
    <2> HIDE DEF x, R
    <2>3. i \in 0..n /\ i - 1 \in 0..n /\ \A k \in 1..i : k = i \/ k \in 1..(i - 1)
      OBVIOUS
    <2>4. ASSUME r \in G[i - 1], x.thrown = "none", NEW k \in 1..i
          PROVE  Has(x, contents[files[k]], FALSE)
      <3>1. CASE k = i
        BY <2>2, <2>4, <3>1 DEF from, declarations, private
      <3>2. CASE k \in 1..(i - 1)
        <4>1. Has(r, contents[files[k]], FALSE)
          BY <1>1, <2>2, <2>3, <2>4, <3>2
        <4> QED
          BY <2>2, <4>1 DEF Has
      <3> QED
        BY <2>3, <3>1, <3>2
    <2>5. r \in G[i - 1] => x \in G[i]
      BY <1>1, <2>2, <2>3, <2>4 DEF R
    <2> QED
      BY <2>2, <2>5 DEF x, from, declarations, private, R
  <1>3. sofar \in R /\ sofar \in G[0] /\ n \in 0..n
    <2>1. sofar \in R /\ n \in 0..n /\ 0 \in 0..n /\ 1..0 = {}
      OBVIOUS
    <2> HIDE DEF R
    <2> QED
      BY <1>1, <2>1
  <1> HIDE DEF R
  <1>4. whole \in R
    BY <1>2, <1>3, ImportAllKeeps
  <1>5. whole \in G[n]
    BY <1>2, <1>3, ImportAllReaches
  <1>6. whole.thrown = "none" => \A k \in 1..n : Has(whole, contents[files[k]], FALSE)
    BY <1>1, <1>3, <1>5
  <1> QED
    BY <1>4, <1>6 DEF R

(* The scopes of the cleaned programs, at first and when they are linked.  *)
LEMMA SetScopeHas ==
  ASSUME TypeOK, NEW p \in Files
  PROVE  LET x == set_scope(p)
         IN /\ x \in Grown(Linkable, {})
            /\ x.thrown # "collide" =>
                 \A i \in 1..Len(Cleaned(p)) : Findable(Cleaned(p)[i]) => Cleaned(p)[i] \in x.scope.entries
  <1> DEFINE c == Cleaned(p)
             n == Len(c)
             E == Linkable
             base == {}
             R == Grown(E, base)
             G == [i \in 0..n |-> {x \in R : x.thrown # "collide" => \A h \in 1..i : Findable(c[h]) => c[h] \in x.scope.entries}]
             s == add_namespaces(EmptyScope, scopes[p].namespaces)
             start == Inserted(s)
  <1>1. c \in Seq(Left) /\ n \in Nat /\ \A i \in 1..n : c[i] \in Left
    <2>1. c \in Seq(Left)
      BY CleanedIs
    <2> HIDE DEF c
    <2> QED
      BY <2>1
  <1>2. \A i \in 0..n : G[i] = {x \in R : x.thrown # "collide" => \A h \in 1..i : Findable(c[h]) => c[h] \in x.scope.entries}
    OBVIOUS
  <1>3. start \in R
    <2>1. scopes[p].namespaces \in SUBSET STRING
      BY DEF TypeOK, Scope
    <2>2. s \in Scope(E)
      BY <2>1, EmptyScopeIs, NamespacesKeep
    <2>3. start \in Result(E) /\ start.scope = s
      BY <2>2, InsertedIs DEF Inserted
    <2>4. s.entries = {} /\ s.recorded = {}
      BY DEF add_namespaces, EmptyScope
    <2> HIDE DEF s, start, E
    <2>5. Tidy(s)
      BY <2>4 DEF Tidy
    <2> QED
      BY <2>3, <2>5 DEF Grown
  <1> HIDE DEF G
  <1>4. start \in G[0]
    BY <1>1, <1>2, <1>3
  <1> HIDE DEF E
  <1>5. ASSUME NEW i \in 1..n, NEW r \in R
        PROVE  PutCopy(r, c[i]) \in R /\ (r \in G[i - 1] => PutCopy(r, c[i]) \in G[i])
    <2> DEFINE d == c[i]
               x == Add(r.scope, d)
               y == PutCopy(r, d)
    <2>1. Fit(d, E)
      BY <1>1, LeftFits DEF E
    <2> HIDE DEF d
    <2>2. /\ x \in R /\ r.scope.entries \subseteq x.scope.entries
          /\ Findable(d) => x.thrown = "collide" \/ d \in x.scope.entries
      BY <2>1, AddGrows
    <2> HIDE DEF x
    <2>3. y = IF r.thrown = "collide" THEN r ELSE x
      BY DEF PutCopy, x
    <2> HIDE DEF y, R
    <2>4. y \in R /\ r.scope.entries \subseteq y.scope.entries
          /\ (y.thrown # "collide" => r.thrown # "collide" /\ (Findable(d) => d \in y.scope.entries))
      BY <2>2, <2>3
    <2>5. i \in 0..n /\ i - 1 \in 0..n /\ \A h \in 1..i : h = i \/ h \in 1..(i - 1)
      BY <1>1
    <2>6. ASSUME r \in G[i - 1], y.thrown # "collide", NEW h \in 1..i, Findable(c[h])
          PROVE  c[h] \in y.scope.entries
      <3>1. CASE h = i
        BY <2>4, <2>6, <3>1 DEF d
      <3>2. CASE h \in 1..(i - 1)
        BY <1>2, <2>4, <2>5, <2>6, <3>2
      <3> QED
        BY <2>5, <3>1, <3>2
    <2>7. r \in G[i - 1] => y \in G[i]
      BY <1>2, <2>4, <2>5, <2>6
    <2> QED
      BY <2>4, <2>7 DEF y, d
  <1>6. start = Inserted(add_namespaces(EmptyScope, scopes[p].namespaces))
    OBVIOUS
  <1> HIDE DEF start, R
  <1>7. set_scope(p) \in R /\ set_scope(p) \in G[n]
    BY <1>1, <1>3, <1>4, <1>5, <1>6, SetScopeReaches
  <1>8. n \in 0..n
    BY <1>1
  <1> QED
    BY <1>2, <1>7, <1>8 DEF R, E

(* link(p), whatever is in the scope before.                               *)
Linking(s, p) == ImportAll(Inserted(s), ImportsOf[p], [q \in Files |-> Cleaned(q)])

LEMMA LinkingHas ==
  ASSUME TypeOK, NEW p \in Files, NEW s \in Scope(Linkable), Tidy(s)
  PROVE  LET x == Linking(s, p)
         IN /\ x \in Grown(Linkable, s.entries)
            /\ x.thrown = "none" =>
                 \A k \in 1..Len(ImportsOf[p]) : Has(x, Cleaned(ImportsOf[p][k]), FALSE)
  <1> DEFINE E == Linkable
             base == s.entries
             files == ImportsOf[p]
             contents == [q \in Files |-> Cleaned(q)]
             sofar == Inserted(s)
  <1>1. files \in Seq(Files) /\ Len(files) \in Nat /\ \A i \in 1..Len(files) : files[i] \in Files
    <2>1. ImportsOf \in [Files -> Seq(Files)]
      BY FilesAssumption
    <2>2. files \in Seq(Files)
      BY <2>1
    <2> HIDE DEF files
    <2> QED
      BY <2>2
  <1>2. sofar \in Grown(E, base)
    BY InsertedIs DEF Grown, Inserted
  <1>3. ASSUME NEW k \in 1..Len(files)
        PROVE  /\ contents[files[k]] = Cleaned(files[k])
               /\ Len(contents[files[k]]) \in Nat /\ NamespacesOf(files[k]) \in SUBSET STRING
               /\ \A i \in 1..Len(contents[files[k]]) :
                    Offered(contents[files[k]][i], FALSE) => Fit(contents[files[k]][i], E)
    <2> DEFINE q == files[k]
               c == Cleaned(q)
    <2>1. q \in Files /\ contents[q] = c
      BY <1>1
    <2> HIDE DEF q
    <2>2. c \in Seq(Left)
      BY <2>1, CleanedIs
    <2> HIDE DEF c
    <2>3. Len(c) \in Nat /\ \A j \in 1..Len(c) : c[j] \in Left
      BY <2>2
    <2>4. \A j \in 1..Len(c) : Fit(c[j], Linkable)
      BY <2>3, LeftFits
    <2>5. NamespacesOf(q) \in SUBSET STRING
      BY <2>1, ProgramIs DEF TypeOK
    <2> QED
      BY <2>1, <2>3, <2>4, <2>5 DEF q, c
  <1>4. Linking(s, p) = ImportAll(sofar, files, contents)
    BY DEF Linking
  <1> HIDE DEF E, base, files, contents, sofar
  <1> DEFINE x == ImportAll(sofar, files, contents)
  <1>5. /\ x \in Grown(E, base)
        /\ x.thrown = "none" => \A k \in 1..Len(files) : Has(x, contents[files[k]], FALSE)
    BY <1>1, <1>2, <1>3, ImportAllHas
  <1> QED
    BY <1>3, <1>4, <1>5 DEF E, base, files

-----------------------------------------------------------------------------
(* What the cleaner leaves of a program: the copies of what it declares, in*)
(* the order of the declarations.                                          *)
LEMMA SetToSeqHas ==
  ASSUME NEW S, IsFiniteSet(S)
  PROVE  LET s == SetToSeq(S)
         IN /\ \A i \in 1..Len(s) : s[i] \in S
            /\ \A x \in S : \E i \in 1..Len(s) : s[i] = x
            /\ \A i, j \in 1..Len(s) : s[i] = s[j] => i = j
  <1> DEFINE n == Cardinality(S)
             s == SetToSeq(S)
  <1>1. n \in Nat /\ ExistsBijection(1..n, S)
    BY FS_CardinalityType
  <1>2. \E f \in [1..n -> S] : IsInjective(f)
    BY <1>1 DEF ExistsBijection, Bijection, Injection
  <1>3. s \in [1..n -> S] /\ IsInjective(s)
    BY <1>2 DEF SetToSeq
  <1> HIDE DEF s
  <1>4. IsFiniteSet(1..n) /\ Cardinality(1..n) = Cardinality(S)
    BY <1>1, FS_Interval
  <1>5. s \in Injection(1..n, S)
    BY <1>3 DEF Injection
  <1>6. s \in Surjection(1..n, S)
    BY <1>4, <1>5, FS_Injection
  <1> HIDE DEF n
  <1>7. Len(s) = n /\ s \in Seq(S)
    BY <1>1, <1>3
  <1>8. \A x \in S : \E i \in 1..n : s[i] = x
    BY <1>6 DEF Surjection
  <1> QED
    BY <1>3, <1>7, <1>8 DEF IsInjective, s

(* What the cleaner makes of one declaration.                              *)
CopyOf(x, d) ==
  \/ d.kind = "type" /\ d.id \in used /\ x = TypeCopy(d)
  \/ d.kind = "function" /\ x \in CopiesOf(d)
  \/ d.kind = "variable" /\ x = d

LEMMA CleanDeclarationHas ==
  ASSUME TypeOK, NEW d \in Declaration, d.kind # "statement"
  PROVE  LET s == CleanDeclaration(d)
         IN /\ s \in Seq(Left)
            /\ \A i \in 1..Len(s) : CopyOf(s[i], d)
            /\ \A x : CopyOf(x, d) => \E i \in 1..Len(s) : s[i] = x
            /\ \A i, j \in 1..Len(s) : s[i] = s[j] => i = j
  <1> DEFINE s == CleanDeclaration(d)
             t == SetToSeq(CopiesOf(d))
  <1>1. s \in Seq(Left)
    BY CleanDeclarationIs
  <1>2. d.kind \in {"type", "function", "variable"}
    BY DEF Declaration, TypeDeclaration, VariableDeclaration, FunctionDeclaration, StatementDeclaration
  <1>3. CASE d.kind = "type"
    <2>1. s = IF d.id \in used THEN <<TypeCopy(d)>> ELSE <<>>
      BY <1>3 DEF CleanDeclaration
    <2> DEFINE x == TypeCopy(d)
    <2>2. \A y : CopyOf(y, d) <=> d.id \in used /\ y = x
      BY <1>3 DEF CopyOf
    <2> HIDE DEF x, s
    <2>3. CASE d.id \in used
      <3>1. Len(s) = 1 /\ s[1] = x
        BY <2>1, <2>3 DEF x
      <3>2. 1..1 = {1}
        OBVIOUS
      <3> QED
        BY <1>1, <2>2, <2>3, <3>1, <3>2 DEF s
    <2>4. CASE d.id \notin used
      <3>1. 1..Len(s) = {}
        BY <2>1, <2>4
      <3> QED
        BY <1>1, <2>2, <2>4, <3>1 DEF s
    <2> QED
      BY <2>3, <2>4
  <1>4. CASE d.kind = "function"
    <2>1. s = t
      BY <1>4 DEF CleanDeclaration
    <2>2. CopiesOf(d) \subseteq copies /\ IsFiniteSet(copies)
      BY DEF CopiesOf, TypeOK
    <2>3. IsFiniteSet(CopiesOf(d))
      BY <2>2, FS_Subset
    <2>4. /\ \A i \in 1..Len(t) : t[i] \in CopiesOf(d)
          /\ \A x \in CopiesOf(d) : \E i \in 1..Len(t) : t[i] = x
          /\ \A i, j \in 1..Len(t) : t[i] = t[j] => i = j
      BY <2>3, SetToSeqHas
    <2>5. \A y : CopyOf(y, d) <=> y \in CopiesOf(d)
      BY <1>4 DEF CopyOf
    <2> HIDE DEF s, t
    <2> QED
      BY <1>1, <2>1, <2>4, <2>5 DEF s
  <1>5. CASE d.kind = "variable"
    <2>1. s = <<d>>
      BY <1>5 DEF CleanDeclaration
    <2>2. \A y : CopyOf(y, d) <=> y = d
      BY <1>5 DEF CopyOf
    <2>3. Len(s) = 1 /\ s[1] = d /\ 1..1 = {1}
      BY <2>1
    <2> HIDE DEF s
    <2> QED
      BY <1>1, <2>2, <2>3 DEF s
  <1> QED
    BY <1>2, <1>3, <1>4, <1>5

(* The first i declarations of p.                                          *)
CopiesUpTo(r, p, i) ==
  /\ \A h \in 1..i : \A x : CopyOf(x, program[p][h]) => \E j \in 1..Len(r) : r[j] = x
  /\ \A j \in 1..Len(r) : \E h \in 1..i : CopyOf(r[j], program[p][h])
  /\ \A j, k \in 1..Len(r) : j < k =>
       \E g, h \in 1..i :
         /\ CopyOf(r[j], program[p][g]) /\ CopyOf(r[k], program[p][h])
         /\ g < h \/ (g = h /\ r[j] # r[k])

LEMMA CleanNextHas ==
  ASSUME TypeOK, NEW p \in Files, ~HasStatement(p), NEW i \in 1..Len(program[p]),
         NEW r \in Seq(Left), CopiesUpTo(r, p, i - 1)
  PROVE  CleanNext(r, p, i) \in Seq(Left) /\ CopiesUpTo(CleanNext(r, p, i), p, i)
  <1> DEFINE d == program[p][i]
             s == CleanDeclaration(d)
             x == r \o s
             m == Len(r)
  <1>1. Len(program[p]) \in Nat /\ DOMAIN program[p] = 1..Len(program[p]) /\ d \in Declaration
    <2>1. /\ program[p] \in Seq(Declaration) /\ Len(program[p]) \in Nat
          /\ \A j \in 1..Len(program[p]) : program[p][j] \in Declaration
      BY ProgramIs DEF TypeOK
    <2>2. DOMAIN program[p] = 1..Len(program[p])
      BY <2>1
    <2> QED
      BY <2>1, <2>2
  <1>2. \A j \in 1..Len(program[p]) : ~IsStatement(program[p][j])
    BY <1>1 DEF HasStatement
  <1>3. d.kind # "statement"
    BY <1>2 DEF IsStatement
  <1>4. ~\E j \in 1..i : IsStatement(program[p][j])
    BY <1>1, <1>2
  <1>5. CleanNext(r, p, i) = x
    BY <1>4 DEF CleanNext
  <1> HIDE DEF d
  <1>6. /\ s \in Seq(Left)
        /\ \A j \in 1..Len(s) : CopyOf(s[j], d)
        /\ \A y : CopyOf(y, d) => \E j \in 1..Len(s) : s[j] = y
        /\ \A j, k \in 1..Len(s) : s[j] = s[k] => j = k
    BY <1>1, <1>3, CleanDeclarationHas
  <1> HIDE DEF s
  <1>7. /\ x \in Seq(Left) /\ Len(x) = m + Len(s) /\ m \in Nat /\ Len(s) \in Nat
        /\ \A j \in 1..m : x[j] = r[j]
        /\ \A j \in 1..Len(s) : x[m + j] = s[j]
    BY <1>6
  <1>17. \A j \in 1..Len(s) : x[m + j] = s[j]
    BY <1>7
  <1> HIDE DEF x, m
  <1>8. \A j \in 1..Len(s) : m + j \in 1..Len(x)
    BY <1>7
  <1>9. ASSUME NEW j \in 1..Len(x), j \notin 1..m
        PROVE  j > m /\ j - m \in 1..Len(s) /\ x[j] = s[j - m]
    <2>1. j > m /\ j - m \in 1..Len(s) /\ m + (j - m) = j
      BY <1>7, <1>9
    <2>2. x[m + (j - m)] = s[j - m]
      BY <1>17, <2>1, Zenon
    <2> QED
      BY <2>1, <2>2
  <1>10. i \in 1..i /\ \A h \in 1..i : h = i \/ h \in 1..(i - 1)
    BY <1>1
  <1>11. \A h \in 1..(i - 1) : h \in 1..i /\ h < i
    BY <1>1
  <1>12. ASSUME NEW h \in 1..i, NEW y, CopyOf(y, program[p][h])
         PROVE  \E j \in 1..Len(x) : x[j] = y
    <2>1. CASE h = i
      <3>1. PICK j \in 1..Len(s) : s[j] = y
        BY <1>6, <1>12, <2>1 DEF d
      <3>2. x[m + j] = s[j] /\ m + j \in 1..Len(x)
        BY <1>8, <1>17, <3>1, Zenon
      <3> QED
        BY <3>1, <3>2
    <2>2. CASE h \in 1..(i - 1)
      <3>1. PICK j \in 1..Len(r) : r[j] = y
        BY <1>12, <2>2 DEF CopiesUpTo
      <3>2. x[j] = y /\ j \in 1..Len(x)
        BY <1>7, <3>1 DEF m
      <3> QED
        BY <3>2
    <2> QED
      BY <1>10, <2>1, <2>2
  <1>13. ASSUME NEW j \in 1..Len(x)
         PROVE  \/ j \in 1..m /\ x[j] = r[j] /\ \E h \in 1..(i - 1) : CopyOf(x[j], program[p][h])
                \/ j > m /\ CopyOf(x[j], program[p][i]) /\ j - m \in 1..Len(s) /\ x[j] = s[j - m]
    <2>1. CASE j \in 1..m
      BY <1>7, <2>1 DEF CopiesUpTo, m
    <2>2. CASE j \notin 1..m
      BY <1>6, <1>9, <2>2 DEF d
    <2> QED
      BY <2>1, <2>2
  <1>14. \A j \in 1..Len(x) : \E h \in 1..i : CopyOf(x[j], program[p][h])
    BY <1>10, <1>11, <1>13
  <1>15. ASSUME NEW j \in 1..Len(x), NEW k \in 1..Len(x), j < k
         PROVE  \E g, h \in 1..i :
                  /\ CopyOf(x[j], program[p][g]) /\ CopyOf(x[k], program[p][h])
                  /\ g < h \/ (g = h /\ x[j] # x[k])
    <2>1. CASE k \in 1..m
      <3>1. j \in 1..m /\ x[j] = r[j] /\ x[k] = r[k]
        BY <1>7, <1>15, <2>1
      <3>2. PICK g \in 1..(i - 1), h \in 1..(i - 1) :
              /\ CopyOf(r[j], program[p][g]) /\ CopyOf(r[k], program[p][h])
              /\ g < h \/ (g = h /\ r[j] # r[k])
        BY <1>15, <2>1, <3>1 DEF CopiesUpTo, m
      <3> QED
        BY <1>11, <3>1, <3>2
    <2>2. CASE j \in 1..m /\ k \notin 1..m
      <3>1. CopyOf(x[k], program[p][i])
        BY <1>13, <2>2
      <3>2. PICK g \in 1..(i - 1) : CopyOf(x[j], program[p][g])
        BY <1>7, <2>2 DEF CopiesUpTo, m
      <3> QED
        BY <1>10, <1>11, <3>1, <3>2
    <2>3. CASE j \notin 1..m /\ k \notin 1..m
      <3>1. CopyOf(x[j], program[p][i]) /\ CopyOf(x[k], program[p][i])
        BY <1>13, <2>3
      <3>2. j - m \in 1..Len(s) /\ k - m \in 1..Len(s) /\ x[j] = s[j - m] /\ x[k] = s[k - m]
        BY <1>9, <2>3
      <3>3. j - m # k - m
        BY <1>7, <1>15
      <3>4. x[j] # x[k]
        BY <1>6, <3>2, <3>3
      <3> QED
        BY <1>10, <3>1, <3>4
    <2> QED
      BY <2>1, <2>2, <2>3
  <1>16. CopiesUpTo(x, p, i)
    BY <1>12, <1>14, <1>15 DEF CopiesUpTo
  <1> QED
    BY <1>5, <1>7, <1>16

LEMMA CleanedHas ==
  ASSUME TypeOK, NEW p \in Files, ~HasStatement(p)
  PROVE  /\ Cleaned(p) \in Seq(Left) /\ Len(Cleaned(p)) \in Nat
         /\ CopiesUpTo(Cleaned(p), p, Len(program[p]))
  <1> DEFINE n == Len(program[p])
             R == Seq(Left)
             G == [i \in 0..n |-> {r \in R : CopiesUpTo(r, p, i)}]
  <1>1. n \in Nat /\ \A i \in 1..n : program[p][i] \in Declaration
    BY ProgramIs DEF TypeOK
  <1>2. \A i \in 0..n : G[i] = {r \in R : CopiesUpTo(r, p, i)}
    OBVIOUS
  <1> HIDE DEF G
  <1>3. <<>> \in R /\ <<>> \in G[0]
    <2>1. 1..0 = {} /\ 1..Len(<<>>) = {} /\ <<>> \in R
      OBVIOUS
    <2>2. CopiesUpTo(<<>>, p, 0)
      BY <2>1 DEF CopiesUpTo
    <2> HIDE DEF R
    <2> QED
      BY <1>1, <1>2, <2>1, <2>2
  <1>4. ASSUME NEW i \in 1..n, NEW r \in R
        PROVE  CleanNext(r, p, i) \in R
    <2> DEFINE d == CleanDeclaration(program[p][i])
    <2>1. d \in Seq(Left)
      BY <1>1, CleanDeclarationIs
    <2>2. r \o d \in Seq(Left)
      <3> HIDE DEF d
      <3> QED
        BY <2>1, JoinedIs
    <2> QED
      BY <2>2 DEF CleanNext
  <1>5. ASSUME NEW i \in 1..n, NEW r \in R, r \in G[i - 1]
        PROVE  CleanNext(r, p, i) \in G[i]
    <2>1. i \in 0..n /\ i - 1 \in 0..n
      BY <1>1
    <2>2. CopiesUpTo(r, p, i - 1)
      BY <1>2, <1>5, <2>1
    <2>3. CleanNext(r, p, i) \in Seq(Left) /\ CopiesUpTo(CleanNext(r, p, i), p, i)
      BY <2>2, CleanNextHas
    <2> QED
      BY <1>2, <2>1, <2>3
  <1> HIDE DEF R
  <1>6. Cleaned(p) \in R /\ Cleaned(p) \in G[n]
    BY <1>1, <1>3, <1>4, <1>5, CleanedReaches
  <1>7. n \in 0..n
    BY <1>1
  <1>8. Cleaned(p) \in Seq(Left) /\ CopiesUpTo(Cleaned(p), p, n)
    BY <1>2, <1>6, <1>7 DEF R
  <1> DEFINE c == Cleaned(p)
  <1> HIDE DEF c
  <1>9. c \in Seq(Left)
    BY <1>8 DEF c
  <1>10. Len(c) \in Nat
    BY <1>9
  <1> QED
    BY <1>8, <1>10 DEF c

-----------------------------------------------------------------------------
(* A copy and the function it is made of.                                  *)
Origin(c) == program[c.id[1]][c.id[2]]

Stems(c, d) ==
  /\ Written(d) /\ d.kind = "function" /\ d.id = c.id
  /\ c.ns = d.ns /\ c.public = d.public
  /\ d.param \in {"a", c.param} /\ c.ret = Bound(d.ret, c.param)
  /\ \/ c.name = d.name \o <<c.param, c.ret>>
     \/ c.name = <<"__main__">> /\ d.name = <<"__main__">>

(* What a use in a body of a function of p stands for: a variable p finds, *)
(* or a copy, one of those made, of a function p finds.                    *)
UseTied(p, u, made) ==
  /\ u.kind = "variable" => \E v \in Entries(scopes[p], "variable", u.ns, u.name) : v.id = u.target
  /\ u.kind = "call" =>
       /\ \E c \in made : c.id = u.target /\ c.ns = u.ns /\ c.name = u.name /\ c.name # <<"__main__">>
       /\ \E f \in scopes[p].entries : f.kind = "function" /\ f.id = u.target
BodyTied(p, body, made) == \A i \in 1..Len(body) : UseTied(p, body[i], made)

FrameTied(g, made) ==
  /\ Written(g.fun) /\ g.arg # "a" /\ g.fun.param \in {"a", g.arg}
  /\ BodyTied(g.fun.id[1], g.body, made)

CopiesTied == \A c \in copies : Stems(c, Origin(c)) /\ BodyTied(c.id[1], c.body, copies)
CopiesDiffer == \A c, e \in copies : c.id = e.id /\ c.name = e.name => c = e
(* The calls being checked: each tied, and found where it is called.       *)
StackTied(stack, made) ==
  \A k \in 1..Len(stack) :
    FrameTied(stack[k], made) /\ (k > 1 => stack[k].fun \in scopes[stack[k - 1].fun.id[1]].entries)
FramesTied == phase = "check" => StackTied(calls, copies)
RunsTied == phase = "run" => \A k \in 1..Len(calls) : calls[k].fun \in copies

Tied == CopiesTied /\ CopiesDiffer /\ FramesTied /\ RunsTied

(* What the cleaner put into a scope, and what the interpreter on top.     *)
Fresh(p) == linked[p] = set_scope(p).scope
Full(p) == linked[p] = Linking(set_scope(p).scope, p).scope /\ Linking(set_scope(p).scope, p).thrown = "none"
Ready(p) == ~HasStatement(p) /\ set_scope(p).thrown # "collide"

Staged ==
  /\ phase = "clean" => (waiting = {} /\ mainFqn = "") \/ \A p \in Files \ waiting : Ready(p) /\ Fresh(p)
  /\ phase = "link" => \A p \in Files : Ready(p) /\ IF p \in waiting THEN Fresh(p) ELSE Full(p)
  /\ phase = "run" => \A p \in Files : Ready(p) /\ Full(p)

LEMMA TiedInit ==
  ASSUME Init
  PROVE  Tied /\ Staged
  <1>1. copies = {} /\ phase = "import"
    BY DEF Init
  <1> QED
    BY <1>1 DEF Tied, CopiesTied, CopiesDiffer, FramesTied, RunsTied, Staged

(* What is tied stays so when copies are added.                            *)
LEMMA MoreTied ==
  ASSUME NEW made, NEW more, made \subseteq more
  PROVE  /\ \A p, body : BodyTied(p, body, made) => BodyTied(p, body, more)
         /\ \A g : FrameTied(g, made) => FrameTied(g, more)
         /\ \A stack : StackTied(stack, made) => StackTied(stack, more)
  <1>1. \A p, u : UseTied(p, u, made) => UseTied(p, u, more)
    BY DEF UseTied
  <1>2. \A p, body : BodyTied(p, body, made) => BodyTied(p, body, more)
    BY <1>1 DEF BodyTied
  <1>3. \A g : FrameTied(g, made) => FrameTied(g, more)
    BY <1>2 DEF FrameTied
  <1> QED
    BY <1>2, <1>3 DEF StackTied

LEMMA CopiesStay ==
  ASSUME program' = program, scopes' = scopes,
         \A c \in copies' : Stems(c, Origin(c)) /\ BodyTied(c.id[1], c.body, copies')
  PROVE  CopiesTied'
  <1>1. \A c \in copies' : Stems(c, Origin(c))'
    BY DEF Stems, Origin, Written, Declares
  <1>2. \A c \in copies' : BodyTied(c.id[1], c.body, copies)'
    BY DEF BodyTied, UseTied, Entries
  <1> QED
    BY <1>1, <1>2 DEF CopiesTied

LEMMA FramesStay ==
  ASSUME program' = program, scopes' = scopes, StackTied(calls', copies')
  PROVE  FramesTied'
  BY DEF FramesTied, StackTied, FrameTied, Written, Declares, BodyTied, UseTied, Entries

LEMMA CheckTied ==
  ASSUME Tied, phase = "check", program' = program, scopes' = scopes, copies' = copies,
         phase' = "check", StackTied(calls', copies)
  PROVE  Tied'
  <1>1. CopiesTied' /\ CopiesDiffer'
    BY CopiesStay DEF Tied, CopiesTied, CopiesDiffer
  <1>2. FramesTied'
    BY FramesStay
  <1>3. RunsTied'
    BY DEF RunsTied
  <1> QED
    BY <1>1, <1>2, <1>3 DEF Tied

LEMMA FunctionWritten ==
  ASSUME Inv, NEW p \in Files, NEW ns, NEW name,
         NEW f \in Entries(scopes[p], "function", ns, name)
  PROVE  /\ f \in FunctionDeclaration /\ Written(f) /\ f \in scopes[p].entries
         /\ f.kind = "function" /\ f.ns = ns /\ f.name = name
  <1>1. f \in FunctionDeclaration
    BY FunctionIs
  <1>2. f \in scopes[p].entries /\ f.kind = "function" /\ f.ns = ns /\ f.name = name
    BY DEF Entries
  <1>3. scopes[p] \in Scope(Visible(p))
    BY DEF Inv, TypeOK
  <1>4. f \in Visible(p)
    BY <1>2, <1>3 DEF Scope
  <1>5. f \notin Constructor
    BY <1>2 DEF Constructor
  <1>6. Written(f)
    BY <1>4, <1>5 DEF Visible
  <1> QED
    BY <1>1, <1>2, <1>6

(* A function is found for an argument that it takes.                      *)
LEMMA FoundFits ==
  /\ \A s, ns, name, arg : \A f \in find_function(s, ns, name, arg) :
       arg # "a" => f.param \in {"a", arg}
  /\ \A s, ns, name, arg, ret : \A f \in find_function_returning(s, ns, name, arg, ret) :
       arg # "a" => f.param \in {"a", arg}
  <1>1. \A candidates, arg : \A f \in fill_duplicates(candidates, arg) :
          arg # "a" => f.param \in {"a", arg}
    BY DEF fill_duplicates, weight, weak_compare
  <1> QED
    BY <1>1 DEF find_function, find_function_returning, ByReturn, Unique

LEMMA FreshFrame ==
  ASSUME NEW f, Written(f), NEW arg, arg # "a", f.param \in {"a", arg}
  PROVE  FrameTied(Frame(f, arg), copies) /\ Frame(f, arg).fun = f
  <1>1. /\ Frame(f, arg).fun = f /\ Frame(f, arg).arg = arg /\ Frame(f, arg).body = <<>>
    BY DEF Frame
  <1>2. 1..Len(<<>>) = {}
    OBVIOUS
  <1> QED
    BY <1>1, <1>2 DEF FrameTied, BodyTied

LEMMA TiedCheckMain ==
  ASSUME Inv, Tied, CheckMain
  PROVE  Tied'
  <1>1. PICK f \in MainFound : calls' = <<Frame(f, "list")>>
    BY DEF CheckMain
  <1>2. /\ phase = "check" /\ phase' = "check" /\ program' = program /\ scopes' = scopes /\ copies' = copies
    BY DEF CheckMain, source, tables, checking
  <1> DEFINE arg == "list"
             g == Frame(f, arg)
  <1>3. f \in Entries(scopes[Main], "function", "*", <<"__main__">>)
    BY FoundIs DEF MainFound
  <1>4. Written(f)
    BY <1>3, MainIs, FunctionWritten
  <1>5. arg # "a" /\ f.param \in {"a", arg}
    BY FoundFits DEF MainFound
  <1>6. calls' = <<g>>
    BY <1>1
  <1> HIDE DEF arg
  <1>7. FrameTied(g, copies)
    BY <1>4, <1>5, FreshFrame
  <1> HIDE DEF g
  <1>8. Len(calls') = 1 /\ calls'[1] = g
    BY <1>6
  <1>9. StackTied(calls', copies)
    BY <1>7, <1>8 DEF StackTied
  <1> QED
    BY <1>2, <1>9, CheckTied

(* A use resolved on the innermost frame.                                  *)
LEMMA WithUseTied ==
  ASSUME NEW stack \in Seq(CheckFrame), Len(stack) > 0, NEW use \in ResolvedUse, NEW made,
         StackTied(stack, made), UseTied(stack[Len(stack)].fun.id[1], use, made)
  PROVE  StackTied(WithUse(stack, use), made)
  <1> DEFINE n == Len(stack)
             after == WithUse(stack, use)
  <1>1. /\ after \in Seq(CheckFrame) /\ Len(after) = n
        /\ \A k \in 1..(n - 1) : after[k] = stack[k]
        /\ after[n].fun = stack[n].fun /\ after[n].arg = stack[n].arg
        /\ after[n].body = Append(stack[n].body, use)
    BY WithUseIs
  <1>2. n \in Nat \ {0}
    OBVIOUS
  <1>3. stack[n].body \in Seq(ResolvedUse)
    <2>1. stack[n] \in CheckFrame
      BY <1>2
    <2> QED
      BY <2>1 DEF CheckFrame
  <1> HIDE DEF after
  <1>4. \A k \in 1..n : after[k].fun = stack[k].fun
    BY <1>1, <1>2
  <1>5. FrameTied(after[n], made)
    <2> DEFINE b == stack[n].body
               p == stack[n].fun.id[1]
    <2>1. b \in Seq(ResolvedUse) /\ Append(b, use) \in Seq(ResolvedUse) /\ Len(b) \in Nat
      BY <1>3
    <2>2. Len(Append(b, use)) = Len(b) + 1
      BY <2>1
    <2>3. Append(b, use)[Len(b) + 1] = use /\ \A i \in 1..Len(b) : Append(b, use)[i] = b[i]
      BY <2>1
    <2>4. FrameTied(stack[n], made)
      BY <1>2 DEF StackTied
    <2>5. \A i \in 1..Len(b) : UseTied(p, b[i], made)
      BY <2>4 DEF FrameTied, BodyTied
    <2> HIDE DEF b
    <2>6. \A i \in 1..(Len(b) + 1) : UseTied(p, Append(b, use)[i], made)
      BY <2>1, <2>3, <2>5
    <2>7. BodyTied(p, Append(b, use), made)
      BY <2>2, <2>6 DEF BodyTied
    <2> QED
      BY <1>1, <2>4, <2>7 DEF FrameTied, b
  <1>6. \A k \in 1..n : FrameTied(after[k], made)
    BY <1>1, <1>2, <1>5 DEF StackTied
  <1>7. ASSUME NEW k \in 1..n, k > 1
        PROVE  after[k].fun \in scopes[after[k - 1].fun.id[1]].entries
    <2>1. k - 1 \in 1..n
      BY <1>2, <1>7
    <2>2. after[k].fun = stack[k].fun /\ after[k - 1].fun = stack[k - 1].fun
      BY <1>4, <2>1
    <2> QED
      BY <1>7, <2>2 DEF StackTied
  <1> QED
    BY <1>1, <1>6, <1>7 DEF StackTied, after

LEMMA TiedResolved ==
  ASSUME Inv, Tied, phase = "check", HasUse, NEW use \in ResolvedUse, Resolved(use),
         UseTied(Top.fun.id[1], use, copies),
         phase' = "check", program' = program, scopes' = scopes, copies' = copies
  PROVE  Tied'
  <1>1. calls # <<>>
    BY DEF HasUse
  <1>2. calls \in Seq(CheckFrame) /\ Len(calls) \in Nat \ {0} /\ Top = calls[Len(calls)]
    BY <1>1, TopIs
  <1>3. calls' = WithUse(calls, use)
    BY DEF Resolved, WithUse
  <1>4. StackTied(calls, copies)
    BY DEF Tied, FramesTied
  <1>5. Len(calls) > 0
    BY <1>2
  <1>6. StackTied(calls', copies)
    BY <1>2, <1>3, <1>4, <1>5, WithUseTied
  <1> QED
    BY <1>6, CheckTied

LEMMA TiedCheckVariable ==
  ASSUME Inv, Tied, CheckVariable
  PROVE  Tied'
  <1>1. PICK v \in VariableUsed :
          Resolved([kind |-> "variable", ns |-> Use.ns, name |-> v.name, target |-> v.id])
    BY DEF CheckVariable
  <1>2. /\ phase = "check" /\ phase' = "check" /\ program' = program /\ scopes' = scopes
        /\ copies' = copies /\ HasUse /\ calls # <<>>
    BY DEF CheckVariable, source, tables, checking, HasUse
  <1>3. Top.fun.id[1] \in Files /\ Use.ns \in STRING
    BY <1>2, TopIs
  <1>4. v \in VariableDeclaration
    BY <1>3, EntryIs DEF VariableUsed, ScopeOf, Inv
  <1>5. v \in Entries(scopes[Top.fun.id[1]], "variable", Use.ns, v.name)
    BY DEF VariableUsed, ScopeOf, Entries
  <1> DEFINE use == [kind |-> "variable", ns |-> Use.ns, name |-> v.name, target |-> v.id]
  <1>6. use \in ResolvedUse
    BY <1>3, <1>4 DEF VariableDeclaration, ResolvedUse
  <1>7. Resolved(use) /\ use.kind = "variable" /\ use.ns = Use.ns /\ use.name = v.name /\ use.target = v.id
    BY <1>1
  <1> HIDE DEF use
  <1>8. UseTied(Top.fun.id[1], use, copies)
    BY <1>5, <1>7 DEF UseTied
  <1> QED
    BY <1>2, <1>6, <1>7, <1>8, TiedResolved

LEMMA TiedCheckConstructor ==
  ASSUME Inv, Tied, CheckConstructor
  PROVE  Tied'
  <1>1. PICK c \in ConstructorUsed :
          Resolved([kind |-> "constructor", ns |-> c.ns, name |-> c.name, target |-> c.type])
    BY DEF CheckConstructor
  <1>2. /\ phase = "check" /\ phase' = "check" /\ program' = program /\ scopes' = scopes
        /\ copies' = copies /\ HasUse /\ calls # <<>>
    BY DEF CheckConstructor, source, tables, checking, HasUse
  <1>3. Top.fun.id[1] \in Files
    BY <1>2, TopIs
  <1>4. \E ns : c \in Entries(scopes[Top.fun.id[1]], "constructor", ns, Use.name)
    BY DEF ConstructorUsed, ConstructorsIn, ScopeOf
  <1>5. c \in Constructor
    BY <1>3, <1>4, EntryIs DEF Inv
  <1> DEFINE use == [kind |-> "constructor", ns |-> c.ns, name |-> c.name, target |-> c.type]
  <1>6. use \in ResolvedUse
    BY <1>5 DEF Constructor, ResolvedUse
  <1>7. Resolved(use) /\ use.kind = "constructor"
    BY <1>1
  <1> HIDE DEF use
  <1>8. UseTied(Top.fun.id[1], use, copies)
    BY <1>7 DEF UseTied
  <1> QED
    BY <1>2, <1>6, <1>7, <1>8, TiedResolved

LEMMA TiedCheckCall ==
  ASSUME Inv, Tied, CheckCall
  PROVE  Tied'
  <1> DEFINE arg == Bound(Use.arg, Top.arg)
             p == Top.fun.id[1]
             n == Len(calls)
  <1>1. PICK f \in CalleeFound : calls' = Append(calls, Frame(f, arg))
    BY DEF CheckCall
  <1>2. /\ phase = "check" /\ phase' = "check" /\ program' = program /\ scopes' = scopes
        /\ copies' = copies /\ HasUse /\ calls # <<>>
    BY DEF CheckCall, source, tables, checking, HasUse
  <1>3. /\ calls \in Seq(CheckFrame) /\ n \in Nat \ {0} /\ Top = calls[n] /\ p \in Files /\ Top \in CheckFrame
        /\ Use.kind = "call" => Use.arg \in Tokens
    BY <1>2, TopIs
  <1>4. StackTied(calls, copies)
    BY <1>2 DEF Tied, FramesTied
  <1>5. FrameTied(Top, copies)
    BY <1>3, <1>4 DEF StackTied
  <1>6. arg # "a"
    BY <1>5 DEF Bound, FrameTied
  <1>7. arg \in Tokens
    BY <1>2, <1>3 DEF Bound, CheckFrame, CheckCall
  <1> DEFINE ns == CalleeNs
             name == Use.name
             s == ScopeOf(Top.fun)
  <1>8. f \in find_function(s, ns, name, arg) /\ s = scopes[p]
    BY DEF CalleeFound, ScopeOf
  <1> HIDE DEF arg, ns, name, s, p
  <1>9. f \in Entries(scopes[p], "function", ns, name) /\ f.param \in {"a", arg}
    BY <1>6, <1>8, FoundIs, FoundFits
  <1>10. f \in FunctionDeclaration /\ Written(f) /\ f \in scopes[p].entries
    BY <1>3, <1>9, FunctionWritten
  <1> DEFINE g == Frame(f, arg)
  <1>11. FrameTied(g, copies) /\ g.fun = f
    BY <1>6, <1>9, <1>10, FreshFrame
  <1>12. g \in CheckFrame
    BY <1>7, <1>10, FrameIs
  <1>13. calls' = Append(calls, g)
    BY <1>1
  <1> HIDE DEF g
  <1>14. Len(calls') = n + 1 /\ calls'[n + 1] = g /\ \A k \in 1..n : calls'[k] = calls[k]
    BY <1>3, <1>12, <1>13
  <1>15. ASSUME NEW k \in 1..(n + 1)
         PROVE  FrameTied(calls'[k], copies) /\ (k > 1 => calls'[k].fun \in scopes[calls'[k - 1].fun.id[1]].entries)
    <2>1. CASE k = n + 1
      <3>1. calls'[k] = g /\ calls'[k - 1] = Top
        BY <1>3, <1>14, <2>1
      <3> QED
        BY <1>10, <1>11, <3>1 DEF p
    <2>2. CASE k # n + 1
      <3>1. k \in 1..n /\ (k > 1 => k - 1 \in 1..n)
        BY <1>3, <2>2
      <3>2. calls'[k] = calls[k] /\ (k > 1 => calls'[k - 1] = calls[k - 1])
        BY <1>14, <3>1
      <3> QED
        BY <1>4, <3>1, <3>2 DEF StackTied
    <2> QED
      BY <2>1, <2>2
  <1>16. StackTied(calls', copies)
    BY <1>14, <1>15 DEF StackTied
  <1> QED
    BY <1>2, <1>16, CheckTied

(* What the copy of the innermost frame holds.                             *)
LEMMA CopyIs ==
  ASSUME Inv, Tied, phase = "check", calls # <<>>
  PROVE  /\ Stems(Copy(Top, CopyName), Top.fun)
         /\ BodyTied(Top.fun.id[1], Copy(Top, CopyName).body, copies)
         /\ Origin(Copy(Top, CopyName)) = Top.fun
         /\ Len(calls) = 1 => CopyName = <<"__main__">>
  <1> DEFINE f == Top.fun
             arg == Top.arg
             ret == Bound(f.ret, arg)
             name == CopyName
             body == Top.body
             c == [f EXCEPT !.name = name, !.param = arg, !.ret = ret, !.body = body]
  <1>1. /\ Top \in CheckFrame /\ Top = calls[Len(calls)] /\ Len(calls) \in Nat \ {0}
        /\ calls[1].fun \in MainFound
    BY TopIs
  <1>2. f \in FunctionDeclaration
    BY <1>1 DEF CheckFrame
  <1>3. FrameTied(Top, copies)
    BY <1>1 DEF Tied, FramesTied, StackTied
  <1>4. Copy(Top, name) = c
    BY <1>2 DEF Copy, FunctionDeclaration
  <1>5. name = IF Len(calls) = 1 THEN f.name ELSE f.name \o <<arg, ret>>
    BY DEF CopyName, Mangled
  <1>6. ASSUME Len(calls) = 1
        PROVE  f.name = <<"__main__">>
    <2>1. f \in MainFound
      BY <1>1, <1>6
    <2> DEFINE main == <<"__main__">>
               kind == "function"
    <2>2. f \in Entries(scopes[Main], kind, "*", main)
      BY <2>1, FoundIs DEF MainFound
    <2> HIDE DEF main
    <2>3. f.name = main
      BY <2>2 DEF Entries
    <2> QED
      BY <2>3 DEF main
  <1>7. /\ Written(f) /\ f.param \in {"a", arg} /\ BodyTied(f.id[1], body, copies) /\ f.kind = "function"
    BY <1>2, <1>3 DEF FrameTied, FunctionDeclaration
  <1> HIDE DEF f, arg, ret, name, body
  <1>8. /\ c.name = name /\ c.param = arg /\ c.ret = ret /\ c.body = body
        /\ c.id = f.id /\ c.ns = f.ns /\ c.public = f.public
    BY <1>2 DEF FunctionDeclaration
  <1> HIDE DEF c
  <1>9. \/ c.name = f.name \o <<c.param, c.ret>>
        \/ c.name = <<"__main__">> /\ f.name = <<"__main__">>
    <2>1. CASE Len(calls) = 1
      BY <1>5, <1>6, <1>8, <2>1
    <2>2. CASE Len(calls) # 1
      BY <1>5, <1>8, <2>2
    <2> QED
      BY <2>1, <2>2
  <1>10. c.ret = Bound(f.ret, c.param)
    BY <1>8 DEF ret
  <1>11. Stems(c, f)
    BY <1>7, <1>8, <1>9, <1>10 DEF Stems
  <1>12. Origin(c) = f
    BY <1>7, <1>8 DEF Origin, Written, Declares
  <1> QED
    BY <1>4, <1>5, <1>6, <1>7, <1>8, <1>11, <1>12 DEF f, name, body

LEMMA TiedCopyAdded ==
  ASSUME Inv, Tied, phase = "check", calls # <<>>, copies' = add_specialization,
         program' = program, scopes' = scopes
  PROVE  /\ copies \subseteq copies' /\ CopiesTied' /\ CopiesDiffer'
         /\ \E c \in copies' : c.id = Top.fun.id /\ c.name = CopyName /\ c.ns = Top.fun.ns
  <1> DEFINE d == Copy(Top, CopyName)
             p == Top.fun.id[1]
  <1>1. /\ Stems(d, Top.fun) /\ BodyTied(p, d.body, copies) /\ Origin(d) = Top.fun
    BY CopyIs
  <1>2. d.name = CopyName /\ d.id = Top.fun.id
    BY NameIs
  <1>3. copies' = IF \E c \in copies : c.id = Top.fun.id /\ c.name = CopyName THEN copies ELSE copies \cup {d}
    BY DEF add_specialization
  <1>4. d.ns = Top.fun.ns /\ d.id[1] = p
    BY <1>1, <1>2 DEF Stems
  <1> HIDE DEF d
  <1>5. copies \subseteq copies'
    BY <1>3
  <1>6. \A c \in copies' : Stems(c, Origin(c)) /\ BodyTied(c.id[1], c.body, copies)
    BY <1>1, <1>3, <1>4 DEF Tied, CopiesTied
  <1>7. CopiesTied'
    BY <1>5, <1>6, MoreTied, CopiesStay
  <1>8. CopiesDiffer'
    BY <1>2, <1>3 DEF Tied, CopiesDiffer
  <1>9. \E c \in copies' : c.id = Top.fun.id /\ c.name = CopyName /\ c.ns = Top.fun.ns
    <2>1. CASE \E c \in copies : c.id = Top.fun.id /\ c.name = CopyName
      <3>1. PICK c \in copies : c.id = Top.fun.id /\ c.name = CopyName
        BY <2>1
      <3>2. Origin(c) = Top.fun
        BY <1>1, <1>2, <3>1 DEF Origin
      <3>3. c.ns = Top.fun.ns
        BY <3>2 DEF Tied, CopiesTied, Stems
      <3> QED
        BY <1>5, <3>1, <3>3
    <2>2. CASE ~\E c \in copies : c.id = Top.fun.id /\ c.name = CopyName
      BY <1>2, <1>3, <1>4, <2>2
    <2> QED
      BY <2>1, <2>2
  <1> QED
    BY <1>5, <1>7, <1>8, <1>9

(* Once copies are there, what happens to other parts does no harm.        *)
LEMMA LaterTied ==
  ASSUME Tied, program' = program, scopes' = scopes, copies' = copies, phase' # "check",
         phase' = "run" => \A k \in 1..Len(calls') : calls'[k].fun \in copies
  PROVE  Tied'
  <1>1. CopiesTied' /\ CopiesDiffer'
    BY CopiesStay DEF Tied, CopiesTied, CopiesDiffer
  <1>2. FramesTied' /\ RunsTied'
    BY DEF FramesTied, RunsTied
  <1> QED
    BY <1>1, <1>2 DEF Tied

LEMMA TiedCheckReturns ==
  ASSUME Inv, Tied, CheckReturns
  PROVE  Tied'
  <1>1. /\ phase = "check" /\ program' = program /\ scopes' = scopes /\ calls # <<>>
        /\ copies' = add_specialization
    BY DEF CheckReturns, source, tables
  <1>2. calls \in Seq(CheckFrame) /\ Len(calls) \in Nat \ {0} /\ Top = calls[Len(calls)] /\ Top \in CheckFrame
    BY <1>1, TopIs
  <1>3. /\ copies \subseteq copies' /\ CopiesTied' /\ CopiesDiffer'
        /\ \E c \in copies' : c.id = Top.fun.id /\ c.name = CopyName /\ c.ns = Top.fun.ns
    BY <1>1, TiedCopyAdded
  <1>4. StackTied(calls, copies')
    BY <1>1, <1>3, MoreTied DEF Tied, FramesTied
  <1>6. CASE Len(calls) > 1
    <2> DEFINE before == Front(calls)
               n == Len(before)
    <2>1. /\ before \in Seq(CheckFrame) /\ n = Len(calls) - 1
          /\ \A k \in 1..(Len(calls) - 1) : before[k] = calls[k]
      BY <1>2, <1>6, FrontIs
    <2>2. calls' = WithUse(before, Callee) /\ phase' = "check"
      BY <1>1, <1>6, <2>1 DEF CheckReturns, WithUse
    <2>3. Top.fun \in FunctionDeclaration /\ CopyName \in Names /\ CopyName # <<"__main__">>
      BY <1>1, <1>2, <1>6, NameIs DEF CheckFrame
    <2>4. Callee \in ResolvedUse /\ Callee.kind = "call" /\ Callee.target = Top.fun.id
          /\ Callee.ns = Top.fun.ns /\ Callee.name = CopyName
      BY <2>3 DEF Callee, ResolvedUse, FunctionDeclaration
    <2> HIDE DEF before
    <2>5. n \in 1..(Len(calls) - 1) /\ n \in Nat /\ n > 0
      BY <1>2, <1>6, <2>1
    <2>6. Top.fun \in scopes[before[n].fun.id[1]].entries /\ Top.fun.kind = "function"
      <3>1. Len(calls) > 1 /\ Len(calls) \in 1..Len(calls) /\ Len(calls) - 1 = n
        BY <1>2, <1>6, <2>1
      <3>2. calls[Len(calls)].fun \in scopes[calls[Len(calls) - 1].fun.id[1]].entries
        BY <1>4, <3>1 DEF StackTied
      <3>3. before[n] = calls[n]
        BY <2>1, <2>5
      <3> QED
        BY <1>2, <2>3, <3>1, <3>2, <3>3 DEF FunctionDeclaration
    <2> DEFINE after == WithUse(before, Callee)
               p == before[n].fun.id[1]
    <2>7. /\ after \in Seq(CheckFrame) /\ Len(after) = n
          /\ \A k \in 1..(n - 1) : after[k] = before[k]
          /\ after[n].fun = before[n].fun /\ after[n].arg = before[n].arg
          /\ after[n].body = Append(before[n].body, Callee)
      BY <2>1, <2>4, <2>5, WithUseIs
    <2> HIDE DEF after
    <2>8. UseTied(p, Callee, copies')
      <3>1. \E c \in copies' : c.id = Callee.target /\ c.ns = Callee.ns /\ c.name = Callee.name /\ c.name # <<"__main__">>
        BY <1>3, <2>3, <2>4
      <3>2. \E f \in scopes[p].entries : f.kind = "function" /\ f.id = Callee.target
        BY <2>4, <2>6
      <3> QED
        BY <2>4, <3>1, <3>2 DEF UseTied
    <2>9. StackTied(before, copies')
      <3>1. ASSUME NEW k \in 1..n
            PROVE  /\ FrameTied(before[k], copies')
                   /\ k > 1 => before[k].fun \in scopes[before[k - 1].fun.id[1]].entries
        <4>1. k \in 1..Len(calls) /\ before[k] = calls[k] /\ (k > 1 => before[k - 1] = calls[k - 1])
          BY <1>2, <2>1
        <4> QED
          BY <1>4, <4>1 DEF StackTied
      <3> QED
        BY <3>1 DEF StackTied
    <2>10. StackTied(calls', copies')
      BY <2>1, <2>2, <2>4, <2>5, <2>8, <2>9, WithUseTied
    <2>11. FramesTied' /\ RunsTied'
      BY <1>1, <2>2, <2>10, FramesStay DEF RunsTied
    <2> QED
      BY <1>3, <2>11 DEF Tied
  <1>7. CASE Len(calls) = 1
    <2>1. phase' = "clean"
      BY <1>7 DEF CheckReturns, GoOn
    <2> QED
      BY <1>3, <2>1 DEF Tied, FramesTied, RunsTied
  <1>8. Len(calls) > 1 \/ Len(calls) = 1
    <2> DEFINE n == Len(calls)
    <2>1. n \in Nat \ {0}
      BY <1>2
    <2> HIDE DEF n
    <2>2. n > 1 \/ n = 1
      BY <2>1
    <2> QED
      BY <2>2 DEF n
  <1> QED
    BY <1>6, <1>7, <1>8

LEMMA TiedImport ==
  ASSUME Inv, ImportProgram \/ ImportRefused \/ ImportDone
  PROVE  Tied'
  <1>1. calls' = calls /\ copies' = copies /\ phase' \in {"import", "check"}
    BY DEF ImportProgram, ImportRefused, ImportDone, GoOn, checking, Inv, TypeOK
  <1>2. phase = "import"
    BY DEF ImportProgram, ImportRefused, ImportDone
  <1>3. calls = <<>> /\ copies = {}
    BY <1>2 DEF Inv, TypeOK, ScopesInOrder
  <1>4. 1..Len(calls') = {}
    BY <1>1, <1>3
  <1> QED
    BY <1>1, <1>3, <1>4 DEF Tied, CopiesTied, CopiesDiffer, FramesTied, StackTied, RunsTied

LEMMA TiedRun ==
  ASSUME Inv, Tied, RunUse \/ RunCall \/ RunReturns
  PROVE  Tied'
  <1>1. /\ program' = program /\ scopes' = scopes /\ copies' = copies
        /\ phase = "run" /\ phase' # "check" /\ calls # <<>>
    BY DEF RunUse, RunCall, RunReturns, HasUse, End, source, tables, checking
  <1>2. TypeOK /\ calls \in Seq(RunFrame) /\ \A k \in 1..Len(calls) : calls[k].fun \in copies
    BY <1>1 DEF Inv, TypeOK, Tied, RunsTied
  <1>3. /\ Stepped \in Seq(RunFrame) /\ Len(Stepped) = Len(calls) /\ Len(calls) \in Nat \ {0}
        /\ \A k \in 1..Len(calls) : Stepped[k].fun = calls[k].fun
    BY <1>1, <1>2, SteppedIs
  <1>4. CASE RunUse
    <2>1. calls' = Stepped
      BY <1>4 DEF RunUse, Stepped
    <2> QED
      BY <1>1, <1>2, <1>3, <2>1, LaterTied
  <1>5. CASE RunCall
    <2>1. PICK f \in Meant(Use) : calls' = Append(Stepped, Running(f))
      BY <1>5 DEF RunCall, Stepped
    <2> DEFINE p == Top.fun.id[1]
               ns == Use.ns
               name == Use.name
               n == Len(calls)
    <2>2. f \in get_function(linked[p], ns, name)
      BY <1>5, <2>1 DEF RunCall, Meant, LinkedScope
    <2>3. p \in Files
      <3>1. Top = calls[n]
        BY DEF Top, Last
      <3>2. calls \in Seq(RunFrame) /\ n \in Nat \ {0} /\ n = Len(calls)
        BY <1>2, <1>3
      <3> HIDE DEF n
      <3>3. n \in 1..n
        BY <3>2
      <3>4. calls[n] \in RunFrame
        BY <3>2, <3>3
      <3> QED
        BY <3>1, <3>4 DEF RunFrame, FunctionCopy, Places
    <2> HIDE DEF p, ns, name
    <2>4. f \in copies /\ f \in FunctionCopy
      BY <1>2, <2>2, <2>3, CopyFound
    <2> DEFINE g == Running(f)
    <2>5. g \in RunFrame /\ g.fun = f
      BY <2>4, RunningIs
    <2> HIDE DEF g
    <2>6. calls' = Append(Stepped, g)
      BY <2>1 DEF g
    <2> HIDE DEF n
    <2>7. Len(calls') = n + 1 /\ calls'[n + 1] = g /\ n \in Nat
          /\ \A k \in 1..n : calls'[k] = Stepped[k]
      BY <1>3, <2>5, <2>6 DEF n
    <2>8. \A k \in 1..(n + 1) : k = n + 1 \/ k \in 1..n
      BY <2>7
    <2>9. \A k \in 1..Len(calls') : calls'[k].fun \in copies
      BY <1>2, <1>3, <2>4, <2>5, <2>7, <2>8 DEF n
    <2> QED
      BY <1>1, <2>9, LaterTied
  <1>6. CASE RunReturns
    <2>1. calls' = Front(calls)
      BY <1>6 DEF RunReturns
    <2>2. CASE Len(calls) = 1
      <3>1. phase' = "ended"
        BY <1>6, <2>2 DEF RunReturns, End
      <3> QED
        BY <1>1, <3>1, LaterTied
    <2>3. CASE Len(calls) > 1
      <3>1. Len(Front(calls)) = Len(calls) - 1 /\ \A k \in 1..(Len(calls) - 1) : Front(calls)[k] = calls[k]
        BY <1>2, <2>3, FrontIs
      <3>2. \A k \in 1..(Len(calls) - 1) : k \in 1..Len(calls)
        BY <1>3
      <3>3. \A k \in 1..Len(calls') : calls'[k].fun \in copies
        BY <1>2, <2>1, <3>1, <3>2
      <3> QED
        BY <1>1, <3>3, LaterTied
    <2> DEFINE n == Len(calls)
    <2>4. n \in Nat \ {0}
      BY <1>3
    <2>5. n = 1 \/ n > 1
      <3> HIDE DEF n
      <3> QED
        BY <2>4
    <2> QED
      BY <2>2, <2>3, <2>5
  <1> QED
    BY <1>4, <1>5, <1>6

LEMMA TiedStart ==
  ASSUME Inv, Tied, StartMain
  PROVE  Tied'
  <1> DEFINE name == <<"__main__">>
             ns == "*"
  <1>1. PICK f \in get_function(linked[mainFqn], ns, name) : calls' = <<Running(f)>>
    BY DEF StartMain
  <1>2. /\ program' = program /\ scopes' = scopes /\ copies' = copies /\ phase = "link" /\ phase' = "run"
    BY DEF StartMain, GoOn, source, tables, checking
  <1>3. TypeOK /\ mainFqn \in Files
    BY <1>2 DEF Inv, TypeOK, ScopesInOrder
  <1> HIDE DEF name, ns
  <1>4. f \in copies /\ f \in FunctionCopy
    BY <1>1, <1>3, CopyFound
  <1> DEFINE g == Running(f)
  <1>5. g.fun = f /\ calls' = <<g>>
    BY <1>1, <1>4, RunningIs
  <1> HIDE DEF g
  <1>6. Len(calls') = 1 /\ calls'[1] = g
    BY <1>5
  <1>7. \A k \in 1..Len(calls') : calls'[k].fun \in copies
    BY <1>4, <1>5, <1>6
  <1> QED
    BY <1>2, <1>7, LaterTied

LEMMA TiedNext ==
  ASSUME Inv, Tied, [Next]_vars
  PROVE  Tied'
  <1>1. CASE ImportProgram \/ ImportRefused \/ ImportDone
    BY <1>1, TiedImport
  <1>2. CASE CheckMain \/ CheckVariable \/ CheckConstructor \/ CheckCall \/ CheckReturns
    BY <1>2, TiedCheckMain, TiedCheckVariable, TiedCheckConstructor, TiedCheckCall, TiedCheckReturns
  <1>3. CASE MainMissing \/ NotFound
    <2>1. /\ program' = program /\ scopes' = scopes /\ copies' = copies /\ phase' = "clean"
      BY <1>3 DEF MainMissing, NotFound, CheckFails, GoOn, source, tables, checking
    <2> QED
      BY <2>1, LaterTied
  <1>4. CASE \E p \in Files : CleanProgram(p) \/ CleanAborts(p) \/ StatementFound(p)
    <2>1. /\ program' = program /\ scopes' = scopes /\ copies' = copies /\ phase' \in {"clean", "ended"}
      BY <1>4 DEF CleanProgram, CleanAborts, StatementFound, Cleaning, End, source, tables, checking
    <2> QED
      BY <2>1, LaterTied
  <1>5. CASE CleanDone \/ MainProgramMissing \/ MainNotThere
    <2>1. /\ program' = program /\ scopes' = scopes /\ copies' = copies /\ phase' \in {"link", "ended"}
      BY <1>5 DEF CleanDone, MainProgramMissing, MainNotThere, End, GoOn, source, tables, checking
    <2> QED
      BY <2>1, LaterTied
  <1>6. CASE \E p \in Files : LinkProgram(p) \/ LinkFails(p)
    <2>1. /\ program' = program /\ scopes' = scopes /\ copies' = copies /\ phase' \in {"link", "ended"}
      BY <1>6 DEF LinkProgram, LinkFails, End, source, tables, checking
    <2> QED
      BY <2>1, LaterTied
  <1>7. CASE StartMain
    BY <1>7, TiedStart
  <1>8. CASE RunUse \/ RunCall \/ RunReturns
    BY <1>8, TiedRun
  <1>9. CASE UNCHANGED vars
    <2>1. /\ program' = program /\ phase' = phase /\ scopes' = scopes /\ copies' = copies /\ calls' = calls
      BY <1>9 DEF vars, source, tables, checking
    <2>2. CopiesTied' /\ CopiesDiffer' /\ RunsTied'
      BY <2>1, CopiesStay DEF Tied, CopiesTied, CopiesDiffer, RunsTied
    <2>3. FramesTied'
      <3>1. CASE phase = "check"
        BY <2>1, <3>1, FramesStay DEF Tied, FramesTied
      <3>2. CASE phase # "check"
        BY <2>1, <3>2 DEF FramesTied
      <3> QED
        BY <3>1, <3>2
    <2> QED
      BY <2>2, <2>3 DEF Tied
  <1> QED
    BY <1>1, <1>2, <1>3, <1>4, <1>5, <1>6, <1>7, <1>8, <1>9 DEF Next

-----------------------------------------------------------------------------
(* The scopes of the cleaned programs, one after the other.                *)
SameSource == program' = program /\ scopes' = scopes /\ copies' = copies /\ used' = used

LEMMA CleanedStays ==
  ASSUME SameSource
  PROVE  /\ \A p : HasStatement(p)' <=> HasStatement(p)
         /\ \A p : Cleaned(p)' = Cleaned(p)
         /\ \A p : set_scope(p)' = set_scope(p)
  <1>1. \A d : CleanDeclaration(d)' = CleanDeclaration(d)
    BY DEF SameSource, CleanDeclaration, CopiesOf
  <1>2. \A p : Cleaned(p)' = Cleaned(p)
    BY <1>1 DEF SameSource, Cleaned, CleanNext
  <1>3. \A p : set_scope(p)' = set_scope(p)
    BY <1>2 DEF SameSource, set_scope
  <1> QED
    BY <1>2, <1>3 DEF SameSource, HasStatement

LEMMA StagesStay ==
  ASSUME SameSource
  PROVE  /\ \A p : Ready(p)' <=> Ready(p)
         /\ \A p : linked'[p] = linked[p] => (Fresh(p)' <=> Fresh(p)) /\ (Full(p)' <=> Full(p))
         /\ \A p : linked'[p] = set_scope(p).scope => Fresh(p)'
         /\ \A p : linked'[p] = Linking(set_scope(p).scope, p).scope /\ Linking(set_scope(p).scope, p).thrown = "none" => Full(p)'
  <1>1. \A p : set_scope(p)' = set_scope(p)
    BY CleanedStays
  <1>2. \A p : Linking(set_scope(p).scope, p)' = Linking(set_scope(p).scope, p)
    <2>1. program' = program /\ scopes' = scopes /\ copies' = copies /\ used' = used
      BY DEF SameSource
    <2> QED
      BY <2>1 DEF Linking, ImportAll, Import, NamespacesOf, set_scope, Cleaned, CleanNext, CleanDeclaration, CopiesOf
  <1>3. \A p : Ready(p)' <=> Ready(p)
    BY <1>1, CleanedStays DEF Ready
  <1> QED
    BY <1>1, <1>2, <1>3 DEF Fresh, Full

LEMMA StagedClean ==
  ASSUME Inv, Staged, NEW p \in Files, CleanProgram(p) \/ StatementFound(p)
  PROVE  Staged'
  <1>1. /\ SameSource /\ phase = "clean" /\ phase' = phase /\ p \in waiting
    BY DEF CleanProgram, StatementFound, Cleaning, SameSource, source, tables, checking
  <1>2. CASE CleanProgram(p)
    <2>1. /\ Ready(p) /\ linked' = [linked EXCEPT ![p] = set_scope(p).scope] /\ waiting' = waiting \ {p}
      BY <1>2 DEF CleanProgram, Ready
    <2>2. \A q \in Files \ waiting : Ready(q) /\ Fresh(q)
      BY <1>1 DEF Staged
    <2>3. linked \in [Files -> Scope(Linkable)]
      BY DEF Inv, TypeOK
    <2>4. linked'[p] = set_scope(p).scope /\ \A q \in Files : q # p => linked'[q] = linked[q]
      BY <2>1, <2>3
    <2>5. ASSUME NEW q \in Files \ waiting'
          PROVE  Ready(q)' /\ Fresh(q)'
      <3>1. CASE q = p
        BY <1>1, <2>1, <2>4, <3>1, StagesStay
      <3>2. CASE q # p
        <4>1. q \in Files \ waiting /\ linked'[q] = linked[q]
          BY <2>1, <2>4, <3>2
        <4> QED
          BY <1>1, <2>2, <4>1, StagesStay
      <3> QED
        BY <3>1, <3>2
    <2> QED
      BY <1>1, <2>5 DEF Staged
  <1>3. CASE StatementFound(p)
    <2>1. waiting' = {} /\ mainFqn' = ""
      BY <1>3 DEF StatementFound
    <2> QED
      BY <1>1, <2>1 DEF Staged
  <1> QED
    BY <1>2, <1>3

LEMMA StagedCleanDone ==
  ASSUME Staged, CleanDone
  PROVE  Staged'
  <1>1. /\ SameSource /\ phase = "clean" /\ phase' = "link" /\ waiting = {} /\ mainFqn # ""
        /\ linked' = linked /\ waiting' = Files
    BY DEF CleanDone, GoOn, SameSource, source, tables, checking, cleaning
  <1>2. \A p \in Files : Ready(p) /\ Fresh(p)
    BY <1>1 DEF Staged
  <1>3. \A p \in Files : Ready(p)' /\ Fresh(p)'
    BY <1>1, <1>2, StagesStay
  <1> QED
    BY <1>1, <1>3 DEF Staged

LEMMA StagedLink ==
  ASSUME Inv, Staged, NEW p \in Files, LinkProgram(p)
  PROVE  Staged'
  <1>1. /\ SameSource /\ phase = "link" /\ phase' = phase /\ p \in waiting /\ link(p).thrown = "none"
        /\ linked' = [linked EXCEPT ![p] = link(p).scope] /\ waiting' = waiting \ {p}
    BY DEF LinkProgram, SameSource, source, tables, checking
  <1>2. \A q \in Files : Ready(q) /\ IF q \in waiting THEN Fresh(q) ELSE Full(q)
    BY <1>1 DEF Staged
  <1>3. linked \in [Files -> Scope(Linkable)]
    BY DEF Inv, TypeOK
  <1>4. linked'[p] = link(p).scope /\ \A q \in Files : q # p => linked'[q] = linked[q]
    BY <1>1, <1>3
  <1>5. link(p) = Linking(set_scope(p).scope, p)
    BY <1>1, <1>2 DEF link, Linking, Fresh
  <1>6. ASSUME NEW q \in Files
        PROVE  Ready(q)' /\ IF q \in waiting' THEN Fresh(q)' ELSE Full(q)'
    <2>1. Ready(q)'
      BY <1>1, <1>2, StagesStay
    <2>2. CASE q = p
      BY <1>1, <1>4, <1>5, <2>1, <2>2, StagesStay
    <2>3. CASE q # p
      <3>1. linked'[q] = linked[q] /\ (q \in waiting' <=> q \in waiting)
        BY <1>1, <1>4, <2>3
      <3> QED
        BY <1>1, <1>2, <2>1, <3>1, StagesStay
    <2> QED
      BY <2>2, <2>3
  <1> QED
    BY <1>1, <1>6 DEF Staged

LEMMA StagedStart ==
  ASSUME Staged, StartMain
  PROVE  Staged'
  <1>1. SameSource /\ phase = "link" /\ phase' = "run" /\ linked' = linked /\ waiting = {}
    BY DEF StartMain, GoOn, SameSource, source, tables, checking, cleaning
  <1>2. \A p \in Files : Ready(p) /\ Full(p)
    BY <1>1 DEF Staged
  <1>3. \A p \in Files : Ready(p)' /\ Full(p)'
    BY <1>1, <1>2, StagesStay
  <1> QED
    BY <1>1, <1>3 DEF Staged

LEMMA StagedRun ==
  ASSUME Staged, RunUse \/ RunCall \/ RunReturns
  PROVE  Staged'
  <1>1. SameSource /\ phase = "run" /\ phase' \in {"run", "ended"} /\ linked' = linked
    BY DEF RunUse, RunCall, RunReturns, End, SameSource, source, tables, checking, cleaning
  <1>2. \A p \in Files : Ready(p) /\ Full(p)
    BY <1>1 DEF Staged
  <1>3. \A p \in Files : Ready(p)' /\ Full(p)'
    BY <1>1, <1>2, StagesStay
  <1> QED
    BY <1>1, <1>3 DEF Staged

LEMMA StagedCheckEnds ==
  ASSUME Inv, phase = "check", phase' = "clean", AllWaiting, mainFqn' = mainFqn
  PROVE  Staged'
  <1>1. CASE complete
    <2>1. Files \ waiting' = {}
      BY <1>1 DEF AllWaiting
    <2> QED
      BY <2>1 DEF Staged
  <1>2. CASE ~complete
    BY <1>2 DEF AllWaiting, Inv, ScopesInOrder, Staged
  <1> QED
    BY <1>1, <1>2

LEMMA StagedNext ==
  ASSUME Inv, Staged, [Next]_vars
  PROVE  Staged'
  <1>1. CASE phase' \in {"import", "check", "ended"}
    BY <1>1 DEF Staged
  <1>2. CASE ImportProgram \/ ImportRefused \/ ImportDone \/ CheckMain \/ CheckVariable
             \/ CheckConstructor \/ CheckCall \/ MainProgramMissing \/ MainNotThere
    <2>1. phase' \in {"import", "check", "ended"}
      BY <1>2 DEF ImportProgram, ImportRefused, ImportDone, CheckMain, CheckVariable, CheckConstructor,
                  CheckCall, MainProgramMissing, MainNotThere, GoOn, End
    <2> QED
      BY <1>1, <2>1
  <1>3. CASE MainMissing \/ NotFound
    <2>1. phase = "check" /\ phase' = "clean" /\ AllWaiting /\ mainFqn' = mainFqn
      BY <1>3 DEF MainMissing, NotFound, CheckFails, GoOn, cleaning
    <2> QED
      BY <2>1, StagedCheckEnds
  <1>4. CASE CheckReturns
    <2>1. CASE Len(calls) > 1
      <3>1. phase' = "check"
        BY <1>4, <2>1 DEF CheckReturns
      <3> QED
        BY <1>1, <3>1
    <2>2. CASE ~(Len(calls) > 1)
      <3>1. phase = "check" /\ phase' = "clean" /\ AllWaiting /\ mainFqn' = mainFqn
        BY <1>4, <2>2 DEF CheckReturns, GoOn, cleaning
      <3> QED
        BY <3>1, StagedCheckEnds
    <2> QED
      BY <2>1, <2>2
  <1>5. CASE \E p \in Files : CleanProgram(p) \/ CleanAborts(p) \/ StatementFound(p)
    <2>1. PICK p \in Files : CleanProgram(p) \/ CleanAborts(p) \/ StatementFound(p)
      BY <1>5
    <2>2. CleanAborts(p) => phase' = "ended"
      BY DEF CleanAborts, End
    <2> QED
      BY <1>1, <2>1, <2>2, StagedClean
  <1>6. CASE CleanDone
    BY <1>6, StagedCleanDone
  <1>7. CASE \E p \in Files : LinkProgram(p) \/ LinkFails(p)
    <2>1. PICK p \in Files : LinkProgram(p) \/ LinkFails(p)
      BY <1>7
    <2>2. LinkFails(p) => phase' = "ended"
      BY DEF LinkFails, End
    <2> QED
      BY <1>1, <2>1, <2>2, StagedLink
  <1>8. CASE StartMain
    BY <1>8, StagedStart
  <1>9. CASE RunUse \/ RunCall \/ RunReturns
    BY <1>9, StagedRun
  <1>10. CASE UNCHANGED vars
    <2>1. /\ SameSource /\ phase' = phase /\ waiting' = waiting /\ linked' = linked /\ mainFqn' = mainFqn
      BY <1>10 DEF vars, SameSource, source, tables, checking, cleaning
    <2>2. \A p : (Ready(p)' <=> Ready(p)) /\ (Fresh(p)' <=> Fresh(p)) /\ (Full(p)' <=> Full(p))
      BY <2>1, StagesStay
    <2> QED
      BY <2>1, <2>2 DEF Staged
  <1> QED
    BY <1>2, <1>3, <1>4, <1>5, <1>6, <1>7, <1>8, <1>9, <1>10 DEF Next

LEMMA TiedAlways == Spec => [](Inv /\ Tied /\ Staged)
  <1>1. Init => Inv /\ Tied /\ Staged
    BY InvInit, TiedInit
  <1>2. Inv /\ Tied /\ Staged /\ [Next]_vars => (Inv /\ Tied /\ Staged)'
    BY InvNext, TiedNext, StagedNext
  <1> QED
    BY <1>1, <1>2, PTL DEF Spec

-----------------------------------------------------------------------------
(* The scope of a cleaned program, once it is full.                        *)
LEMMA FullIs ==
  ASSUME TypeOK, NEW p \in Files, Ready(p), Full(p)
  PROVE  /\ Tidy(linked[p]) /\ linked[p] \in Scope(Linkable)
         /\ \A i \in 1..Len(Cleaned(p)) : Findable(Cleaned(p)[i]) => Cleaned(p)[i] \in linked[p].entries
         /\ \A k \in 1..Len(ImportsOf[p]) : \A i \in 1..Len(Cleaned(ImportsOf[p][k])) :
              LET x == Cleaned(ImportsOf[p][k])[i]
              IN Offered(x, FALSE) /\ Findable(x) => x \in linked[p].entries
  <1> DEFINE put == set_scope(p)
             base == {}
             s == put.scope
             y == Linking(s, p)
  <1>1. /\ put \in Grown(Linkable, base)
        /\ put.thrown # "collide" =>
             \A i \in 1..Len(Cleaned(p)) : Findable(Cleaned(p)[i]) => Cleaned(p)[i] \in put.scope.entries
    BY SetScopeHas
  <1>2. put.thrown # "collide" /\ linked[p] = y.scope /\ y.thrown = "none"
    BY DEF Ready, Full
  <1> HIDE DEF put, base
  <1>3. s \in Scope(Linkable) /\ Tidy(s)
    BY <1>1 DEF Grown, Result
  <1> HIDE DEF s
  <1>4. /\ y \in Grown(Linkable, s.entries)
        /\ y.thrown = "none" =>
             \A k \in 1..Len(ImportsOf[p]) : Has(y, Cleaned(ImportsOf[p][k]), FALSE)
    BY <1>3, LinkingHas
  <1> HIDE DEF y
  <1>5. /\ Tidy(linked[p]) /\ linked[p] \in Scope(Linkable) /\ s.entries \subseteq linked[p].entries
    BY <1>2, <1>4 DEF Grown, Result
  <1>6. \A i \in 1..Len(Cleaned(p)) : Findable(Cleaned(p)[i]) => Cleaned(p)[i] \in linked[p].entries
    BY <1>1, <1>2, <1>5 DEF s
  <1>7. \A k \in 1..Len(ImportsOf[p]) : Has(y, Cleaned(ImportsOf[p][k]), FALSE)
    BY <1>2, <1>4
  <1> QED
    BY <1>2, <1>5, <1>6, <1>7 DEF Has

(* What the scopes that the importer filled to the end hold.               *)
LEMMA ScopeHolds ==
  ASSUME Inv, complete, NEW p \in Files
  PROVE  /\ Holds(scopes[p], Come(p, Entering(p))) /\ Clear(p, Entering(p))
         /\ scopes[p].namespaces = NamesThrough(p, Len(Sources(p)))
  <1>1. run_imports_util(p) = Inserted(scopes[p])
    BY DEF Inv, ScopesInOrder
  <1>2. run_imports_util(p).thrown = "none" /\ run_imports_util(p).scope = scopes[p]
    BY <1>1 DEF Inserted
  <1>3. /\ Judged(run_imports_util(p), p, Entering(p), Len(Sources(p)))
        /\ run_imports_util(p).thrown = "none" <=> Clear(p, Entering(p))
    BY RunImportsJudged DEF Inv, TypeOK
  <1> QED
    BY <1>2, <1>3 DEF Judged

(* Where a variable or a function that a file finds comes from.            *)
LEMMA FoundWhere ==
  ASSUME Inv, complete, NEW p \in Files, NEW d \in scopes[p].entries, Findable(d)
  PROVE  \E k \in 1..Len(Sources(p)) : \E i \in 1..Len(program[Sources(p)[k]]) :
           /\ d = program[Sources(p)[k]][i]
           /\ k = Len(Sources(p)) \/ d.public
  <1>1. Holds(scopes[p], Come(p, Entering(p)))
    BY ScopeHolds
  <1>2. \A t : ConstructorOf(t).kind = "constructor"
    BY DEF ConstructorOf
  <1>3. d \in Come(p, Entering(p))
    BY <1>1, <1>2 DEF Holds, Findable
  <1>4. PICK at \in Entering(p) : d = Entry(p, at)
    BY <1>3 DEF Come
  <1>5. /\ at[1] \in 1..Len(Sources(p)) /\ at[2] \in 1..Len(program[Sources(p)[at[1]]])
        /\ Offered(d, at[1] = Len(Sources(p)))
    BY <1>4, EnteringIs DEF Inv, TypeOK
  <1> QED
    BY <1>4, <1>5 DEF Entry, Offered

(* Its copies have come into the scope of the cleaned program, too.        *)
LEMMA FoundAgain ==
  ASSUME Inv, complete, \A q \in Files : Ready(q) /\ Full(q),
         NEW p \in Files, NEW d \in scopes[p].entries, Findable(d),
         NEW c, CopyOf(c, d), c.public = d.public, Findable(c)
  PROVE  c \in linked[p].entries
  <1>10. PICK k \in 1..Len(Sources(p)) : \E i \in 1..Len(program[Sources(p)[k]]) :
           /\ d = program[Sources(p)[k]][i]
           /\ k = Len(Sources(p)) \/ d.public
    BY FoundWhere
  <1>1. PICK i \in 1..Len(program[Sources(p)[k]]) :
          /\ d = program[Sources(p)[k]][i]
          /\ k = Len(Sources(p)) \/ d.public
    BY <1>10
  <1> DEFINE q == Sources(p)[k]
             n == Len(ImportsOf[p])
  <1>2. /\ q \in Files /\ n \in Nat /\ Len(Sources(p)) = n + 1
        /\ k = n + 1 => q = p
        /\ k # n + 1 => k \in 1..n /\ q = ImportsOf[p][k]
    BY SourcesAre
  <1>3. TypeOK
    BY DEF Inv
  <1>4. ~HasStatement(q)
    BY <1>2 DEF Ready
  <1>5. d = program[q][i] /\ i \in 1..Len(program[q])
    BY <1>1
  <1> HIDE DEF q, n
  <1>6. CopiesUpTo(Cleaned(q), q, Len(program[q]))
    BY <1>2, <1>3, <1>4, CleanedHas
  <1>7. PICK j \in 1..Len(Cleaned(q)) : Cleaned(q)[j] = c
    BY <1>5, <1>6 DEF CopiesUpTo
  <1>8. CASE k = n + 1
    BY <1>2, <1>3, <1>7, <1>8, FullIs
  <1>9. CASE k # n + 1
    <2>1. Offered(c, FALSE)
      BY <1>1, <1>2, <1>9 DEF Offered, Findable
    <2>2. \A m \in 1..Len(ImportsOf[p]) : \A l \in 1..Len(Cleaned(ImportsOf[p][m])) :
            LET x == Cleaned(ImportsOf[p][m])[l]
            IN Offered(x, FALSE) /\ Findable(x) => x \in linked[p].entries
      BY <1>3, FullIs
    <2>3. k \in 1..Len(ImportsOf[p]) /\ q = ImportsOf[p][k]
      BY <1>2, <1>9 DEF n
    <2>4. \A l \in 1..Len(Cleaned(q)) :
            Offered(Cleaned(q)[l], FALSE) /\ Findable(Cleaned(q)[l]) => Cleaned(q)[l] \in linked[p].entries
      BY <2>2, <2>3
    <2> QED
      BY <1>7, <2>1, <2>4
  <1> QED
    BY <1>8, <1>9

LEMMA WrittenIs ==
  ASSUME Inv, NEW d, Written(d)
  PROVE  /\ d \in Declaration
         /\ d.kind = "function" => d \in FunctionDeclaration
  <1>1. d.id[1] \in Files /\ d.id[2] \in 1..Len(program[d.id[1]]) /\ d = program[d.id[1]][d.id[2]]
    BY DEF Written, Declares
  <1>2. d \in Declaration
    BY <1>1, ProgramIs DEF Inv, TypeOK
  <1> QED
    BY <1>2 DEF Declaration, TypeDeclaration, VariableDeclaration, FunctionDeclaration, StatementDeclaration

(* A name and two types are made into one name in one way only.            *)
EndsWith(x, a, p, q) == x = a \o <<p, q>>

LEMMA EndsDiffer ==
  ASSUME NEW a \in Names, NEW b \in Names, NEW p \in Tokens, NEW q \in Tokens, NEW r \in Tokens, NEW s \in Tokens,
         NEW z, EndsWith(z, a, p, q), EndsWith(z, b, r, s)
  PROVE  a = b /\ p = r /\ q = s
  <1> DEFINE x == a \o <<p, q>>
             y == b \o <<r, s>>
             n == Len(a)
             m == Len(b)
  <1>1. a \in Seq(Tokens) /\ b \in Seq(Tokens) /\ n \in Nat /\ m \in Nat
    BY DEF Names
  <1>2. /\ Len(x) = n + 2 /\ x[n + 1] = p /\ x[n + 2] = q /\ \A i \in 1..n : x[i] = a[i]
    BY <1>1
  <1>3. /\ Len(y) = m + 2 /\ y[m + 1] = r /\ y[m + 2] = s /\ \A i \in 1..m : y[i] = b[i]
    BY <1>1
  <1>4. x = y
    BY DEF EndsWith
  <1> HIDE DEF x, y
  <1>5. n = m
    BY <1>1, <1>2, <1>3, <1>4
  <1>6. p = r /\ q = s
    BY <1>2, <1>3, <1>4, <1>5
  <1>7. \A i \in 1..n : a[i] = b[i]
    BY <1>2, <1>3, <1>4, <1>5
  <1>8. a = b
    BY <1>1, <1>5, <1>7
  <1> QED
    BY <1>6, <1>8

(* A copy that goes by its types says which.                               *)
LEMMA NamedByTypes ==
  ASSUME Inv, Tied, NEW c \in copies, NEW e \in copies,
         c.name = e.name, c.name # <<"__main__">>
  PROVE  c.param = e.param /\ c.ret = e.ret /\ Origin(c).name = Origin(e).name
  <1>1. Stems(c, Origin(c)) /\ Stems(e, Origin(e))
    BY DEF Tied, CopiesTied
  <1>2. /\ Origin(c).name \in Names /\ Origin(e).name \in Names
        /\ c.param \in Tokens /\ c.ret \in Tokens /\ e.param \in Tokens /\ e.ret \in Tokens
    <2>1. c \in FunctionCopy /\ e \in FunctionCopy
      BY DEF Inv, TypeOK
    <2>2. Written(Origin(c)) /\ Written(Origin(e)) /\ Origin(c).kind = "function" /\ Origin(e).kind = "function"
      BY <1>1 DEF Stems
    <2>3. \A d : Written(d) /\ d.kind = "function" => d.name \in Names
      BY WrittenIs DEF FunctionDeclaration
    <2> QED
      BY <2>1, <2>2, <2>3 DEF FunctionCopy
  <1>3. c.name = Origin(c).name \o <<c.param, c.ret>> /\ e.name = Origin(e).name \o <<e.param, e.ret>>
    BY <1>1 DEF Stems
  <1> DEFINE a == Origin(c).name
             b == Origin(e).name
             t == c.param
             u == c.ret
             v == e.param
             w == e.ret
  <1>4. EndsWith(c.name, a, t, u) /\ EndsWith(c.name, b, v, w)
    BY <1>3 DEF EndsWith
  <1>5. a \in Names /\ b \in Names /\ t \in Tokens /\ u \in Tokens /\ v \in Tokens /\ w \in Tokens
    BY <1>2
  <1>6. a = b /\ t = v /\ u = w
    <2> HIDE DEF a, b, t, u, v, w
    <2> QED
      BY <1>4, <1>5, EndsDiffer
  <1> QED
    BY <1>6

(* What a use of the body of a copy means when it is run.                  *)
LEMMA MeantIs ==
  ASSUME Inv, Tied, complete, \A q \in Files : Ready(q) /\ Full(q),
         NEW p \in Files, NEW u \in ResolvedUse, UseTied(p, u, copies)
  PROVE  /\ u.kind = "variable" => {e.id : e \in Entries(linked[p], "variable", u.ns, u.name)} = {u.target}
         /\ u.kind = "call" => {e.id : e \in get_function(linked[p], u.ns, u.name)} = {u.target}
  <1>1. TypeOK
    BY DEF Inv
  <1>2. Tidy(linked[p]) /\ linked[p] \in Scope(Linkable)
    BY <1>1, FullIs
  <1>3. ASSUME u.kind = "variable"
        PROVE  {e.id : e \in Entries(linked[p], "variable", u.ns, u.name)} = {u.target}
    <2>1. PICK v \in Entries(scopes[p], "variable", u.ns, u.name) : v.id = u.target
      BY <1>3 DEF UseTied
    <2>2. v \in scopes[p].entries /\ v.kind = "variable" /\ v.ns = u.ns /\ v.name = u.name
      BY <2>1 DEF Entries
    <2>3. Findable(v) /\ CopyOf(v, v)
      BY <2>2 DEF Findable, CopyOf
    <2>4. v \in linked[p].entries
      BY <2>2, <2>3, FoundAgain
    <2>5. \A e \in Entries(linked[p], "variable", u.ns, u.name) : e = v
      BY <1>2, <2>2, <2>4 DEF Tidy, Entries
    <2>6. v \in Entries(linked[p], "variable", u.ns, u.name)
      BY <2>2, <2>4 DEF Entries
    <2> QED
      BY <2>1, <2>5, <2>6
  <1>4. ASSUME u.kind = "call"
        PROVE  {e.id : e \in get_function(linked[p], u.ns, u.name)} = {u.target}
    <2>1. PICK c \in copies : c.id = u.target /\ c.ns = u.ns /\ c.name = u.name /\ c.name # <<"__main__">>
      BY <1>4 DEF UseTied
    <2>2. PICK f \in scopes[p].entries : f.kind = "function" /\ f.id = u.target
      BY <1>4 DEF UseTied
    <2>3. Stems(c, Origin(c)) /\ c.kind = "function"
      BY <1>1 DEF Tied, CopiesTied, TypeOK, FunctionCopy
    <2>4. Written(f)
      <3>1. scopes[p] \in Scope(Visible(p))
        BY <1>1 DEF TypeOK
      <3>2. f \in Visible(p) /\ f \notin Constructor
        BY <2>2, <3>1 DEF Scope, Constructor
      <3> QED
        BY <3>2 DEF Visible
    <2>5. f = Origin(c)
      BY <2>1, <2>2, <2>4 DEF Origin, Written, Declares
    <2>6. CopyOf(c, f) /\ c.public = f.public /\ Findable(c) /\ Findable(f)
      BY <2>1, <2>2, <2>3, <2>5 DEF CopyOf, CopiesOf, Findable, Stems
    <2>7. c \in linked[p].entries
      BY <2>2, <2>6, FoundAgain
    <2> DEFINE found == Entries(linked[p], "function", u.ns, u.name)
    <2>8. c \in found
      BY <2>1, <2>3, <2>7 DEF Entries
    <2>9. ASSUME NEW e \in found
          PROVE  e = c
      <3>1. e \in linked[p].entries /\ e.kind = "function" /\ e.ns = c.ns /\ e.name = c.name
        BY <2>1 DEF Entries
      <3>2. e \in copies
        BY <1>2, <3>1 DEF Scope, Linkable, TypeDeclaration, VariableDeclaration, Constructor
      <3>3. e.param = c.param /\ e.ret = c.ret
        BY <2>1, <3>1, <3>2, NamedByTypes
      <3>4. collides_with(e, c)
        BY <3>3 DEF collides_with, weak_compare
      <3> QED
        BY <1>2, <2>3, <2>7, <3>1, <3>4 DEF Tidy
    <2>10. found = {c}
      BY <2>8, <2>9
    <2>11. get_function(linked[p], u.ns, u.name) = {c}
      <3>1. Cardinality({c}) = 1
        BY FS_Singleton
      <3> QED
        BY <2>10, <3>1 DEF get_function, Unique
    <2> QED
      BY <2>1, <2>11
  <1> QED
    BY <1>3, <1>4

(* Names are looked up in scopes the importer filled, and again, when they *)
(* are run, in scopes the cleaner and the interpreter filled with copies   *)
(* in another order. Whatever the files are, the second search finds what  *)
(* the first did, and nothing else.                                        *)
THEOREM RunMeansChecked == Spec => []LinkedAsChecked
  <1>1. ASSUME Inv, Tied, Staged
        PROVE  LinkedAsChecked
    <2> SUFFICES ASSUME phase = "run", HasUse, Use.kind # "constructor"
                 PROVE  {e.id : e \in Meant(Use)} = {Use.target}
      BY DEF LinkedAsChecked
    <2> DEFINE n == Len(calls)
               c == Top.fun
               p == c.id[1]
               u == c.body[Top.next]
    <2>1. calls # <<>> /\ Top.next <= Len(c.body) /\ u = Use
      BY DEF HasUse, Use
    <2>2. calls \in Seq(RunFrame) /\ n \in Nat \ {0}
      <3>1. calls \in Seq(RunFrame)
        BY <1>1 DEF Inv, TypeOK
      <3> QED
        BY <2>1, <3>1
    <2>3. Top = calls[n]
      BY DEF Top, Last
    <2>4. Top \in RunFrame /\ c \in copies
      <3> HIDE DEF n
      <3>1. n \in 1..n
        BY <2>2
      <3>2. calls[n] \in RunFrame
        BY <2>2, <3>1 DEF n
      <3> QED
        BY <1>1, <2>3, <3>1, <3>2 DEF Tied, RunsTied, n
    <2>5. c \in FunctionCopy /\ Top.next \in Nat \ {0}
      BY <2>4 DEF RunFrame
    <2>6. p \in Files /\ c.body \in Seq(ResolvedUse)
      BY <2>5 DEF FunctionCopy, Places
    <2>7. Top.next \in 1..Len(c.body)
      BY <2>1, <2>5, <2>6
    <2>8. u \in ResolvedUse /\ UseTied(p, u, copies)
      BY <1>1, <2>4, <2>6, <2>7 DEF Tied, CopiesTied, BodyTied
    <2>9. complete /\ \A q \in Files : Ready(q) /\ Full(q)
      BY <1>1 DEF Inv, ScopesInOrder, Staged
    <2> HIDE DEF u, p, c
    <2>10. /\ u.kind = "variable" => {e.id : e \in Entries(linked[p], "variable", u.ns, u.name)} = {u.target}
           /\ u.kind = "call" => {e.id : e \in get_function(linked[p], u.ns, u.name)} = {u.target}
      BY <1>1, <2>6, <2>8, <2>9, MeantIs
    <2>11. u.kind \in {"variable", "call"}
      BY <2>1, <2>8 DEF ResolvedUse
    <2>12. LinkedScope = linked[p]
      BY DEF LinkedScope, p, c
    <2>13. u.kind = "call" => Meant(u) = get_function(linked[p], u.ns, u.name)
      BY <2>12 DEF Meant
    <2>14. u.kind = "variable" => Meant(u) = Entries(linked[p], "variable", u.ns, u.name)
      BY <2>12 DEF Meant
    <2> QED
      BY <2>1, <2>10, <2>11, <2>13, <2>14
  <1> QED
    BY <1>1, TiedAlways, PTL

-----------------------------------------------------------------------------
(* The copy of a declaration of the program: how it is named.              *)
LEMMA DeclarationIs ==
  ASSUME TypeOK, NEW q \in Files, NEW h \in 1..Len(program[q])
  PROVE  LET d == program[q][h]
         IN /\ d \in Declaration /\ d.id = <<q, h>> /\ Written(d)
            /\ d.kind \in {"type", "variable", "function", "statement"}
            /\ d.kind = "type" => d \in TypeDeclaration
            /\ d.kind = "variable" => d \in VariableDeclaration
            /\ d.kind = "function" => d \in FunctionDeclaration
            /\ d.kind # "statement" => d.name \in Names /\ Len(d.name) = 1
            /\ d.kind = "type" => d.cons \in Names /\ Len(d.cons) = 1
  <1> DEFINE d == program[q][h]
  <1>1. d \in Declaration /\ d.id = <<q, h>> /\ h \in DOMAIN program[q]
    <2>1. program[q] \in Seq(Declaration) /\ d \in Declaration /\ d.id = <<q, h>>
      BY ProgramIs DEF TypeOK
    <2>2. h \in DOMAIN program[q]
      BY <2>1
    <2> QED
      BY <2>1, <2>2
  <1>2. d.kind # "statement" => Len(d.name) = 1
    BY <1>1, ProgramsAssumption DEF TypeOK
  <1>3. d.kind = "type" => Len(d.cons) = 1
    BY <1>1, ProgramsAssumption DEF TypeOK
  <1>4. Written(d)
    BY <1>1 DEF Written, Declares
  <1> HIDE DEF d
  <1>5. /\ d.kind \in {"type", "variable", "function", "statement"}
        /\ d.kind = "type" => d \in TypeDeclaration
        /\ d.kind = "variable" => d \in VariableDeclaration
        /\ d.kind = "function" => d \in FunctionDeclaration
    BY <1>1 DEF Declaration, TypeDeclaration, VariableDeclaration, FunctionDeclaration, StatementDeclaration
  <1>6. /\ d.kind # "statement" => d.name \in Names
        /\ d.kind = "type" => d.cons \in Names
    BY <1>5 DEF TypeDeclaration, VariableDeclaration, FunctionDeclaration
  <1> QED
    BY <1>1, <1>2, <1>3, <1>4, <1>5, <1>6 DEF d

NamedAs(x, d) ==
  /\ x \in Offerable /\ x.kind = d.kind /\ x.ns = d.ns
  /\ d.kind = "variable" => x = d
  /\ d.kind = "type" => x = TypeCopy(d) /\ x.name = d.name /\ x.cons = d.cons \o d.name /\ Len(x.cons) = 2
  /\ d.kind = "function" =>
       /\ x \in copies /\ x \in FunctionCopy /\ Stems(x, d) /\ x.id = d.id /\ x.public = d.public
       /\ \/ x.name = <<"__main__">> /\ d.name = <<"__main__">> /\ Len(x.name) = 1
          \/ EndsWith(x.name, d.name, x.param, x.ret) /\ Len(x.name) = 3

LEMMA JoinedLen ==
  ASSUME NEW S, NEW a \in Seq(S), NEW b \in Seq(S)
  PROVE  Len(a \o b) = Len(a) + Len(b)
  OBVIOUS

LEMMA LongerIs ==
  /\ \A a \in Names, b \in Names : Len(a) = 1 /\ Len(b) = 1 => Len(a \o b) = 2
  /\ \A a \in Names, p \in Tokens, q \in Tokens : Len(a) = 1 => Len(a \o <<p, q>>) = 3
  <1>1. \A a \in Names : a \in Seq(Tokens)
    BY DEF Names
  <1>2. \A p, q \in Tokens : <<p, q>> \in Seq(Tokens) /\ Len(<<p, q>>) = 2
    OBVIOUS
  <1>3. \A a, b \in Seq(Tokens) : Len(a \o b) = Len(a) + Len(b)
    BY JoinedLen
  <1>4. ASSUME NEW a \in Names, NEW p \in Tokens, NEW q \in Tokens, Len(a) = 1
        PROVE  Len(a \o <<p, q>>) = 3
    <2> DEFINE s == <<p, q>>
    <2>1. s \in Seq(Tokens) /\ Len(s) = 2
      BY <1>2
    <2> HIDE DEF s
    <2>2. a \in Seq(Tokens) /\ Len(a) = 1
      BY <1>1, <1>4
    <2>3. Len(a \o s) = Len(a) + Len(s)
      BY <2>1, <2>2, JoinedLen
    <2>4. Len(a \o s) = 3
      BY <2>1, <2>2, <2>3
    <2> QED
      BY <2>4 DEF s
  <1> QED
    BY <1>1, <1>3, <1>4

LEMMA CopyNamed ==
  ASSUME Inv, Tied, NEW q \in Files, NEW h \in 1..Len(program[q]), NEW x, CopyOf(x, program[q][h])
  PROVE  NamedAs(x, program[q][h])
  <1> DEFINE d == program[q][h]
  <1>1. /\ d \in Declaration /\ d.id = <<q, h>> /\ Written(d)
        /\ d.kind \in {"type", "variable", "function", "statement"}
        /\ d.kind = "type" => d \in TypeDeclaration
        /\ d.kind = "variable" => d \in VariableDeclaration
        /\ d.kind = "function" => d \in FunctionDeclaration
        /\ d.kind # "statement" => d.name \in Names /\ Len(d.name) = 1
        /\ d.kind = "type" => d.cons \in Names /\ Len(d.cons) = 1
    BY DeclarationIs DEF Inv
  <1> HIDE DEF d
  <1>2. CopyOf(x, d)
    BY DEF d
  <1>3. CASE d.kind = "variable"
    <2>1. x = d
      BY <1>2, <1>3 DEF CopyOf
    <2> QED
      BY <1>1, <1>3, <2>1 DEF NamedAs, Offerable, d
  <1>4. CASE d.kind = "type"
    <2>1. x = TypeCopy(d)
      BY <1>2, <1>4 DEF CopyOf
    <2>2. x.kind = d.kind /\ x.ns = d.ns /\ x.name = d.name /\ x.cons = d.cons \o d.name
      BY <1>1, <1>4, <2>1 DEF TypeCopy, TypeDeclaration
    <2>3. x \in TypeDeclaration
      BY <1>1, <1>4, <2>1, TypeCopyIs
    <2>4. Len(x.cons) = 2
      BY <1>1, <1>4, <2>2, LongerIs
    <2> QED
      BY <1>4, <2>1, <2>2, <2>3, <2>4 DEF NamedAs, Offerable, d
  <1>5. CASE d.kind = "function"
    <2>1. x \in copies /\ x.id = d.id
      BY <1>2, <1>5 DEF CopyOf, CopiesOf
    <2>2. x \in FunctionCopy
      BY <2>1 DEF Inv, TypeOK
    <2>3. Stems(x, Origin(x))
      BY <2>1 DEF Tied, CopiesTied
    <2>4. Origin(x) = d
      BY <1>1, <2>1 DEF Origin, d
    <2>5. Stems(x, d)
      BY <2>3, <2>4
    <2>6. x.ns = d.ns /\ x.public = d.public
      BY <2>5 DEF Stems
    <2>7. x.kind = "function" /\ x.param \in Tokens /\ x.ret \in Tokens
      BY <2>2 DEF FunctionCopy
    <2>8. CASE x.name = <<"__main__">> /\ d.name = <<"__main__">>
      <3>1. Len(x.name) = 1
        BY <2>8
      <3> QED
        BY <1>5, <2>1, <2>2, <2>5, <2>6, <2>7, <2>8, <3>1 DEF NamedAs, Offerable, d
    <2>9. CASE x.name = d.name \o <<x.param, x.ret>>
      <3>1. Len(x.name) = 3
        BY <1>1, <1>5, <2>7, <2>9, LongerIs
      <3>2. EndsWith(x.name, d.name, x.param, x.ret)
        BY <2>9 DEF EndsWith
      <3> QED
        BY <1>5, <2>1, <2>2, <2>5, <2>6, <2>7, <3>1, <3>2 DEF NamedAs, Offerable, d
    <2> QED
      BY <2>5, <2>8, <2>9 DEF Stems
  <1>6. CASE d.kind = "statement"
    BY <1>2, <1>6 DEF CopyOf
  <1> QED
    BY <1>1, <1>3, <1>4, <1>5, <1>6

(* All there is to know of what the cleaner leaves where nothing is        *)
(* overlooked.                                                             *)
Watched == \A q \in Files : ~Overlooked(q)

LEMMA PlaceIs ==
  ASSUME Inv, NEW p \in Files, NEW at \in PlacesOf(p)
  PROVE  LET k == at[1]
             q == Sources(p)[k]
         IN /\ q \in Files /\ k \in 1..Len(Sources(p)) /\ Len(Sources(p)) \in Nat
            /\ at[2] \in 1..Len(program[q]) /\ Entry(p, at) = program[q][at[2]]
            /\ at[2] \in Nat /\ k \in Nat
            /\ Own(p, at) <=> k = Len(Sources(p))
  <1>1. at[1] \in 1..Len(Sources(p)) /\ at[2] \in 1..Len(program[Sources(p)[at[1]]])
    BY PlacesAre DEF Inv, TypeOK
  <1>2. Sources(p)[at[1]] \in Files /\ Len(Sources(p)) \in Nat
    BY <1>1, SourcesAre
  <1>3. Len(program[Sources(p)[at[1]]]) \in Nat
    BY <1>2, ProgramIs DEF Inv, TypeOK
  <1> QED
    BY <1>1, <1>2, <1>3 DEF Entry, Own

(* The functions of the program are finitely many.                         *)
LEMMA ImageFinite ==
  ASSUME NEW S, IsFiniteSet(S), NEW f, DOMAIN f = S
  PROVE  IsFiniteSet({f[x] : x \in S})
  <1> DEFINE T == {f[x] : x \in S}
             g == [x \in S |-> f[x]]
  <1>1. g \in [S -> T] /\ \A t \in T : \E x \in S : g[x] = t
    OBVIOUS
  <1> HIDE DEF T, g
  <1>2. g \in Surjection(S, T)
    BY <1>1 DEF Surjection
  <1>3. IsFiniteSet(T)
    BY <1>2, FS_Surjection
  <1> QED
    BY <1>3 DEF T

LEMMA FunctionsFinite ==
  ASSUME TypeOK, NEW p \in Files, NEW ns, NEW name
  PROVE  IsFiniteSet(Entries(scopes[p], "function", ns, name))
  <1> DEFINE here == [q \in Files |-> {program[q][i] : i \in 1..Len(program[q])}]
             all == {here[q] : q \in Files}
             found == Entries(scopes[p], "function", ns, name)
  <1>1. IsFiniteSet(Files)
    <2> DEFINE n == Len(Order)
    <2>1. Order \in Seq(Files)
      BY FilesAssumption
    <2>2. DOMAIN Order = 1..n /\ n \in Nat
      BY <2>1
    <2>3. Files = {Order[i] : i \in 1..n}
      BY <2>2 DEF Files, ToSet
    <2>4. IsFiniteSet(1..n)
      BY <2>2, FS_Interval
    <2>5. IsFiniteSet({Order[i] : i \in 1..n})
      <3> HIDE DEF n
      <3> QED
        BY <2>2, <2>4, ImageFinite
    <2> QED
      BY <2>3, <2>5
  <1>2. ASSUME NEW q \in Files
        PROVE  IsFiniteSet(here[q])
    <2> DEFINE s == program[q]
               n == Len(s)
    <2>1. s \in Seq(Declaration) /\ n \in Nat
      BY ProgramIs DEF TypeOK
    <2>2. IsFiniteSet(1..n)
      BY <2>1, FS_Interval
    <2>3. DOMAIN s = 1..n
      <3> HIDE DEF s
      <3> QED
        BY <2>1
    <2>4. IsFiniteSet({s[i] : i \in 1..n})
      <3> HIDE DEF s, n
      <3> QED
        BY <2>2, <2>3, ImageFinite
    <2> QED
      BY <2>4
  <1>3. ASSUME NEW f \in found
        PROVE  f \in UNION all
    <2>1. f \in Visible(p) /\ f \notin Constructor
      BY DEF TypeOK, Scope, Entries, Constructor
    <2>2. Written(f)
      BY <2>1 DEF Visible
    <2>3. f.id[1] \in Files /\ f \in here[f.id[1]]
      BY <2>2 DEF Written, Declares
    <2> QED
      BY <2>3
  <1>4. DOMAIN here = Files
    OBVIOUS
  <1> HIDE DEF here
  <1>5. IsFiniteSet(all)
    BY <1>1, <1>4, ImageFinite
  <1>6. \A T \in all : IsFiniteSet(T)
    BY <1>2
  <1> HIDE DEF all, found
  <1>7. IsFiniteSet(UNION all)
    BY <1>5, <1>6, FS_UNION
  <1>8. found \subseteq UNION all
    BY <1>3
  <1> QED
    BY <1>7, <1>8, FS_Subset DEF found

LEMMA MainIsOne ==
  ASSUME TypeOK, NEW f \in MainFound, NEW g \in MainFound
  PROVE  f = g
  <1> DEFINE found == ByReturn(fill_duplicates(Entries(scopes[Main], "function", "*", <<"__main__">>), "list"), "void")
  <1>1. MainFound = Unique(found)
    BY DEF MainFound, find_function_returning
  <1>4. IsFiniteSet(found)
    <2>1. Main \in Files
      BY MainIs
    <2>2. IsFiniteSet(Entries(scopes[Main], "function", "*", <<"__main__">>))
      BY <2>1, FunctionsFinite
    <2>3. found \subseteq Entries(scopes[Main], "function", "*", <<"__main__">>)
      BY DEF ByReturn, fill_duplicates
    <2> QED
      BY <2>2, <2>3, FS_Subset
  <1> HIDE DEF found
  <1>2. Cardinality(found) = 1
    BY <1>1 DEF Unique
  <1>3. \E x : found = {x}
    BY <1>2, <1>4, FS_Singleton
  <1> QED
    BY <1>1, <1>3 DEF Unique

(* Two copies of __main__ are of one function.                             *)
LEMMA MainCopiesOne ==
  ASSUME Inv, NEW c \in copies, NEW e \in copies, c.name = <<"__main__">>, e.name = <<"__main__">>
  PROVE  c.id = e.id
  <1>1. c.id \in {f.id : f \in MainFound} /\ e.id \in {f.id : f \in MainFound}
    BY DEF Inv, MainChecked
  <1> QED
    BY <1>1, MainIsOne DEF Inv

(* Two copies with the same types are of functions that meet.              *)
LEMMA MeetIf ==
  ASSUME NEW x, NEW y, NEW d, NEW e, Stems(x, d), Stems(y, e), x.param = y.param, x.ret = y.ret
  PROVE  CopiesMeet(d, e)
  <1> DEFINE t == x.param
  <1>1. /\ d.kind = "function" /\ e.kind = "function"
        /\ d.param \in {"a", t} /\ e.param \in {"a", t} /\ Bound(d.ret, t) = Bound(e.ret, t)
    BY DEF Stems
  <1> HIDE DEF t
  <1>2. CASE t \in {d.param, e.param}
    BY <1>1, <1>2 DEF CopiesMeet
  <1>3. CASE d.param = "a" /\ e.param = "a"
    <2>1. CASE d.ret = e.ret
      BY <1>1, <1>3, <2>1 DEF CopiesMeet, Bound
    <2>2. CASE d.ret # e.ret
      <3>1. t \in {d.ret, e.ret}
        BY <1>1, <2>2 DEF Bound
      <3> QED
        BY <1>1, <1>3, <3>1 DEF CopiesMeet
    <2> QED
      BY <2>1, <2>2
  <1> QED
    BY <1>1, <1>2, <1>3

Single(a) == a \in Names /\ Len(a) = 1
Joined(z, a, b) == z = a \o b

LEMMA JoinedAt ==
  ASSUME NEW S, NEW a \in Seq(S), NEW b \in Seq(S), NEW i \in 1..Len(b)
  PROVE  (a \o b)[Len(a) + i] = b[i]
  <1>1. Len(a) \in Nat /\ Len(b) \in Nat /\ a \o b \in Seq(S) /\ Len(a \o b) = Len(a) + Len(b)
    OBVIOUS
  <1>2. Len(a) + i \in 1..Len(a \o b) /\ ~(Len(a) + i <= Len(a)) /\ (Len(a) + i) - Len(a) = i
    BY <1>1
  <1> QED
    BY <1>1, <1>2

LEMMA SecondIs ==
  ASSUME NEW a, Single(a), NEW b, Single(b), NEW z, Joined(z, a, b)
  PROVE  z[2] = b[1]
  <1>1. a \in Seq(Tokens) /\ b \in Seq(Tokens) /\ Len(a) = 1 /\ Len(b) = 1
    BY DEF Single, Names
  <1>2. \A i \in 1..Len(b) : (a \o b)[Len(a) + i] = b[i]
    BY <1>1, JoinedAt
  <1>3. 1 \in 1..Len(b) /\ Len(a) + 1 = 2
    BY <1>1
  <1>4. (a \o b)[Len(a) + 1] = b[1]
    BY <1>2, <1>3, Zenon
  <1> QED
    BY <1>3, <1>4 DEF Joined

LEMMA SecondSame ==
  ASSUME NEW a, Single(a), NEW b, Single(b), NEW c, Single(c), NEW e, Single(e),
         NEW z, Joined(z, a, b), Joined(z, c, e)
  PROVE  b = e
  <1>1. b[1] = e[1]
    BY SecondIs
  <1>2. b \in Seq(Tokens) /\ e \in Seq(Tokens) /\ Len(b) = 1 /\ Len(e) = 1
    BY DEF Single, Names
  <1> QED
    BY <1>1, <1>2

(* Where nothing is overlooked, no copy bars another that comes later, the *)
(* second time.                                                            *)
LEMMA CopiesPass ==
  ASSUME Inv, Tied, complete, Watched, NEW p \in Files, NEW a \in Arriving(p), NEW b \in Arriving(p),
         NEW x, CopyOf(x, Entry(p, a)), NEW y, CopyOf(y, Entry(p, b)),
         Sooner(p, a, b) \/ (a = b /\ x # y)
  PROVE  ~Bars(x, y)
  <1> DEFINE d == Entry(p, a)
             e == Entry(p, b)
  <1>1. a \in PlacesOf(p) /\ b \in PlacesOf(p)
    BY DEF Arriving
  <1>2. /\ NamedAs(x, d) /\ d.kind \in {"type", "variable", "function", "statement"} /\ Written(d)
        /\ d.kind # "statement" => d.name \in Names /\ Len(d.name) = 1
        /\ d.kind = "type" => d.cons \in Names /\ Len(d.cons) = 1
    <2> DEFINE q == Sources(p)[a[1]]
               h == a[2]
    <2>1. q \in Files /\ h \in 1..Len(program[q]) /\ d = program[q][h]
      BY <1>1, PlaceIs
    <2> HIDE DEF q, h, d
    <2>2. CopyOf(x, program[q][h])
      BY <2>1 DEF d
    <2> QED
      BY <2>1, <2>2, CopyNamed, DeclarationIs DEF Inv
  <1>3. /\ NamedAs(y, e) /\ e.kind \in {"type", "variable", "function", "statement"} /\ Written(e)
        /\ e.kind # "statement" => e.name \in Names /\ Len(e.name) = 1
        /\ e.kind = "type" => e.cons \in Names /\ Len(e.cons) = 1
    <2> DEFINE q == Sources(p)[b[1]]
               h == b[2]
    <2>1. q \in Files /\ h \in 1..Len(program[q]) /\ e = program[q][h]
      BY <1>1, PlaceIs
    <2> HIDE DEF q, h, e
    <2>2. CopyOf(y, program[q][h])
      BY <2>1 DEF e
    <2> QED
      BY <2>1, <2>2, CopyNamed, DeclarationIs DEF Inv
  <1>4. CopyOf(x, d) /\ CopyOf(y, e) /\ d.kind # "statement" /\ e.kind # "statement"
    BY DEF CopyOf
  <1>5. ~Overlooked(p)
    BY DEF Watched
  <1>6. Sooner(p, a, b) => ~CopyBars(d, e)
    BY <1>5 DEF Overlooked
  <1>7. ASSUME Sooner(p, a, b), d.kind = "variable", e.kind = "variable"
        PROVE  ~(d.ns = e.ns /\ d.name = e.name)
    <2>1. Clear(p, Entering(p))
      BY ScopeHolds
    <2>2. a \in Entering(p) /\ b \in Entering(p)
      BY <1>7 DEF Arriving
    <2>3. Before(a, b) \/ Before(b, a)
      <3> DEFINE n == Len(Sources(p))
                 k == a[1]
                 l == b[1]
      <3>1. /\ k \in 1..n /\ l \in 1..n /\ n \in Nat
            /\ Own(p, a) <=> k = n
            /\ Own(p, b) <=> l = n
        BY <1>1, PlaceIs
      <3> HIDE DEF n
      <3>2. ASSUME k = n, l # n
            PROVE  Before(b, a)
        BY <3>1, <3>2 DEF Before
      <3> QED
        BY <1>7, <3>1, <3>2 DEF Sooner
    <2>4. ~Bars(d, e) \/ ~Bars(e, d)
      BY <2>1, <2>2, <2>3 DEF Clear
    <2> QED
      BY <1>7, <2>4 DEF Bars
  <1> HIDE DEF d, e
  <1>8. x.kind = d.kind /\ y.kind = e.kind /\ x.ns = d.ns /\ y.ns = e.ns
    BY <1>2, <1>3 DEF NamedAs
  <1>9. CASE a = b /\ x # y
    <2>1. d = e
      BY <1>9 DEF d, e
    <2>2. d.kind = "function"
      BY <1>2, <1>3, <1>4, <1>9, <2>1 DEF NamedAs
    <2>3. x \in copies /\ y \in copies /\ x.id = y.id
      BY <1>2, <1>3, <2>1, <2>2 DEF NamedAs
    <2>4. x.name # y.name
      BY <1>9, <2>3 DEF Tied, CopiesDiffer
    <2> QED
      BY <1>8, <2>1, <2>2, <2>4 DEF Bars
  <1>10. CASE Sooner(p, a, b)
    <2>1. ~CopyBars(d, e)
      BY <1>6, <1>10
    <2> SUFFICES ASSUME Bars(x, y)
                 PROVE  FALSE
      OBVIOUS
    <2>2. d.ns = e.ns
      BY <1>8 DEF Bars
    <2>3. ASSUME x.name = y.name, e.kind = "variable"
          PROVE  FALSE
      <3>1. y.name = e.name /\ Len(y.name) = 1
        BY <1>3, <2>3 DEF NamedAs
      <3>2. CASE d.kind = "type"
        BY <1>2, <2>1, <2>2, <2>3, <3>1, <3>2 DEF NamedAs, CopyBars
      <3>3. CASE d.kind = "variable"
        BY <1>2, <1>7, <1>10, <2>2, <2>3, <3>1, <3>3 DEF NamedAs
      <3>4. CASE d.kind = "function"
        <4>1. Len(x.name) = 1
          BY <2>3, <3>1
        <4>2. x.name = <<"__main__">> /\ d.name = <<"__main__">>
          BY <1>2, <3>4, <4>1 DEF NamedAs
        <4> QED
          BY <2>1, <2>2, <2>3, <3>1, <3>4, <4>2 DEF CopyBars, IsMain
      <3> QED
        BY <1>2, <1>4, <3>2, <3>3, <3>4
    <2>4. ASSUME x.name = y.name, d.kind = "type", e.kind = "type"
          PROVE  FALSE
      BY <1>2, <1>3, <2>1, <2>2, <2>4 DEF NamedAs, CopyBars
    <2>5. ASSUME x.name = y.name, d.kind = "function", e.kind = "function"
          PROVE  FALSE
      <3>1. /\ x \in copies /\ y \in copies /\ Stems(x, d) /\ Stems(y, e) /\ x.id = d.id /\ y.id = e.id
            /\ x \in FunctionCopy /\ y \in FunctionCopy
        BY <1>2, <1>3, <2>5 DEF NamedAs
      <3>2. CASE Len(x.name) = 1
        <4>1. x.name = <<"__main__">> /\ y.name = <<"__main__">> /\ d.name = e.name
          BY <1>2, <1>3, <2>5, <3>2 DEF NamedAs
        <4>2. d.id = e.id
          BY <3>1, <4>1, MainCopiesOne
        <4>3. d = e
          BY <1>2, <1>3, <4>2 DEF Written, Declares
        <4>4. CopiesMeet(d, e)
          BY <2>5, <4>3 DEF CopiesMeet
        <4> QED
          BY <1>4, <2>1, <2>2, <4>1, <4>4 DEF CopyBars
      <3>3. CASE Len(x.name) # 1
        <4>1. EndsWith(x.name, d.name, x.param, x.ret) /\ EndsWith(x.name, e.name, y.param, y.ret)
          BY <1>2, <1>3, <2>5, <3>3 DEF NamedAs
        <4>2. /\ d.name \in Names /\ e.name \in Names
              /\ x.param \in Tokens /\ x.ret \in Tokens /\ y.param \in Tokens /\ y.ret \in Tokens
          BY <1>2, <1>3, <2>5, <3>1 DEF FunctionCopy
        <4>3. d.name = e.name /\ x.param = y.param /\ x.ret = y.ret
          BY <4>1, <4>2, EndsDiffer
        <4>4. CopiesMeet(d, e)
          BY <3>1, <4>3, MeetIf
        <4> QED
          BY <1>4, <2>1, <2>2, <4>3, <4>4 DEF CopyBars
      <3> QED
        BY <3>2, <3>3
    <2>6. ASSUME d.kind = "type", e.kind # "type", y.name = x.cons
          PROVE  FALSE
      <3>1. Len(y.name) = 2
        BY <1>2, <2>6 DEF NamedAs
      <3> QED
        BY <1>3, <1>4, <2>6, <3>1 DEF NamedAs
    <2>7. ASSUME e.kind = "type", d.kind # "type", x.name = y.cons
          PROVE  FALSE
      <3>1. Len(x.name) = 2
        BY <1>3, <2>7 DEF NamedAs
      <3>2. CASE d.kind = "variable"
        BY <1>2, <3>1, <3>2 DEF NamedAs
      <3>3. CASE d.kind = "function"
        <4>1. Len(x.name) = 1 \/ Len(x.name) = 3
          BY <1>2, <3>3 DEF NamedAs
        <4> QED
          BY <3>1, <4>1
      <3> QED
        BY <1>2, <1>4, <2>7, <3>2, <3>3
    <2>8. ASSUME d.kind = "type", e.kind = "type", x.cons = y.cons
          PROVE  FALSE
      <3>1. d.name = e.name
        <4>1. Joined(x.cons, d.cons, d.name) /\ Joined(x.cons, e.cons, e.name)
          BY <1>2, <1>3, <2>8 DEF NamedAs, Joined
        <4>2. Single(d.cons) /\ Single(d.name) /\ Single(e.cons) /\ Single(e.name)
          BY <1>2, <1>3, <2>8 DEF Single
        <4> QED
          BY <4>1, <4>2, SecondSame
      <3>2. x.name = y.name
        BY <1>2, <1>3, <2>8, <3>1 DEF NamedAs
      <3> QED
        BY <2>4, <2>8, <3>2
    <2> QED
      BY <1>8, <2>3, <2>4, <2>5, <2>6, <2>7, <2>8 DEF Bars
  <1> QED
    BY <1>9, <1>10

(* Only the main program has a __main__, and none imports it.              *)
LEMMA MainComesOwn ==
  ASSUME Inv, Watched, NEW p \in Files, NEW at \in PlacesOf(p), IsMain(Entry(p, at))
  PROVE  Own(p, at)
  <1> DEFINE k == at[1]
             q == Sources(p)[k]
             n == Len(ImportsOf[p])
  <1>1. q \in Files /\ k \in 1..(n + 1) /\ n \in Nat /\ Len(Sources(p)) = n + 1 /\ at[2] \in 1..Len(program[q])
        /\ Entry(p, at) = program[q][at[2]] /\ (Own(p, at) <=> k = Len(Sources(p)))
    BY PlaceIs, SourcesAre
  <1>11. k # n + 1 => k \in 1..n
    <2> HIDE DEF k, n
    <2> QED
      BY <1>1
  <1>12. \A j \in 1..n : Sources(p)[j] = ImportsOf[p][j]
    BY SourcesAre
  <1>2. k # n + 1 => q = ImportsOf[p][k] /\ k \in 1..n
    BY <1>11, <1>12
  <1> HIDE DEF k, n, q
  <1>3. DeclaresMain(q)
    <2>1. DOMAIN program[q] = 1..Len(program[q])
      <3>1. program[q] \in Seq(Declaration)
        BY <1>1, ProgramIs DEF Inv, TypeOK
      <3> QED
        BY <3>1
    <2> QED
      BY <1>1, <2>1 DEF DeclaresMain
  <1>4. q = Main
    BY <1>1, <1>3 DEF Watched, Overlooked
  <1>5. SUFFICES ASSUME k # n + 1
                 PROVE  FALSE
    BY <1>1
  <1>6. Main \in ToSet(ImportsOf[p])
    <2>1. ImportsOf[p] \in Seq(Files)
      BY FilesAssumption
    <2>2. Main = ImportsOf[p][k] /\ k \in 1..Len(ImportsOf[p])
      BY <1>2, <1>4, <1>5 DEF n
    <2> QED
      BY <2>1, <2>2 DEF ToSet
  <1>7. PICK i \in DOMAIN Order : Order[i] = p
    BY DEF Files, ToSet
  <1>8. PICK j \in 1..(i - 1) : Main = Order[j]
    BY <1>6, <1>7, FilesAssumption
  <1>9. Order \in Seq(Files) /\ Main = Order[Len(Order)] /\ DOMAIN Order = 1..Len(Order) /\ Len(Order) \in Nat
    <2>1. Order \in Seq(Files)
      BY FilesAssumption
    <2> QED
      BY <2>1 DEF Main, Last
  <1>10. j \in DOMAIN Order /\ Len(Order) \in DOMAIN Order /\ j # Len(Order)
    <2> DEFINE m == Len(Order)
    <2>1. i \in 1..m /\ DOMAIN Order = 1..m /\ m \in Nat
      BY <1>7, <1>9
    <2> HIDE DEF m
    <2>2. j \in 1..m /\ m \in 1..m /\ j # m
      BY <2>1
    <2> QED
      BY <2>1, <2>2 DEF m
  <1> QED
    BY <1>8, <1>9, <1>10, FilesAssumption

(* Nor is a copy named as a namespace.                                     *)
LEMMA CopyUnnamed ==
  ASSUME Inv, Tied, complete, Watched, NEW p \in Files, NEW at \in Arriving(p),
         NEW x, CopyOf(x, Entry(p, at))
  PROVE  ~Named(scopes[p].namespaces, x)
  <1> DEFINE d == Entry(p, at)
             n == Len(Sources(p))
  <1>1. at \in PlacesOf(p) /\ (d.kind # "type" => at \in Entering(p))
    BY DEF Arriving
  <1>2. NamedAs(x, d) /\ d.kind \in {"type", "variable", "function", "statement"} /\ d.kind # "statement"
    <2> DEFINE q == Sources(p)[at[1]]
               h == at[2]
    <2>1. q \in Files /\ h \in 1..Len(program[q]) /\ d = program[q][h]
      BY <1>1, PlaceIs
    <2>3. d.kind # "statement"
      BY DEF CopyOf
    <2> HIDE DEF q, h, d
    <2>2. CopyOf(x, program[q][h])
      BY <2>1 DEF d
    <2> QED
      BY <2>1, <2>2, <2>3, CopyNamed, DeclarationIs DEF Inv
  <1>3. scopes[p].namespaces = NamesThrough(p, n) /\ Clear(p, Entering(p))
    BY ScopeHolds
  <1>4. ~Overlooked(p)
    BY DEF Watched
  <1> SUFFICES ASSUME NEW m \in scopes[p].namespaces, FoundBy(x) = <<m>>
               PROVE  FALSE
    BY DEF Named
  <1>5. Len(FoundBy(x)) = 1
    OBVIOUS
  <1> HIDE DEF d
  <1>6. PICK k \in 1..n : m \in NamespacesOf(Sources(p)[k])
    BY <1>3 DEF NamesThrough
  <1>7. n \in Nat /\ DOMAIN Sources(p) = 1..n
    BY SourcesAre
  <1>8. CASE d.kind = "type"
    <2>1. FoundBy(x) = x.cons /\ Len(x.cons) = 2
      BY <1>2, <1>8 DEF NamedAs, FoundBy
    <2> QED
      BY <1>5, <2>1
  <1>9. CASE d.kind = "variable"
    <2>1. x = d /\ FoundBy(x) = d.name
      BY <1>2, <1>9 DEF NamedAs, FoundBy
    <2>2. Sources(p)[k] \in ToSet(Sources(p))
      BY <1>7 DEF ToSet
    <2> QED
      BY <1>1, <1>4, <1>6, <1>9, <2>1, <2>2 DEF Overlooked, d
  <1>10. CASE d.kind = "function"
    <2>1. FoundBy(x) = x.name
      BY <1>2, <1>10 DEF NamedAs, FoundBy
    <2>7. Len(x.name) = 1
      BY <1>5, <2>1
    <2>8. \/ x.name = <<"__main__">> /\ d.name = <<"__main__">>
          \/ Len(x.name) = 3
      BY <1>2, <1>10 DEF NamedAs
    <2>2. x.name = <<"__main__">> /\ d.name = <<"__main__">>
      BY <2>7, <2>8
    <2>3. Own(p, at)
      BY <1>1, <1>10, <2>2, MainComesOwn DEF IsMain, d
    <2>4. at[1] = n
      BY <2>3 DEF Own
    <2>5. FoundBy(d) = <<m>>
      BY <1>10, <2>1, <2>2 DEF FoundBy
    <2>6. NamedAsNamespace(p, at)
      BY <1>6, <2>4, <2>5 DEF NamedAsNamespace, d
    <2> QED
      BY <1>1, <1>3, <1>10, <2>6 DEF Clear
  <1> QED
    BY <1>2, <1>8, <1>9, <1>10

-----------------------------------------------------------------------------
(* What comes into the scope of p the second time: what is left of p, then *)
(* what is public of what is left of its imports.                          *)
Piece(p, a) == Cleaned(Sources(p)[a[1]])[a[2]]
Pieces(p) ==
  {a \in UNION {{k} \X (1..Len(Cleaned(Sources(p)[k]))) : k \in 1..Len(Sources(p))} :
     Own(p, a) \/ Piece(p, a).public}
Filled(r, p, S) ==
  /\ r.thrown = "none" /\ Holds(r.scope, {Piece(p, a) : a \in S})
  /\ r.scope.namespaces = scopes[p].namespaces

LEMMA PieceIs ==
  ASSUME Inv, Watched, NEW p \in Files, NEW a \in Pieces(p)
  PROVE  LET k == a[1]
             q == Sources(p)[k]
         IN /\ k \in 1..Len(Sources(p)) /\ Len(Sources(p)) \in Nat /\ q \in Files /\ a = <<k, a[2]>>
            /\ a[2] \in 1..Len(Cleaned(q)) /\ Len(Cleaned(q)) \in Nat
            /\ CopiesUpTo(Cleaned(q), q, Len(program[q])) /\ Piece(p, a) = Cleaned(q)[a[2]]
            /\ k = Len(Sources(p)) \/ Piece(p, a).public
            /\ Len(program[q]) \in Nat
  <1>1. PICK k \in 1..Len(Sources(p)) : a \in {k} \X (1..Len(Cleaned(Sources(p)[k])))
    BY DEF Pieces
  <1>2. a[1] = k /\ a[2] \in 1..Len(Cleaned(Sources(p)[k])) /\ a = <<k, a[2]>>
    BY <1>1
  <1>3. Sources(p)[k] \in Files /\ Len(Sources(p)) \in Nat
    BY SourcesAre
  <1>4. ~HasStatement(Sources(p)[k])
    BY <1>3 DEF Watched, Overlooked
  <1>5. /\ Len(Cleaned(Sources(p)[k])) \in Nat
        /\ CopiesUpTo(Cleaned(Sources(p)[k]), Sources(p)[k], Len(program[Sources(p)[k]]))
    BY <1>3, <1>4, CleanedHas DEF Inv
  <1>6. Len(program[Sources(p)[k]]) \in Nat
    BY <1>3, ProgramIs DEF Inv, TypeOK
  <1>7. k = Len(Sources(p)) \/ Piece(p, a).public
    BY <1>2 DEF Pieces, Own
  <1> QED
    BY <1>1, <1>2, <1>3, <1>5, <1>6, <1>7 DEF Piece

(* A copy that comes into the scope of p is of a declaration that arrives. *)
LEMMA Arrives ==
  ASSUME Inv, Tied, NEW p \in Files, NEW k \in 1..Len(Sources(p)),
         NEW h \in 1..Len(program[Sources(p)[k]]), NEW x, CopyOf(x, program[Sources(p)[k]][h]),
         k = Len(Sources(p)) \/ x.public
  PROVE  <<k, h>> \in Arriving(p) /\ Entry(p, <<k, h>>) = program[Sources(p)[k]][h] /\ x \in Offerable
  <1> DEFINE q == Sources(p)[k]
             at == <<k, h>>
             d == program[q][h]
  <1>1. q \in Files
    BY SourcesAre
  <1>2. NamedAs(x, d)
    BY <1>1, CopyNamed
  <1>3. at \in PlacesOf(p)
    BY PlacesAre DEF Inv, TypeOK
  <1>4. Entry(p, at) = d /\ (Own(p, at) <=> k = Len(Sources(p)))
    BY DEF Entry, Own
  <1>5. d.kind \in {"type", "function", "variable"}
    BY DEF CopyOf
  <1> HIDE DEF d, at, q
  <1>6. CASE d.kind = "type"
    BY <1>2, <1>3, <1>4, <1>6 DEF Arriving, NamedAs, at, d, q
  <1>7. CASE d.kind # "type"
    <2>1. x.public = d.public
      BY <1>2, <1>5, <1>7 DEF NamedAs
    <2>2. Offered(d, Own(p, at))
      BY <1>4, <1>5, <2>1 DEF Offered
    <2>3. at \in Entering(p)
      BY <1>3, <1>4, <2>2 DEF Entering
    <2> QED
      BY <1>2, <1>3, <1>4, <2>3 DEF Arriving, NamedAs, at, d, q
  <1> QED
    BY <1>6, <1>7

LEMMA PieceStands ==
  ASSUME Inv, Tied, complete, Watched, NEW p \in Files, NEW a \in Pieces(p)
  PROVE  Piece(p, a) \in Offerable /\ ~Named(scopes[p].namespaces, Piece(p, a))
  <1> DEFINE k == a[1]
             q == Sources(p)[k]
             x == Piece(p, a)
  <1>1. /\ k \in 1..Len(Sources(p)) /\ q \in Files
        /\ a[2] \in 1..Len(Cleaned(q)) /\ x = Cleaned(q)[a[2]]
        /\ CopiesUpTo(Cleaned(q), q, Len(program[q]))
        /\ k = Len(Sources(p)) \/ x.public
    BY PieceIs
  <1> HIDE DEF k, x
  <1>2. PICK h \in 1..Len(program[q]) : CopyOf(x, program[q][h])
    BY <1>1 DEF CopiesUpTo
  <1>3. <<k, h>> \in Arriving(p) /\ Entry(p, <<k, h>>) = program[q][h] /\ x \in Offerable
    BY <1>1, <1>2, Arrives
  <1>4. ~Named(scopes[p].namespaces, x)
    <2> DEFINE at == <<k, h>>
    <2>1. at \in Arriving(p) /\ CopyOf(x, Entry(p, at))
      BY <1>2, <1>3
    <2> HIDE DEF at
    <2> QED
      BY <2>1, CopyUnnamed
  <1> QED
    BY <1>3, <1>4 DEF x

LEMMA PiecesApart ==
  ASSUME Inv, Tied, complete, Watched, NEW p \in Files, NEW a \in Pieces(p), NEW b \in Pieces(p),
         Sooner(p, a, b)
  PROVE  ~Bars(Piece(p, a), Piece(p, b))
  <1> DEFINE k == a[1]
             l == b[1]
             i == a[2]
             j == b[2]
             n == Len(Sources(p))
             q == Sources(p)[k]
             r == Sources(p)[l]
             x == Piece(p, a)
             y == Piece(p, b)
  <1>1. /\ k \in 1..n /\ n \in Nat /\ q \in Files /\ i \in 1..Len(Cleaned(q)) /\ Len(Cleaned(q)) \in Nat
        /\ CopiesUpTo(Cleaned(q), q, Len(program[q])) /\ x = Cleaned(q)[i]
        /\ k = n \/ x.public
        /\ Len(program[q]) \in Nat
    BY PieceIs
  <1>2. /\ l \in 1..n /\ r \in Files /\ j \in 1..Len(Cleaned(r)) /\ Len(Cleaned(r)) \in Nat
        /\ CopiesUpTo(Cleaned(r), r, Len(program[r])) /\ y = Cleaned(r)[j]
        /\ l = n \/ y.public
        /\ Len(program[r]) \in Nat
    BY PieceIs
  <1>3. IF k = n <=> l = n THEN k < l \/ (k = l /\ i < j) ELSE k = n
    BY DEF Sooner, Own, Before
  <1>4. \A g, h : Sooner(p, <<k, g>>, <<l, h>>) <=>
          IF k = n <=> l = n THEN k < l \/ (k = l /\ g < h) ELSE k = n
    BY DEF Sooner, Own, Before
  <1>10. ASSUME NEW g \in 1..Len(program[q]), NEW h \in 1..Len(program[r]),
                CopyOf(x, program[q][g]), CopyOf(y, program[r][h]),
                Sooner(p, <<k, g>>, <<l, h>>) \/ (<<k, g>> = <<l, h>> /\ x # y)
         PROVE  ~Bars(x, y)
    <2> DEFINE at == <<k, g>>
               bt == <<l, h>>
    <2>1. at \in Arriving(p) /\ Entry(p, at) = program[q][g]
      BY <1>1, <1>10, Arrives
    <2>2. bt \in Arriving(p) /\ Entry(p, bt) = program[r][h]
      BY <1>2, <1>10, Arrives
    <2>3. CopyOf(x, Entry(p, at)) /\ CopyOf(y, Entry(p, bt))
      BY <1>10, <2>1, <2>2
    <2>4. Sooner(p, at, bt) \/ (at = bt /\ x # y)
      BY <1>10
    <2> HIDE DEF at, bt, x, y
    <2> QED
      BY <2>1, <2>2, <2>3, <2>4, CopiesPass
  <1>5. CASE k = l
    <2>1. q = r /\ i < j
      BY <1>1, <1>3, <1>5
    <2>2. PICK g \in 1..Len(program[q]), h \in 1..Len(program[q]) :
            /\ CopyOf(x, program[q][g]) /\ CopyOf(y, program[q][h])
            /\ g < h \/ (g = h /\ x # y)
      <3> HIDE DEF k, l, i, j, x, y
      <3>1. i \in 1..Len(Cleaned(q)) /\ j \in 1..Len(Cleaned(q)) /\ i < j
        BY <1>1, <1>2, <2>1
      <3>2. x = Cleaned(q)[i] /\ y = Cleaned(q)[j]
        BY <1>1, <1>2, <2>1
      <3>3. \E g, h \in 1..Len(program[q]) :
              /\ CopyOf(Cleaned(q)[i], program[q][g]) /\ CopyOf(Cleaned(q)[j], program[q][h])
              /\ g < h \/ (g = h /\ Cleaned(q)[i] # Cleaned(q)[j])
        BY <1>1, <3>1 DEF CopiesUpTo
      <3> QED
        BY <3>2, <3>3
    <2>3. g < h => Sooner(p, <<k, g>>, <<l, h>>)
      BY <1>4, <1>5
    <2>4. g = h => <<k, g>> = <<l, h>>
      BY <1>5
    <2>5. h \in 1..Len(program[r]) /\ CopyOf(y, program[r][h])
      BY <2>1, <2>2
    <2> HIDE DEF k, l, i, j, n, q, r, x, y
    <2>6. Sooner(p, <<k, g>>, <<l, h>>) \/ (<<k, g>> = <<l, h>> /\ x # y)
      BY <2>2, <2>3, <2>4
    <2>7. ~Bars(x, y)
      BY <1>10, <2>2, <2>5, <2>6
    <2> QED
      BY <2>7 DEF x, y
  <1>6. CASE k # l
    <2> HIDE DEF k, l, i, j, n, q, r, x, y
    <2>1. PICK g \in 1..Len(program[q]) : CopyOf(x, program[q][g])
      BY <1>1 DEF CopiesUpTo
    <2>2. PICK h \in 1..Len(program[r]) : CopyOf(y, program[r][h])
      BY <1>2 DEF CopiesUpTo
    <2>3. Sooner(p, <<k, g>>, <<l, h>>)
      BY <1>3, <1>4, <1>6
    <2>4. ~Bars(x, y)
      BY <1>10, <2>1, <2>2, <2>3
    <2> QED
      BY <2>4 DEF x, y
  <1> QED
    BY <1>5, <1>6

(* One more piece is taken.                                                *)
LEMMA FilledMore ==
  ASSUME Inv, Tied, complete, Watched, NEW p \in Files, NEW E, NEW r \in Result(E),
         NEW S \in SUBSET Pieces(p), Filled(r, p, S), NEW a \in Pieces(p), \A b \in S : Sooner(p, b, a)
  PROVE  Filled(Add(r.scope, Piece(p, a)), p, S \cup {a})
  <1> DEFINE s == r.scope
             D == {Piece(p, b) : b \in S}
             d == Piece(p, a)
             x == Add(s, d)
  <1>1. s \in Scope(E) /\ Holds(s, D) /\ s.namespaces = scopes[p].namespaces
    BY DEF Filled, Result
  <1>2. d \in Offerable /\ ~Named(s.namespaces, d)
    BY <1>1, PieceStands
  <1>3. D \in SUBSET Offerable
    BY PieceStands
  <1>4. \A e \in D : ~Bars(e, d)
    BY PiecesApart
  <1>5. {Piece(p, b) : b \in S \cup {a}} = D \cup {d}
    OBVIOUS
  <1> HIDE DEF s, D, d
  <1>6. ~Kept(s, D, d)
    BY <1>2, <1>4 DEF Kept
  <1>7. x.thrown = "none" /\ Holds(x.scope, D \cup {d}) /\ x.scope.namespaces = s.namespaces
    BY <1>1, <1>2, <1>3, <1>6, AddJudged
  <1> HIDE DEF x
  <1>8. Filled(x, p, S \cup {a})
    BY <1>1, <1>5, <1>7 DEF Filled
  <1> QED
    BY <1>8 DEF x, s, d

(* The pieces of p up to the i-th, and those with what has come since, up  *)
(* to the i-th of the k-th file.                                           *)
OwnTo(p, i) == {a \in Pieces(p) : Own(p, a) /\ a[2] <= i}
SinceTo(p, k, i) == {a \in Pieces(p) : Own(p, a) \/ a[1] < k \/ (a[1] = k /\ a[2] <= i)}

LEMMA PieceNumbers ==
  ASSUME Inv, Watched, NEW p \in Files, NEW a \in Pieces(p)
  PROVE  /\ a[1] \in Nat /\ a[2] \in Nat /\ a[2] > 0 /\ a[1] > 0 /\ a = <<a[1], a[2]>>
         /\ a[1] <= Len(Sources(p)) /\ a[2] <= Len(Cleaned(Sources(p)[a[1]]))
         /\ Own(p, a) <=> a[1] = Len(Sources(p))
  <1> DEFINE k == a[1]
             i == a[2]
             n == Len(Sources(p))
             m == Len(Cleaned(Sources(p)[k]))
  <1>1. k \in 1..n /\ n \in Nat /\ a = <<k, i>> /\ i \in 1..m /\ m \in Nat
    BY PieceIs
  <1>2. Own(p, a) <=> k = n
    BY DEF Own
  <1>3. k \in Nat /\ i \in Nat /\ i > 0 /\ k > 0 /\ k <= n /\ i <= m
    <2> HIDE DEF k, i, n, m
    <2> QED
      BY <1>1
  <1> QED
    BY <1>1, <1>2, <1>3

LEMMA PieceThere ==
  ASSUME NEW p \in Files, NEW k \in 1..Len(Sources(p)), NEW i \in 1..Len(Cleaned(Sources(p)[k])),
         k = Len(Sources(p)) \/ Cleaned(Sources(p)[k])[i].public
  PROVE  <<k, i>> \in Pieces(p) /\ Piece(p, <<k, i>>) = Cleaned(Sources(p)[k])[i]
  <1> DEFINE a == <<k, i>>
  <1>1. a \in {k} \X (1..Len(Cleaned(Sources(p)[k])))
    OBVIOUS
  <1>2. Piece(p, a) = Cleaned(Sources(p)[k])[i] /\ (Own(p, a) <=> k = Len(Sources(p)))
    BY DEF Piece, Own
  <1> HIDE DEF a
  <1>3. a \in Pieces(p)
    BY <1>1, <1>2 DEF Pieces
  <1> QED
    BY <1>2, <1>3 DEF a

(* The scope of what is left of p itself.                                  *)
LEMMA OwnFilled ==
  ASSUME Inv, Tied, complete, Watched, NEW p \in Files
  PROVE  set_scope(p) \in Result(Linkable) /\ Filled(set_scope(p), p, OwnTo(p, Len(Cleaned(p))))
  <1> DEFINE c == Cleaned(p)
             n == Len(c)
             k == Len(Sources(p))
             R == Result(Linkable)
             G == [i \in 0..n |-> {r \in R : Filled(r, p, OwnTo(p, i))}]
             s == add_namespaces(EmptyScope, scopes[p].namespaces)
             start == Inserted(s)
  <1>1. /\ k \in 1..Len(Sources(p)) /\ Sources(p)[k] = p /\ k \in Nat
    BY SourcesAre
  <1>2. c \in Seq(Left) /\ n \in Nat
    <2>1. ~HasStatement(p)
      BY DEF Watched, Overlooked
    <2> QED
      BY <2>1, CleanedHas DEF Inv
  <1>3. \A i \in 1..n : Fit(c[i], Linkable)
    <2>1. \A i \in 1..n : c[i] \in Left
      <3> HIDE DEF c
      <3> QED
        BY <1>2
    <2> QED
      BY <2>1, LeftFits DEF Inv
  <1>4. \A i \in 0..n : G[i] = {r \in R : Filled(r, p, OwnTo(p, i))}
    OBVIOUS
  <1>5. start \in R
    <2>1. scopes[p].namespaces \in SUBSET STRING
      BY DEF Inv, TypeOK, Scope
    <2>2. s \in Scope(Linkable)
      BY <2>1, EmptyScopeIs, NamespacesKeep
    <2> QED
      BY <2>2, InsertedIs
  <1>6. OwnTo(p, 0) = {}
    BY PieceNumbers DEF OwnTo
  <1>7. Filled(start, p, OwnTo(p, 0))
    <2>1. start.thrown = "none" /\ start.scope = s
      BY DEF Inserted
    <2>2. s.entries = {} /\ s.recorded = {} /\ s.namespaces = scopes[p].namespaces
      BY DEF add_namespaces, EmptyScope
    <2> HIDE DEF s, start
    <2>3. Holds(s, {})
      BY <2>2 DEF Holds, Types, Recorded
    <2>4. {Piece(p, a) : a \in {}} = {}
      OBVIOUS
    <2> QED
      BY <1>6, <2>1, <2>2, <2>3, <2>4 DEF Filled
  <1> HIDE DEF G
  <1>8. start \in G[0] /\ n \in 0..n
    BY <1>2, <1>4, <1>5, <1>7
  <1>9. ASSUME NEW i \in 1..n, NEW r \in R
        PROVE  PutCopy(r, c[i]) \in R /\ (r \in G[i - 1] => PutCopy(r, c[i]) \in G[i])
    <2> DEFINE d == c[i]
               x == Add(r.scope, d)
               y == PutCopy(r, d)
               a == <<k, i>>
               S == OwnTo(p, i - 1)
    <2>1. r.scope \in Scope(Linkable)
      BY DEF Result
    <2>2. x \in R
      BY <1>3, <2>1, AddKeeps
    <2>3. y = IF r.thrown = "collide" THEN r ELSE x
      BY DEF PutCopy
    <2>4. a \in Pieces(p) /\ Piece(p, a) = d /\ a[1] = k /\ a[2] = i
      BY <1>1, PieceThere
    <2>5. i \in Nat /\ i - 1 \in Nat /\ i \in 0..n /\ i - 1 \in 0..n
      BY <1>2
    <2> HIDE DEF x, y, d
    <2>6. ASSUME NEW b \in S
          PROVE  Sooner(p, b, a)
      <3>1. b \in Pieces(p) /\ Own(p, b) /\ b[2] <= i - 1
        BY DEF OwnTo
      <3>2. b[1] = k /\ b[2] \in Nat
        BY <3>1, PieceNumbers
      <3>3. b[2] < i
        BY <2>5, <3>1, <3>2
      <3>4. Own(p, a)
        BY <2>4 DEF Own
      <3> HIDE DEF a, k
      <3> QED
        BY <2>4, <3>1, <3>2, <3>3, <3>4 DEF Sooner, Before
    <2>7. OwnTo(p, i) = S \cup {a}
      <3>1. Own(p, a)
        BY <2>4 DEF Own
      <3>2. ASSUME NEW b \in OwnTo(p, i), b \notin S
            PROVE  b = a
        <4>1. b \in Pieces(p) /\ Own(p, b) /\ b[2] <= i
          BY DEF OwnTo
        <4>2. b[1] = k /\ b[2] \in Nat /\ b = <<b[1], b[2]>>
          BY <4>1, PieceNumbers
        <4>3. ~(b[2] <= i - 1)
          BY <3>2, <4>1 DEF OwnTo
        <4>4. b[2] = i
          BY <2>5, <4>1, <4>2, <4>3
        <4> QED
          BY <4>2, <4>4
      <3>3. ASSUME NEW b \in S
            PROVE  b \in OwnTo(p, i)
        <4>1. b \in Pieces(p) /\ Own(p, b) /\ b[2] <= i - 1
          BY DEF OwnTo
        <4>2. b[2] \in Nat
          BY <4>1, PieceNumbers
        <4>3. b[2] <= i
          BY <2>5, <4>1, <4>2
        <4> QED
          BY <4>1, <4>3 DEF OwnTo
      <3>4. a \in OwnTo(p, i)
        BY <2>4, <2>5, <3>1 DEF OwnTo
      <3> QED
        BY <3>2, <3>3, <3>4
    <2>8. ASSUME r \in G[i - 1]
          PROVE  y \in G[i]
      <3>1. Filled(r, p, S)
        BY <1>4, <2>5, <2>8
      <3>2. y = x
        BY <2>3, <3>1 DEF Filled
      <3>3. S \in SUBSET Pieces(p)
        BY DEF OwnTo
      <3> HIDE DEF S, a
      <3>4. Filled(Add(r.scope, Piece(p, a)), p, S \cup {a})
        BY <2>4, <2>6, <3>1, <3>3, FilledMore
      <3>5. Filled(x, p, OwnTo(p, i))
        BY <2>4, <2>7, <3>4 DEF x
      <3> HIDE DEF R
      <3> QED
        BY <1>4, <2>2, <2>5, <3>2, <3>5
    <2>9. y \in R
      BY <2>2, <2>3
    <2> HIDE DEF R
    <2> QED
      BY <2>8, <2>9 DEF y, d
  <1>10. start = Inserted(add_namespaces(EmptyScope, scopes[p].namespaces))
    OBVIOUS
  <1> HIDE DEF start, R
  <1>11. set_scope(p) \in R /\ set_scope(p) \in G[n]
    BY <1>2, <1>5, <1>8, <1>9, <1>10, SetScopeReaches
  <1> QED
    BY <1>4, <1>8, <1>11 DEF R

(* One declaration of what is left of an import.                           *)
LEMMA SinceMore ==
  ASSUME Inv, Watched, NEW p \in Files, NEW k \in Nat, k < Len(Sources(p)), k > 0, NEW i \in Nat, i > 0
  PROVE  /\ \A b \in SinceTo(p, k, i - 1) : Sooner(p, b, <<k, i>>)
         /\ SinceTo(p, k, i) \subseteq SinceTo(p, k, i - 1) \cup {<<k, i>>}
         /\ SinceTo(p, k, i - 1) \subseteq SinceTo(p, k, i)
         /\ <<k, i>> \in SinceTo(p, k, i) <=> <<k, i>> \in Pieces(p)
  <1> DEFINE a == <<k, i>>
             n == Len(Sources(p))
  <1>1. n \in Nat /\ a[1] = k /\ a[2] = i
    BY SourcesAre
  <1>2. ~Own(p, a)
    BY <1>1 DEF Own
  <1>3. i - 1 \in Nat
    OBVIOUS
  <1> HIDE DEF a, n
  <1>4. ASSUME NEW b \in SinceTo(p, k, i - 1)
        PROVE  Sooner(p, b, a) /\ b \in SinceTo(p, k, i)
    <2>1. b \in Pieces(p) /\ (Own(p, b) \/ b[1] < k \/ (b[1] = k /\ b[2] <= i - 1))
      BY DEF SinceTo
    <2>2. b[1] \in Nat /\ b[2] \in Nat
      BY <2>1, PieceNumbers
    <2>3. Own(p, b) \/ b[1] < k \/ (b[1] = k /\ b[2] < i /\ b[2] <= i)
      BY <2>1, <2>2
    <2> QED
      BY <1>1, <1>2, <2>1, <2>3 DEF Sooner, Before, SinceTo
  <1>5. ASSUME NEW b \in SinceTo(p, k, i), b \notin SinceTo(p, k, i - 1)
        PROVE  b = a
    <2>1. b \in Pieces(p) /\ (Own(p, b) \/ b[1] < k \/ (b[1] = k /\ b[2] <= i))
      BY DEF SinceTo
    <2>2. b[1] \in Nat /\ b[2] \in Nat /\ b = <<b[1], b[2]>>
      BY <2>1, PieceNumbers
    <2>3. ~(Own(p, b) \/ b[1] < k \/ (b[1] = k /\ b[2] <= i - 1))
      BY <1>5, <2>1 DEF SinceTo
    <2>4. b[1] = k /\ b[2] = i
      BY <2>1, <2>2, <2>3
    <2> QED
      BY <2>2, <2>4 DEF a
  <1>6. a \in SinceTo(p, k, i) <=> a \in Pieces(p)
    BY <1>1 DEF SinceTo
  <1> QED
    BY <1>4, <1>5, <1>6 DEF a

LEMMA SinceStarts ==
  ASSUME Inv, Watched, NEW p \in Files
  PROVE  /\ OwnTo(p, Len(Cleaned(p))) = SinceTo(p, 1, 0)
         /\ \A k \in Nat : k > 0 /\ k < Len(Sources(p)) =>
              SinceTo(p, k, Len(Cleaned(Sources(p)[k]))) = SinceTo(p, k + 1, 0)
  <1> DEFINE n == Len(Sources(p))
  <1>1. n \in Nat /\ Sources(p)[n] = p
    BY SourcesAre
  <1>2. ASSUME NEW a \in Pieces(p)
        PROVE  /\ Own(p, a) => a[2] <= Len(Cleaned(p))
               /\ ~(a[1] < 1 \/ (a[1] = 1 /\ a[2] <= 0))
    BY <1>1, PieceNumbers
  <1>3. OwnTo(p, Len(Cleaned(p))) = SinceTo(p, 1, 0)
    BY <1>2 DEF OwnTo, SinceTo
  <1>4. ASSUME NEW k \in Nat
        PROVE  SinceTo(p, k, Len(Cleaned(Sources(p)[k]))) = SinceTo(p, k + 1, 0)
    <2> DEFINE m == Len(Cleaned(Sources(p)[k]))
    <2>1. ASSUME NEW a \in Pieces(p)
          PROVE  (a[1] < k \/ (a[1] = k /\ a[2] <= m)) <=> (a[1] < k + 1 \/ (a[1] = k + 1 /\ a[2] <= 0))
      <3>1. a[1] \in Nat /\ a[2] \in Nat /\ a[2] > 0 /\ (a[1] = k => a[2] <= m)
        BY PieceNumbers
      <3> HIDE DEF m
      <3> QED
        BY <3>1
    <2> HIDE DEF m
    <2>2. SinceTo(p, k, m) = SinceTo(p, k + 1, 0)
      BY <2>1 DEF SinceTo
    <2> QED
      BY <2>2 DEF m
  <1> QED
    BY <1>3, <1>4

(* What the file k of the list adds.                                       *)
LEMMA ImportFills ==
  ASSUME Inv, Tied, complete, Watched, NEW p \in Files, NEW k \in 1..Len(ImportsOf[p]),
         NEW r \in Result(Linkable), Filled(r, p, SinceTo(p, k, 0))
  PROVE  LET q == ImportsOf[p][k]
         IN Filled(Import(r, q, Cleaned(q), FALSE), p, SinceTo(p, k, Len(Cleaned(q))))
  <1> DEFINE q == ImportsOf[p][k]
             c == Cleaned(q)
             n == Len(c)
             private == FALSE
             R == Result(Linkable)
             G == [i \in 0..n |-> {x \in R : Filled(x, p, SinceTo(p, k, i))}]
             s == r.scope
             t == add_namespaces(s, NamespacesOf(q))
             start == Inserted(t)
  <1>1. /\ q \in Files /\ Sources(p)[k] = q /\ k \in 1..Len(Sources(p)) /\ k \in Nat /\ k > 0
        /\ k < Len(Sources(p)) /\ Len(Sources(p)) \in Nat
    <2> DEFINE m == Len(ImportsOf[p])
    <2>1. m \in Nat /\ Len(Sources(p)) = m + 1 /\ Sources(p)[k] = q /\ q \in Files
      BY SourcesAre
    <2>2. k \in 1..m
      OBVIOUS
    <2> HIDE DEF m
    <2> QED
      BY <2>1, <2>2
  <1>2. c \in Seq(Left) /\ n \in Nat
    <2>1. ~HasStatement(q)
      BY <1>1 DEF Watched, Overlooked
    <2> QED
      BY <1>1, <2>1, CleanedHas DEF Inv
  <1>3. \A i \in 1..n : Fit(c[i], Linkable)
    <2>1. \A i \in 1..n : c[i] \in Left
      <3> HIDE DEF c
      <3> QED
        BY <1>2
    <2> QED
      BY <2>1, LeftFits DEF Inv
  <1>4. \A i \in 0..n : G[i] = {x \in R : Filled(x, p, SinceTo(p, k, i))}
    OBVIOUS
  <1>5. r.thrown = "none" /\ s \in Scope(Linkable) /\ NamespacesOf(q) \in SUBSET STRING
    BY <1>1, ProgramIs DEF Filled, Result, Inv, TypeOK
  <1>6. start \in R
    BY <1>5, NamespacesKeep, InsertedIs
  <1>7. Filled(start, p, SinceTo(p, k, 0))
    <2>1. start.thrown = "none" /\ start.scope = t
      BY DEF Inserted
    <2>2. t.entries = s.entries /\ t.recorded = s.recorded /\ t.namespaces = s.namespaces \cup NamespacesOf(q)
      BY <1>5 DEF add_namespaces, Scope
    <2>3. s.namespaces = scopes[p].namespaces
      BY DEF Filled
    <2>4. NamespacesOf(q) \subseteq scopes[p].namespaces
      <3>1. scopes[p].namespaces = NamesThrough(p, Len(Sources(p)))
        BY ScopeHolds
      <3> QED
        BY <1>1, <1>5, <3>1 DEF NamesThrough
    <2> DEFINE D == {Piece(p, a) : a \in SinceTo(p, k, 0)}
    <2>5. Holds(s, D)
      BY DEF Filled
    <2> HIDE DEF D, s, t, start
    <2>6. Holds(t, D)
      BY <2>2, <2>5 DEF Holds, Recorded
    <2> QED
      BY <2>1, <2>2, <2>3, <2>4, <2>6 DEF Filled, D
  <1> HIDE DEF G
  <1>8. start \in G[0] /\ n \in 0..n
    BY <1>2, <1>4, <1>6, <1>7
  <1>9. \A i \in 1..n : \A x \in R : Insert(x, c[i], private) \in R
    BY <1>3, InsertKeeps
  <1>10. ASSUME NEW i \in 1..n, NEW x \in R, x \in G[i - 1]
         PROVE  Insert(x, c[i], private) \in G[i]
    <2> DEFINE a == <<k, i>>
               d == c[i]
               S == SinceTo(p, k, i - 1)
               y == Insert(x, d, private)
    <2>1. i \in Nat /\ i > 0 /\ i \in 0..n /\ i - 1 \in 0..n
      BY <1>2
    <2>2. Filled(x, p, S)
      BY <1>4, <1>10, <2>1
    <2>3. /\ \A b \in S : Sooner(p, b, a)
          /\ SinceTo(p, k, i) \subseteq S \cup {a} /\ S \subseteq SinceTo(p, k, i)
          /\ a \in SinceTo(p, k, i) <=> a \in Pieces(p)
      BY <1>1, <2>1, SinceMore
    <2>4. y \in R
      BY <1>9
    <2>5. d.kind # "statement"
      <3>1. ~HasStatement(q)
        BY <1>1 DEF Watched, Overlooked
      <3>2. CopiesUpTo(c, q, Len(program[q]))
        BY <1>1, <3>1, CleanedHas DEF Inv
      <3>3. PICK h \in 1..Len(program[q]) : CopyOf(d, program[q][h])
        BY <3>2 DEF CopiesUpTo
      <3>4. NamedAs(d, program[q][h]) /\ program[q][h].kind # "statement"
        BY <1>1, <3>3, CopyNamed DEF CopyOf
      <3> QED
        BY <3>4 DEF NamedAs
    <2>6. a \in Pieces(p) <=> d.public
      <3>1. Own(p, a) <=> FALSE
        BY <1>1 DEF Own
      <3>2. Piece(p, a) = d
        BY <1>1 DEF Piece
      <3>3. a \in Pieces(p) => d.public
        BY <3>1, <3>2 DEF Pieces
      <3>4. d.public => a \in Pieces(p)
        BY <1>1, PieceThere
      <3> QED
        BY <3>3, <3>4
    <2>7. Piece(p, a) = d
      BY <1>1 DEF Piece
    <2>8. S \in SUBSET Pieces(p)
      BY DEF SinceTo
    <2>9. y = IF d.public THEN Add(x.scope, d) ELSE x
      BY <2>2, <2>5 DEF Insert, Offered, Filled
    <2> HIDE DEF a, d, S, y
    <2>10. CASE d.public
      <3>1. a \in Pieces(p)
        BY <2>6, <2>10
      <3>2. SinceTo(p, k, i) = S \cup {a}
        BY <2>3, <3>1
      <3>3. Filled(Add(x.scope, Piece(p, a)), p, S \cup {a})
        BY <2>2, <2>3, <2>8, <3>1, FilledMore
      <3>4. Filled(y, p, SinceTo(p, k, i))
        BY <2>7, <2>9, <2>10, <3>2, <3>3
      <3> HIDE DEF R
      <3> QED
        BY <1>4, <2>1, <2>4, <3>4 DEF y, d
    <2>11. CASE ~d.public
      <3>1. a \notin SinceTo(p, k, i)
        BY <2>3, <2>6, <2>11
      <3>2. SinceTo(p, k, i) = S
        BY <2>3, <3>1
      <3>3. Filled(y, p, SinceTo(p, k, i))
        BY <2>2, <2>9, <2>11, <3>2
      <3> HIDE DEF R
      <3> QED
        BY <1>4, <2>1, <2>4, <3>3 DEF y, d
    <2> QED
      BY <2>10, <2>11
  <1>11. Import(r, q, c, private) = AddAll(start, c, private)
    BY <1>5 DEF Import
  <1> HIDE DEF start, R, c, private
  <1>12. AddAll(start, c, private) \in G[n]
    BY <1>2, <1>6, <1>8, <1>9, <1>10, AddAllReaches
  <1>13. Filled(Import(r, q, c, private), p, SinceTo(p, k, n))
    BY <1>4, <1>8, <1>11, <1>12
  <1> QED
    BY <1>13 DEF c, private

(* Where nothing is overlooked, nothing is refused the second time.        *)
LEMMA AllPass ==
  ASSUME Inv, Tied, complete, Watched, NEW p \in Files
  PROVE  set_scope(p).thrown = "none" /\ Linking(set_scope(p).scope, p).thrown = "none"
  <1> DEFINE files == ImportsOf[p]
             n == Len(files)
             contents == [q \in Files |-> Cleaned(q)]
             own == set_scope(p)
             sofar == Inserted(own.scope)
             R == Result(Linkable)
             G == [k \in 0..n |-> {x \in R : Filled(x, p, SinceTo(p, k + 1, 0))}]
  <1>1. own \in R /\ Filled(own, p, SinceTo(p, 1, 0))
    BY OwnFilled, SinceStarts
  <1> HIDE DEF own
  <1>2. own.thrown = "none" /\ own.scope \in Scope(Linkable)
    BY <1>1 DEF Filled, Result
  <1>3. sofar \in R /\ Filled(sofar, p, SinceTo(p, 1, 0))
    <2>1. sofar \in R
      BY <1>2, InsertedIs
    <2>2. sofar.thrown = "none" /\ sofar.scope = own.scope
      BY DEF Inserted
    <2> HIDE DEF sofar
    <2> QED
      BY <1>1, <2>1, <2>2 DEF Filled
  <1>4. n \in Nat /\ \A k \in 1..n : files[k] \in Files /\ Sources(p)[k] = files[k]
    BY SourcesAre
  <1>5. Len(Sources(p)) = n + 1
    BY SourcesAre
  <1>6. \A k \in 0..n : G[k] = {x \in R : Filled(x, p, SinceTo(p, k + 1, 0))}
    OBVIOUS
  <1> HIDE DEF sofar, G
  <1>7. sofar \in G[0]
    <2>1. 0 \in 0..n /\ 0 + 1 = 1
      BY <1>4
    <2> HIDE DEF R
    <2> QED
      BY <1>3, <1>6, <2>1
  <1>8. ASSUME NEW k \in 1..n, NEW x \in R
        PROVE  Import(x, files[k], contents[files[k]], FALSE) \in R
    <2> DEFINE q == files[k]
               c == Cleaned(q)
    <2>1. q \in Files /\ contents[q] = c
      BY <1>4
    <2> HIDE DEF q
    <2>2. c \in Seq(Left)
      BY <2>1, CleanedIs DEF Inv
    <2> HIDE DEF c
    <2>3. Len(c) \in Nat /\ \A j \in 1..Len(c) : c[j] \in Left
      BY <2>2
    <2>4. \A j \in 1..Len(c) : Fit(c[j], Linkable)
      BY <2>3, LeftFits DEF Inv
    <2>5. NamespacesOf(q) \in SUBSET STRING
      BY <2>1, ProgramIs DEF Inv, TypeOK
    <2>6. Import(x, q, c, FALSE) \in R
      BY <2>3, <2>4, <2>5, ImportKeeps
    <2> QED
      BY <2>1, <2>6 DEF q, c
  <1>9. ASSUME NEW k \in 1..n, NEW x \in R, x \in G[k - 1]
        PROVE  Import(x, files[k], contents[files[k]], FALSE) \in G[k]
    <2> DEFINE q == files[k]
               y == Import(x, q, Cleaned(q), FALSE)
    <2>1. q \in Files /\ contents[q] = Cleaned(q) /\ Sources(p)[k] = q
      BY <1>4
    <2>2. k \in 0..n /\ k - 1 \in 0..n /\ (k - 1) + 1 = k /\ k \in Nat /\ k > 0 /\ k < Len(Sources(p))
      BY <1>4, <1>5
    <2>3. Filled(x, p, SinceTo(p, k, 0))
      <3> HIDE DEF R
      <3> QED
        BY <1>6, <1>9, <2>2
    <2>4. Filled(y, p, SinceTo(p, k, Len(Cleaned(q))))
      BY <2>3, ImportFills
    <2>5. Filled(y, p, SinceTo(p, k + 1, 0))
      BY <2>1, <2>2, <2>4, SinceStarts
    <2>6. y \in R
      BY <1>8, <2>1
    <2> HIDE DEF y, R, q
    <2>7. y \in G[k]
      BY <1>6, <2>2, <2>5, <2>6
    <2> QED
      BY <2>1, <2>7 DEF y, q
  <1>10. Linking(own.scope, p) = ImportAll(sofar, files, contents)
    BY DEF Linking, sofar
  <1> HIDE DEF files, contents, R
  <1>11. ImportAll(sofar, files, contents) \in G[n]
    BY <1>3, <1>4, <1>7, <1>8, <1>9, ImportAllReaches
  <1>12. n \in 0..n
    BY <1>4
  <1>13. ImportAll(sofar, files, contents).thrown = "none"
    BY <1>6, <1>11, <1>12 DEF Filled
  <1> QED
    BY <1>2, <1>10, <1>13 DEF own

-----------------------------------------------------------------------------
(* What the later phases still need of the earlier ones: the copy of       *)
(* __main__, the main program if one was cleaned, and no end before.       *)
MainCopied == checked => \E c \in copies : c.name = <<"__main__">>
MainKnown ==
  /\ mainFqn # "" => DeclaresMain(mainFqn)
  /\ phase = "clean" /\ complete =>
       \/ \E p \in Files : HasStatement(p)
       \/ \A p \in Files \ waiting : DeclaresMain(p) => mainFqn # ""
StillRuns == phase # "ended" => outcome = "running"

Explained == MainCopied /\ MainKnown /\ StillRuns /\ RefusedExplained

(* The copy of __main__ is of one that the main file finds, by name.       *)
LEMMA MainCopyIs ==
  ASSUME Inv, Tied, MainCopied, checked
  PROVE  \E c \in copies : \E f \in scopes[Main].entries :
           /\ c.name = <<"__main__">> /\ c.kind = "function" /\ c.ns = "*"
           /\ f.kind = "function" /\ f.name = <<"__main__">>
           /\ CopyOf(c, f) /\ c.public = f.public
           /\ f.id[1] \in Files /\ DeclaresMain(f.id[1])
  <1> DEFINE name == <<"__main__">>
             ns == "*"
  <1>1. PICK c \in copies : c.name = name
    BY DEF MainCopied
  <1>2. PICK f \in MainFound : f.id = c.id
    BY <1>1 DEF Inv, MainChecked
  <1>3. f \in Entries(scopes[Main], "function", ns, name)
    BY FoundIs DEF MainFound
  <1> HIDE DEF name, ns
  <1>4. /\ Written(f) /\ f \in scopes[Main].entries
        /\ f.kind = "function" /\ f.ns = ns /\ f.name = name
    BY <1>3, MainIs, FunctionWritten
  <1>5. Stems(c, Origin(c)) /\ c \in FunctionCopy
    BY DEF Tied, CopiesTied, Inv, TypeOK
  <1>6. f = Origin(c)
    BY <1>2, <1>4 DEF Origin, Written, Declares
  <1>7. c.kind = "function" /\ c.ns = ns /\ c.public = f.public
    BY <1>4, <1>5, <1>6 DEF Stems, FunctionCopy
  <1>8. CopyOf(c, f)
    BY <1>2, <1>4 DEF CopyOf, CopiesOf
  <1> DEFINE q == f.id[1]
             i == f.id[2]
  <1>9. q \in Files /\ i \in 1..Len(program[q]) /\ f = program[q][i]
    BY <1>4 DEF Written, Declares
  <1> HIDE DEF q, i
  <1>10. i \in DOMAIN program[q]
    <2>1. program[q] \in Seq(Declaration)
      BY <1>9, ProgramIs DEF Inv, TypeOK
    <2> QED
      BY <1>9, <2>1
  <1>11. DeclaresMain(q)
    BY <1>4, <1>9, <1>10 DEF DeclaresMain, IsMain, name
  <1> QED
    BY <1>1, <1>4, <1>7, <1>8, <1>9, <1>11 DEF q, name, ns

(* Nothing is overlooked: there is one main program, and __main__ is in it.*)
LEMMA MainAlone ==
  ASSUME Watched
  PROVE  \A p \in Files : ~HasStatement(p) /\ (DeclaresMain(p) => p = Main)
  BY DEF Watched, Overlooked

(* Then the interpreter finds it, once its scope is full.                  *)
LEMMA MainThere ==
  ASSUME Inv, Tied, MainCopied, MainKnown, Watched, complete, checked, mainFqn # "",
         \A q \in Files : Ready(q) /\ Full(q)
  PROVE  get_function(linked[mainFqn], "*", <<"__main__">>) # {}
  <1> DEFINE name == <<"__main__">>
             ns == "*"
  <1>1. TypeOK /\ Main \in Files
    BY MainIs DEF Inv
  <1>2. mainFqn = Main
    BY <1>1, MainAlone DEF TypeOK, MainKnown
  <1>3. PICK c \in copies : \E f \in scopes[Main].entries :
           /\ c.name = name /\ c.kind = "function" /\ c.ns = ns
           /\ f.kind = "function" /\ CopyOf(c, f) /\ c.public = f.public
    BY MainCopyIs
  <1> HIDE DEF ns
  <1>4. PICK f \in scopes[Main].entries :
           /\ c.name = name /\ c.kind = "function" /\ c.ns = ns
           /\ f.kind = "function" /\ CopyOf(c, f) /\ c.public = f.public
    BY <1>3
  <1>5. c \in linked[Main].entries
    BY <1>1, <1>4, FoundAgain DEF Findable
  <1>6. Tidy(linked[Main]) /\ linked[Main] \in Scope(Linkable)
    BY <1>1, FullIs
  <1> DEFINE found == Entries(linked[Main], "function", ns, name)
  <1>7. c \in found
    BY <1>4, <1>5 DEF Entries
  <1>8. ASSUME NEW e \in found
        PROVE  e = c
    <2>1. e \in linked[Main].entries /\ e.kind = "function" /\ e.name = name
      BY DEF Entries
    <2>2. e \in copies
      BY <1>6, <2>1 DEF Scope, Linkable, TypeDeclaration, VariableDeclaration, Constructor
    <2>3. e.id = c.id
      BY <1>4, <2>1, <2>2, MainCopiesOne
    <2> QED
      BY <1>4, <2>1, <2>2, <2>3 DEF Tied, CopiesDiffer
  <1>9. found = {c}
    BY <1>7, <1>8
  <1>10. Cardinality({c}) = 1
    BY FS_Singleton
  <1> HIDE DEF found
  <1>11. get_function(linked[Main], ns, name) = {c}
    BY <1>9, <1>10 DEF get_function, Unique, found
  <1> QED
    BY <1>2, <1>11 DEF ns

(* Each way to end early has been overlooked.                              *)
LEMMA EndsExplained ==
  ASSUME Inv, Tied, Staged, MainCopied, MainKnown, complete, checked,
         \/ \E p \in Files : CleanAborts(p) \/ LinkFails(p)
         \/ MainProgramMissing \/ MainNotThere
  PROVE  \E p \in Files : Overlooked(p)
  <1> SUFFICES ASSUME Watched
               PROVE  FALSE
    BY DEF Watched
  <1>1. \A p \in Files : set_scope(p).thrown = "none" /\ Linking(set_scope(p).scope, p).thrown = "none"
    BY AllPass
  <1>2. ASSUME NEW p \in Files, CleanAborts(p)
        PROVE  FALSE
    BY <1>1, <1>2 DEF CleanAborts
  <1>3. ASSUME NEW p \in Files, LinkFails(p)
        PROVE  FALSE
    <2>1. phase = "link" /\ p \in waiting /\ link(p).thrown # "none"
      BY <1>3 DEF LinkFails
    <2>2. Fresh(p)
      BY <2>1 DEF Staged
    <2>3. link(p) = Linking(set_scope(p).scope, p)
      BY <2>2 DEF link, Linking, Fresh
    <2> QED
      BY <1>1, <2>1, <2>3
  <1>4. ASSUME MainProgramMissing
        PROVE  FALSE
    <2>1. phase = "clean" /\ waiting = {} /\ mainFqn = ""
      BY <1>4 DEF MainProgramMissing
    <2>2. PICK q \in Files : DeclaresMain(q)
      BY MainCopyIs
    <2> QED
      BY <2>1, <2>2, MainAlone DEF MainKnown
  <1>5. ASSUME MainNotThere
        PROVE  FALSE
    <2>1. phase = "link" /\ waiting = {} /\ get_function(linked[mainFqn], "*", <<"__main__">>) = {}
      BY <1>5 DEF MainNotThere
    <2>2. mainFqn # "" /\ \A q \in Files : Ready(q) /\ Full(q)
      BY <2>1 DEF Staged, Inv, ScopesInOrder
    <2> QED
      BY <2>1, <2>2, MainThere
  <1> QED
    BY <1>2, <1>3, <1>4, <1>5

(* What a file declares and what is overlooked in it stays.                *)
LEMMA ProgramStays ==
  ASSUME program' = program
  PROVE  /\ \A p : (HasStatement(p)' <=> HasStatement(p)) /\ (DeclaresMain(p)' <=> DeclaresMain(p))
         /\ \A p : Overlooked(p)' <=> Overlooked(p)
  <1>1. \A p, at : Entry(p, at)' = Entry(p, at)
    BY DEF Entry
  <1>2. \A p : PlacesOf(p)' = PlacesOf(p)
    BY DEF PlacesOf
  <1>3. \A p : HasStatement(p)' <=> HasStatement(p)
    BY DEF HasStatement
  <1>4. \A p : DeclaresMain(p)' <=> DeclaresMain(p)
    BY DEF DeclaresMain
  <1>5. \A p : NamespacesOf(p)' = NamespacesOf(p)
    BY DEF NamespacesOf
  <1>6. \A p : Entering(p)' = Entering(p)
    BY <1>1, <1>2 DEF Entering
  <1>7. \A p : Arriving(p)' = Arriving(p)
    BY <1>1, <1>2, <1>6 DEF Arriving
  <1>8. ASSUME NEW p
        PROVE  Overlooked(p)' <=> Overlooked(p)
    BY <1>1, <1>3, <1>4, <1>5, <1>6, <1>7 DEF Overlooked
  <1> QED
    BY <1>3, <1>4, <1>8

LEMMA ExplainedInit ==
  ASSUME Init
  PROVE  Explained
  BY DEF Init, Explained, MainCopied, MainKnown, StillRuns, RefusedExplained

(* The steps that leave what the explanation is about alone.               *)
LEMMA ExplainedStays ==
  ASSUME Explained, program' = program, phase' = phase, waiting' = waiting, complete' = complete,
         copies' = copies, checked' = checked, mainFqn' = mainFqn, outcome' = outcome
  PROVE  Explained'
  <1>1. /\ \A p : (HasStatement(p)' <=> HasStatement(p)) /\ (DeclaresMain(p)' <=> DeclaresMain(p))
        /\ \A p : Overlooked(p)' <=> Overlooked(p)
    BY ProgramStays
  <1>2. MainCopied' /\ StillRuns'
    BY DEF Explained, MainCopied, StillRuns
  <1>3. MainKnown'
    BY <1>1 DEF Explained, MainKnown
  <1>4. RefusedExplained'
    BY <1>1 DEF Explained, RefusedExplained
  <1> QED
    BY <1>2, <1>3, <1>4 DEF Explained

(* A step to another phase, with what was checked and found so far.        *)
LEMMA ExplainedOnward ==
  ASSUME Explained, program' = program, phase # "ended", outcome' = outcome,
         checked' => \E c \in copies' : c.name = <<"__main__">>,
         mainFqn' # "" => DeclaresMain(mainFqn'),
         phase' = "clean" /\ complete' =>
           \/ \E p \in Files : HasStatement(p)
           \/ \A p \in Files \ waiting' : DeclaresMain(p) => mainFqn' # ""
  PROVE  Explained'
  <1>1. \A p : (HasStatement(p)' <=> HasStatement(p)) /\ (DeclaresMain(p)' <=> DeclaresMain(p))
    BY ProgramStays
  <1>2. MainCopied'
    BY DEF MainCopied
  <1>3. mainFqn' # "" => DeclaresMain(mainFqn)'
    BY DEF DeclaresMain, IsMain
  <1>4. MainKnown'
    BY <1>1, <1>3 DEF MainKnown
  <1>5. outcome' = "running" /\ StillRuns' /\ RefusedExplained'
    BY DEF Explained, StillRuns, RefusedExplained
  <1> QED
    BY <1>2, <1>4, <1>5 DEF Explained

(* The steps by which the check ends, or makes another copy.               *)
LEMMA ExplainedCheck ==
  ASSUME Inv, Explained, MainMissing \/ NotFound \/ CheckReturns
  PROVE  Explained'
  <1>1. /\ phase = "check" /\ program' = program /\ complete' = complete /\ mainFqn' = mainFqn
        /\ outcome' = outcome
    BY DEF MainMissing, NotFound, CheckReturns, CheckFails, GoOn, source, tables, cleaning
  <1>2. ~checked /\ (mainFqn' # "" => DeclaresMain(mainFqn'))
    BY <1>1 DEF Inv, MainChecked, Explained, MainKnown
  <1>3. ASSUME MainMissing \/ NotFound \/ (CheckReturns /\ ~(Len(calls) > 1))
        PROVE  phase' = "clean" /\ complete' => \A p \in Files \ waiting' : DeclaresMain(p) => mainFqn' # ""
    <2>1. AllWaiting
      BY <1>3 DEF MainMissing, NotFound, CheckReturns
    <2>2. complete' => Files \ waiting' = {}
      BY <1>1, <2>1 DEF AllWaiting
    <2> QED
      BY <2>2
  <1>4. CASE MainMissing \/ NotFound
    <2>1. checked' = checked
      BY <1>4 DEF MainMissing, NotFound, CheckFails, checking
    <2> QED
      BY <1>1, <1>2, <1>3, <1>4, <2>1, ExplainedOnward
  <1>5. CASE CheckReturns /\ Len(calls) > 1
    <2>1. phase' = phase /\ checked' = checked
      BY <1>5 DEF CheckReturns
    <2> QED
      BY <1>1, <1>2, <2>1, ExplainedOnward
  <1>6. CASE CheckReturns /\ ~(Len(calls) > 1)
    <2>1. calls # <<>> /\ copies' = add_specialization
      BY <1>6 DEF CheckReturns
    <2>2. Len(calls) = 1 /\ Top = calls[1] /\ calls[1].fun \in MainFound
      <3>1. Len(calls) \in Nat \ {0} /\ Top = calls[Len(calls)] /\ calls[1].fun \in MainFound
        BY <1>1, <2>1, TopIs
      <3> DEFINE n == Len(calls)
      <3>2. n \in Nat \ {0} /\ ~(n > 1)
        BY <1>6, <3>1
      <3> HIDE DEF n
      <3>3. n = 1
        BY <3>2
      <3> QED
        BY <3>1, <3>3 DEF n
    <2> DEFINE name == <<"__main__">>
               ns == "*"
    <2>3. Top.fun \in Entries(scopes[Main], "function", ns, name)
      BY <2>2, FoundIs DEF MainFound
    <2>4. CopyName = name
      BY <2>2, <2>3 DEF CopyName, Entries
    <2> HIDE DEF name
    <2>5. Copy(Top, CopyName).name = name
      BY <1>1, <2>1, <2>4, NameIs
    <2>6. \E c \in copies' : c.name = name
      BY <2>1, <2>4, <2>5 DEF add_specialization
    <2> QED
      BY <1>1, <1>2, <1>3, <1>6, <2>6, ExplainedOnward DEF name
  <1> QED
    BY <1>4, <1>5, <1>6

(* The steps of the cleaner that go on.                                    *)
LEMMA ExplainedClean ==
  ASSUME Inv, Explained, NEW p \in Files, CleanProgram(p) \/ StatementFound(p)
  PROVE  Explained'
  <1>1. /\ phase = "clean" /\ program' = program /\ complete' = complete /\ p \in waiting
        /\ copies' = copies /\ checked' = checked /\ outcome' = outcome
    BY DEF CleanProgram, StatementFound, Cleaning, source, tables, checking
  <1>2. checked' => \E c \in copies' : c.name = <<"__main__">>
    BY <1>1 DEF Explained, MainCopied
  <1>3. CASE CleanProgram(p)
    <2>1. /\ mainFqn' = IF mainFqn = "" /\ DeclaresMain(p) THEN p ELSE mainFqn
          /\ waiting' = waiting \ {p}
      BY <1>3 DEF CleanProgram
    <2>2. p # ""
      BY FilesAssumption
    <2>3. mainFqn' # "" => DeclaresMain(mainFqn')
      BY <2>1 DEF Explained, MainKnown
    <2>4. ASSUME NEW q \in Files \ waiting', complete', \A r \in Files : ~HasStatement(r), DeclaresMain(q)
          PROVE  mainFqn' # ""
      <3>1. CASE q = p
        BY <2>1, <2>2, <2>4, <3>1
      <3>2. CASE q # p
        <4>1. q \in Files \ waiting
          BY <2>1, <3>2
        <4>2. mainFqn # ""
          BY <1>1, <2>4, <4>1 DEF Explained, MainKnown
        <4> QED
          BY <2>1, <4>2
      <3> QED
        BY <3>1, <3>2
    <2> QED
      BY <1>1, <1>2, <2>3, <2>4, ExplainedOnward
  <1>4. CASE StatementFound(p)
    <2>1. mainFqn' = "" /\ HasStatement(p)
      BY <1>4 DEF StatementFound
    <2> QED
      BY <1>1, <1>2, <2>1, ExplainedOnward
  <1> QED
    BY <1>3, <1>4

(* What ends it.                                                           *)
LEMMA ExplainedEnds ==
  ASSUME Inv, Tied, Staged, Explained,
         \/ \E p \in Files : CleanAborts(p) \/ LinkFails(p)
         \/ MainProgramMissing \/ MainNotThere
  PROVE  Explained'
  <1>1. /\ phase # "ended" /\ phase' = "ended" /\ program' = program /\ complete' = complete
        /\ copies' = copies /\ checked' = checked /\ mainFqn' = mainFqn
    BY DEF CleanAborts, LinkFails, MainProgramMissing, MainNotThere, Cleaning, End, source, tables,
           checking, cleaning
  <1>2. \A p : (DeclaresMain(p)' <=> DeclaresMain(p)) /\ (Overlooked(p)' <=> Overlooked(p))
    BY <1>1, ProgramStays
  <1>3. MainCopied' /\ StillRuns'
    BY <1>1 DEF Explained, MainCopied, StillRuns
  <1>4. MainKnown'
    BY <1>1, <1>2 DEF Explained, MainKnown
  <1>5. complete /\ checked => \E p \in Files : Overlooked(p)
    BY EndsExplained DEF Explained
  <1>6. RefusedExplained'
    BY <1>1, <1>2, <1>5 DEF RefusedExplained
  <1> QED
    BY <1>3, <1>4, <1>6 DEF Explained

LEMMA ExplainedRun ==
  ASSUME Inv, Explained, RunUse \/ RunCall \/ RunReturns
  PROVE  Explained'
  <1>1. /\ phase = "run" /\ program' = program /\ complete' = complete
        /\ copies' = copies /\ checked' = checked /\ mainFqn' = mainFqn
        /\ \/ phase' = "run" /\ outcome' = outcome
           \/ phase' = "ended" /\ outcome' = "ran"
    BY DEF RunUse, RunCall, RunReturns, End, source, tables, checking, cleaning
  <1>2. \A p : DeclaresMain(p)' <=> DeclaresMain(p)
    BY <1>1, ProgramStays
  <1>3. MainCopied' /\ StillRuns' /\ outcome' \in {"running", "ran"}
    BY <1>1 DEF Explained, MainCopied, StillRuns
  <1>4. MainKnown'
    BY <1>1, <1>2 DEF Explained, MainKnown
  <1> QED
    BY <1>3, <1>4 DEF Explained, RefusedExplained

LEMMA ExplainedNext ==
  ASSUME Inv, Tied, Staged, Explained, [Next]_vars
  PROVE  Explained'
  <1>1. CASE ImportProgram \/ ImportRefused \/ ImportDone \/ CheckMain \/ CheckVariable
             \/ CheckConstructor \/ CheckCall
    <2>1. /\ phase \in {"import", "check"} /\ phase' \in {"import", "check"} /\ program' = program
          /\ copies' = copies /\ checked' = checked /\ mainFqn' = mainFqn /\ outcome' = outcome
      BY <1>1 DEF ImportProgram, ImportRefused, ImportDone, CheckMain, CheckVariable, CheckConstructor,
                  CheckCall, GoOn, source, checking, cleaning
    <2>2. /\ checked' => \E c \in copies' : c.name = <<"__main__">>
          /\ mainFqn' # "" => DeclaresMain(mainFqn')
      BY <2>1 DEF Explained, MainCopied, MainKnown
    <2> QED
      BY <2>1, <2>2, ExplainedOnward
  <1>2. CASE MainMissing \/ NotFound \/ CheckReturns
    BY <1>2, ExplainedCheck
  <1>3. CASE \E p \in Files : CleanProgram(p) \/ StatementFound(p)
    BY <1>3, ExplainedClean
  <1>4. CASE \/ \E p \in Files : CleanAborts(p) \/ LinkFails(p)
             \/ MainProgramMissing \/ MainNotThere
    BY <1>4, ExplainedEnds
  <1>5. CASE CleanDone \/ StartMain
    <2>1. /\ phase \in {"clean", "link"} /\ phase' \in {"link", "run"} /\ program' = program
          /\ copies' = copies /\ checked' = checked /\ mainFqn' = mainFqn /\ outcome' = outcome
      BY <1>5 DEF CleanDone, StartMain, GoOn, source, checking, cleaning
    <2>2. /\ checked' => \E c \in copies' : c.name = <<"__main__">>
          /\ mainFqn' # "" => DeclaresMain(mainFqn')
      BY <2>1 DEF Explained, MainCopied, MainKnown
    <2> QED
      BY <2>1, <2>2, ExplainedOnward
  <1>6. CASE \E p \in Files : LinkProgram(p)
    <2>1. /\ phase = "link" /\ phase' = phase /\ program' = program
          /\ copies' = copies /\ checked' = checked /\ mainFqn' = mainFqn /\ outcome' = outcome
      BY <1>6 DEF LinkProgram, source, checking
    <2>2. /\ checked' => \E c \in copies' : c.name = <<"__main__">>
          /\ mainFqn' # "" => DeclaresMain(mainFqn')
      BY <2>1 DEF Explained, MainCopied, MainKnown
    <2> QED
      BY <2>1, <2>2, ExplainedOnward
  <1>7. CASE RunUse \/ RunCall \/ RunReturns
    BY <1>7, ExplainedRun
  <1>8. CASE UNCHANGED vars
    BY <1>8, ExplainedStays DEF vars, source, tables, checking, cleaning
  <1> QED
    BY <1>1, <1>2, <1>3, <1>4, <1>5, <1>6, <1>7, <1>8 DEF Next

(* Whatever the files are: of a program that was imported and checked, and *)
(* yet ends before it has run, a file has one of the few things that the   *)
(* importer and the checker do not look at.                                *)
THEOREM RefusalsExplained == Spec => []RefusedExplained
  <1>1. Init => Explained
    BY ExplainedInit
  <1>2. Inv /\ Tied /\ Staged /\ Explained /\ [Next]_vars => Explained'
    BY ExplainedNext
  <1>3. Explained => RefusedExplained
    BY DEF Explained
  <1> QED
    BY <1>1, <1>2, <1>3, TiedAlways, PTL DEF Spec
=============================================================================
