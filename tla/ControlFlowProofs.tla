------------------------- MODULE ControlFlowProofs -------------------------
(***************************************************************************)
(* Proofs about the interpreter's control flow, for any programs whose     *)
(* jumps are in place, however deep their blocks nest and their calls go.  *)
(***************************************************************************)
EXTENDS ControlFlow, WellFoundedInduction, TLAPS

WellPlaced(p, far) ==
  \E outside, within, bodies : InPlace(p, outside, within, bodies, far)

-----------------------------------------------------------------------------
(* Sequences.                                                              *)
LEMMA AppendIs ==
  ASSUME NEW S, NEW s \in Seq(S), NEW x \in S
  PROVE  /\ Append(s, x) \in Seq(S)
         /\ Len(Append(s, x)) = Len(s) + 1
         /\ \A i \in 1..Len(s) : Append(s, x)[i] = s[i]
         /\ Append(s, x)[Len(s) + 1] = x
  OBVIOUS

LEMMA InitialIs ==
  ASSUME NEW S, NEW s \in Seq(S), NEW n \in 0..Len(s)
  PROVE  /\ SubSeq(s, 1, n) \in Seq(S)
         /\ Len(SubSeq(s, 1, n)) = n
         /\ \A i \in 1..n : SubSeq(s, 1, n)[i] = s[i]
  <1>1. SubSeq(s, 1, n) \in Seq(S)
    OBVIOUS
  <1>2. Len(SubSeq(s, 1, n)) = n
    OBVIOUS
  <1>3. \A i \in 1..n : SubSeq(s, 1, n)[i] = s[i]
    OBVIOUS
  <1> QED
    BY <1>1, <1>2, <1>3

LEMMA InitialAgree ==
  ASSUME NEW S, NEW s \in Seq(S), NEW t \in Seq(S), NEW n \in Nat,
         n <= Len(s), n <= Len(t), \A i \in 1..n : s[i] = t[i]
  PROVE  SubSeq(s, 1, n) = SubSeq(t, 1, n)
  <1> DEFINE a == SubSeq(s, 1, n)
             b == SubSeq(t, 1, n)
  <1>1. a \in Seq(S) /\ Len(a) = n /\ \A i \in 1..n : a[i] = s[i]
    BY InitialIs
  <1>2. b \in Seq(S) /\ Len(b) = n /\ \A i \in 1..n : b[i] = t[i]
    BY InitialIs
  <1> HIDE DEF a, b
  <1>3. a = b
    BY <1>1, <1>2
  <1> QED
    BY <1>3 DEF a, b

LEMMA InitialAll ==
  ASSUME NEW S, NEW s \in Seq(S)
  PROVE  SubSeq(s, 1, Len(s)) = s
  OBVIOUS

-----------------------------------------------------------------------------
(* The stack. A frame is in a loop if there is one below it in its call.   *)
Frames(outside, within, bodies) ==
  [kind : {"block", "loop", "call"}, code : outside \cup within \cup bodies \cup {<<>>}]

InLoop(fs, i) ==
  \E j \in 1..(i - 1) : fs[j].kind = "loop" /\ \A k \in (j + 1)..(i - 1) : fs[k].kind # "call"

Place(fs, i, outside, within, bodies) ==
  IF ~InLoop(fs, i) THEN outside
  ELSE IF fs[i - 1].kind = "loop" THEN bodies ELSE within

Fits(fs, i, outside, within, bodies) ==
  /\ fs[i].kind = "block" => i > 1 /\ fs[i].code \in Place(fs, i, outside, within, bodies)
  /\ fs[i].kind = "loop" => i > 1 /\ fs[i - 1].kind = "block" /\ fs[i].code \in bodies
  /\ fs[i].kind = "call" => fs[i] = Call /\ (i > 1 => fs[i - 1].kind = "block")

(* Every block on the stack is where its jumps are in place.               *)
Stack(fs, outside, within, bodies) ==
  /\ fs \in Seq(Frames(outside, within, bodies))
  /\ \A i \in 1..Len(fs) : Fits(fs, i, outside, within, bodies)

(* Where a frame fits depends on the frames below it, and of those on      *)
(* their kinds only.                                                       *)
LEMMA FitsAgree ==
  ASSUME NEW fs, NEW gs, NEW i \in Nat \ {0},
         NEW outside, NEW within, NEW bodies,
         \A k \in 1..(i - 1) : fs[k].kind = gs[k].kind,
         fs[i] = gs[i],
         Fits(fs, i, outside, within, bodies)
  PROVE  Fits(gs, i, outside, within, bodies)
  <1>1. InLoop(fs, i) <=> InLoop(gs, i)
    BY DEF InLoop
  <1>2. i > 1 => fs[i - 1].kind = gs[i - 1].kind
    OBVIOUS
  <1>3. InLoop(fs, i) => i > 1
    BY DEF InLoop
  <1> QED
    BY <1>1, <1>2, <1>3 DEF Fits, Place

LEMMA StackInitial ==
  ASSUME NEW fs, NEW outside, NEW within, NEW bodies,
         Stack(fs, outside, within, bodies), NEW n \in 0..Len(fs)
  PROVE  Stack(SubSeq(fs, 1, n), outside, within, bodies)
  <1> DEFINE gs == SubSeq(fs, 1, n)
             S == Frames(outside, within, bodies)
  <1>1. fs \in Seq(S) /\ Len(fs) \in Nat
    BY DEF Stack
  <1>2. gs \in Seq(S) /\ Len(gs) = n /\ \A i \in 1..n : gs[i] = fs[i]
    BY <1>1, InitialIs
  <1> HIDE DEF gs, S
  <1>3. ASSUME NEW i \in 1..n
        PROVE  Fits(gs, i, outside, within, bodies)
    <2>1. Fits(fs, i, outside, within, bodies)
      BY <1>1 DEF Stack
    <2>2. fs[i] = gs[i] /\ \A k \in 1..(i - 1) : fs[k].kind = gs[k].kind
      BY <1>1, <1>2
    <2>3. i \in Nat \ {0} /\ \A k \in 1..(i - 1) : fs[k].kind = gs[k].kind
      BY <1>1, <2>2
    <2>4. fs[i] = gs[i]
      BY <2>2
    <2> QED
      BY <2>1, <2>3, <2>4, FitsAgree
  <1>4. Stack(gs, outside, within, bodies)
    BY <1>2, <1>3 DEF Stack, S
  <1> QED
    BY <1>4 DEF gs

LEMMA StackAppend ==
  ASSUME NEW fs, NEW outside, NEW within, NEW bodies,
         Stack(fs, outside, within, bodies),
         NEW f \in Frames(outside, within, bodies),
         Fits(Append(fs, f), Len(fs) + 1, outside, within, bodies)
  PROVE  Stack(Append(fs, f), outside, within, bodies)
  <1> DEFINE gs == Append(fs, f)
             S == Frames(outside, within, bodies)
  <1>1. fs \in Seq(S) /\ Len(fs) \in Nat
    BY DEF Stack
  <1>2. gs \in Seq(S) /\ Len(gs) = Len(fs) + 1 /\ \A i \in 1..Len(fs) : gs[i] = fs[i]
    BY <1>1, AppendIs
  <1>5. Fits(gs, Len(fs) + 1, outside, within, bodies)
    OBVIOUS
  <1> HIDE DEF gs, S
  <1>3. ASSUME NEW i \in 1..Len(fs)
        PROVE  Fits(gs, i, outside, within, bodies)
    <2>1. Fits(fs, i, outside, within, bodies)
      BY <1>1 DEF Stack
    <2>2. fs[i] = gs[i] /\ \A k \in 1..(i - 1) : fs[k].kind = gs[k].kind
      BY <1>1, <1>2
    <2>3. i \in Nat \ {0} /\ \A k \in 1..(i - 1) : fs[k].kind = gs[k].kind
      BY <1>1, <2>2
    <2>4. fs[i] = gs[i]
      BY <2>2
    <2> QED
      BY <2>1, <2>3, <2>4, FitsAgree
  <1>6. \A i \in 1..Len(gs) : Fits(gs, i, outside, within, bodies)
    BY <1>1, <1>2, <1>3, <1>5
  <1>4. Stack(gs, outside, within, bodies)
    BY <1>2, <1>6 DEF Stack, S
  <1> QED
    BY <1>4 DEF gs

(* A block of the same place in the place of the top one.                  *)
LEMMA StackReplace ==
  ASSUME NEW fs, NEW outside, NEW within, NEW bodies,
         Stack(fs, outside, within, bodies), Len(fs) > 0,
         NEW code \in Place(fs, Len(fs), outside, within, bodies),
         fs[Len(fs)].kind = "block"
  PROVE  LET gs == Append(SubSeq(fs, 1, Len(fs) - 1), Block(code))
         IN  /\ Stack(gs, outside, within, bodies)
             /\ Len(gs) = Len(fs)
             /\ \A i \in 1..(Len(fs) - 1) : gs[i] = fs[i]
             /\ \A i \in 1..Len(fs) : gs[i].kind = fs[i].kind
             /\ gs[Len(fs)] = Block(code)
             /\ Place(gs, Len(fs), outside, within, bodies) = Place(fs, Len(fs), outside, within, bodies)
  <1> DEFINE hs == SubSeq(fs, 1, Len(fs) - 1)
             gs == Append(hs, Block(code))
             n == Len(fs)
             S == Frames(outside, within, bodies)
  <1>1. fs \in Seq(S) /\ n \in Nat /\ n > 0 /\ n - 1 \in 0..Len(fs)
    BY DEF Stack
  <1>2. Stack(hs, outside, within, bodies)
    BY <1>1, StackInitial
  <1>3. hs \in Seq(S) /\ Len(hs) = n - 1 /\ \A i \in 1..(n - 1) : hs[i] = fs[i]
    BY <1>1, InitialIs
  <1>4. Block(code) \in S
    BY DEF Place, Frames, Block
  <1> HIDE DEF hs, S
  <1>5. Len(gs) = n /\ gs[n] = Block(code) /\ \A i \in 1..(n - 1) : gs[i] = fs[i]
    BY <1>1, <1>3, <1>4, AppendIs
  <1> HIDE DEF gs, n
  <1>6. InLoop(gs, n) <=> InLoop(fs, n)
    BY <1>1, <1>5 DEF InLoop
  <1>7. n > 1
    BY <1>1 DEF Stack, Fits, n
  <1>8. Place(gs, n, outside, within, bodies) = Place(fs, n, outside, within, bodies)
    BY <1>1, <1>5, <1>6, <1>7 DEF Place
  <1>9. Fits(gs, n, outside, within, bodies)
    BY <1>5, <1>7, <1>8 DEF Fits, Block, n
  <1>10. Stack(gs, outside, within, bodies)
    BY <1>1, <1>2, <1>3, <1>4, <1>9, StackAppend DEF gs, S
  <1>11. \A i \in 1..n : gs[i].kind = fs[i].kind
    BY <1>1, <1>5 DEF Block, n
  <1> QED
    BY <1>5, <1>8, <1>10, <1>11 DEF gs, hs, n

(* Where the code of a block must be that is entered on the stack.         *)
Beneath(fs, outside, within, bodies) ==
  IF fs[Len(fs)].kind = "loop" THEN bodies
  ELSE IF fs[Len(fs)].kind = "block" /\ InLoop(fs, Len(fs)) THEN within
  ELSE outside

LEMMA StackEnterBlock ==
  ASSUME NEW fs, NEW outside, NEW within, NEW bodies,
         Stack(fs, outside, within, bodies), Len(fs) > 0,
         NEW code \in Beneath(fs, outside, within, bodies)
  PROVE  /\ Stack(Append(fs, Block(code)), outside, within, bodies)
         /\ Len(Append(fs, Block(code))) = Len(fs) + 1
         /\ Append(fs, Block(code))[Len(fs) + 1] = Block(code)
  <1> DEFINE n == Len(fs)
             gs == Append(fs, Block(code))
             S == Frames(outside, within, bodies)
  <1>1. fs \in Seq(S) /\ n \in Nat /\ n > 0
    BY DEF Stack
  <1>2. Block(code) \in S
    BY DEF Block, Frames, Beneath
  <1> HIDE DEF S
  <1>3. Len(gs) = n + 1 /\ gs[n + 1] = Block(code) /\ \A i \in 1..n : gs[i] = fs[i]
    BY <1>1, <1>2, AppendIs
  <1>8. fs[n] \in S
    BY <1>1
  <1>4. fs[n].kind \in {"block", "loop", "call"}
    BY <1>8 DEF S, Frames
  <1> HIDE DEF gs, n
  <1>5. InLoop(gs, n + 1) <=> fs[n].kind = "loop" \/ (fs[n].kind = "block" /\ InLoop(fs, n))
    <2>1. ASSUME fs[n].kind = "loop"
          PROVE  InLoop(gs, n + 1)
      <3>1. n \in 1..(n + 1 - 1) /\ gs[n].kind = "loop"
        BY <1>1, <1>3, <2>1
      <3>2. (n + 1)..(n + 1 - 1) = {}
        BY <1>1
      <3> QED
        BY <3>1, <3>2 DEF InLoop
    <2>2. ASSUME fs[n].kind # "loop"
          PROVE  InLoop(gs, n + 1) <=> fs[n].kind = "block" /\ InLoop(fs, n)
      <3>1. (n + 1) - 1 = n /\ n \in 1..n
        BY <1>1
      <3>2. ASSUME InLoop(gs, n + 1)
            PROVE  fs[n].kind = "block" /\ InLoop(fs, n)
        <4>1. PICK j \in 1..n : gs[j].kind = "loop" /\ \A k \in (j + 1)..n : gs[k].kind # "call"
          BY <3>1, <3>2 DEF InLoop
        <4>2. j # n /\ j \in 1..(n - 1) /\ n \in (j + 1)..n
          BY <1>1, <1>3, <2>2, <4>1
        <4>3. fs[j].kind = "loop" /\ \A k \in (j + 1)..(n - 1) : fs[k].kind # "call"
          BY <1>1, <1>3, <4>1, <4>2
        <4> QED
          BY <1>3, <1>4, <2>2, <3>1, <4>1, <4>2, <4>3 DEF InLoop
      <3>3. ASSUME fs[n].kind = "block", InLoop(fs, n)
            PROVE  InLoop(gs, n + 1)
        <4>1. PICK j \in 1..(n - 1) : fs[j].kind = "loop" /\ \A k \in (j + 1)..(n - 1) : fs[k].kind # "call"
          BY <3>3 DEF InLoop
        <4>2. j \in 1..n /\ gs[j].kind = "loop"
          BY <1>1, <1>3, <4>1
        <4>3. \A k \in (j + 1)..n : gs[k].kind # "call"
          <5>1. ASSUME NEW k \in (j + 1)..n
                PROVE  gs[k].kind # "call"
            <6>1. CASE k = n
              BY <1>1, <1>3, <3>1, <3>3, <6>1
            <6>2. CASE k # n
              BY <1>1, <1>3, <4>1, <6>2
            <6> QED
              BY <6>1, <6>2
          <5> QED
            BY <5>1
        <4> QED
          BY <3>1, <4>2, <4>3 DEF InLoop
      <3> QED
        BY <3>2, <3>3
    <2> QED
      BY <2>1, <2>2
  <1>6. Place(gs, n + 1, outside, within, bodies) = Beneath(fs, outside, within, bodies)
    <2>1. gs[n + 1 - 1].kind = fs[n].kind
      BY <1>1, <1>3
    <2> QED
      BY <1>5, <2>1, <1>4 DEF Place, Beneath, n
  <1>7. Fits(gs, n + 1, outside, within, bodies)
    BY <1>1, <1>3, <1>6 DEF Fits, Block
  <1> QED
    BY <1>2, <1>3, <1>7, StackAppend DEF gs, n, S

LEMMA StackEnterLoop ==
  ASSUME NEW fs, NEW outside, NEW within, NEW bodies,
         Stack(fs, outside, within, bodies), Len(fs) > 0,
         fs[Len(fs)].kind = "block", NEW body \in bodies
  PROVE  /\ Stack(Append(fs, Loop(body)), outside, within, bodies)
         /\ Len(Append(fs, Loop(body))) = Len(fs) + 1
         /\ Append(fs, Loop(body))[Len(fs) + 1] = Loop(body)
  <1> DEFINE n == Len(fs)
             gs == Append(fs, Loop(body))
             S == Frames(outside, within, bodies)
  <1>1. fs \in Seq(S) /\ n \in Nat /\ n > 0
    BY DEF Stack
  <1>2. Loop(body) \in S
    BY DEF Loop, Frames
  <1> HIDE DEF S
  <1>3. Len(gs) = n + 1 /\ gs[n + 1] = Loop(body) /\ \A i \in 1..n : gs[i] = fs[i]
    BY <1>1, <1>2, AppendIs
  <1> HIDE DEF gs
  <1>4. gs[n + 1 - 1].kind = "block"
    BY <1>1, <1>3
  <1>7. Fits(gs, n + 1, outside, within, bodies)
    BY <1>1, <1>3, <1>4 DEF Fits, Loop
  <1> QED
    BY <1>2, <1>3, <1>7, StackAppend DEF gs, S

LEMMA StackEnterCall ==
  ASSUME NEW fs, NEW outside, NEW within, NEW bodies,
         Stack(fs, outside, within, bodies), Len(fs) > 0,
         fs[Len(fs)].kind = "block"
  PROVE  /\ Stack(Append(fs, Call), outside, within, bodies)
         /\ Len(Append(fs, Call)) = Len(fs) + 1
         /\ Append(fs, Call)[Len(fs) + 1] = Call
  <1> DEFINE n == Len(fs)
             gs == Append(fs, Call)
             S == Frames(outside, within, bodies)
  <1>1. fs \in Seq(S) /\ n \in Nat /\ n > 0
    BY DEF Stack
  <1>2. Call \in S
    BY DEF Call, Frames
  <1> HIDE DEF S
  <1>3. Len(gs) = n + 1 /\ gs[n + 1] = Call /\ \A i \in 1..n : gs[i] = fs[i]
    BY <1>1, <1>2, AppendIs
  <1> HIDE DEF gs
  <1>4. gs[n + 1 - 1].kind = "block"
    BY <1>1, <1>3
  <1>7. Fits(gs, n + 1, outside, within, bodies)
    BY <1>1, <1>3, <1>4 DEF Fits, Call
  <1> QED
    BY <1>2, <1>3, <1>7, StackAppend DEF gs, S

LEMMA AppendTwo ==
  ASSUME NEW S, NEW s \in Seq(S), NEW x \in S, NEW y \in S
  PROVE  s \o <<x, y>> = Append(Append(s, x), y)
  OBVIOUS

-----------------------------------------------------------------------------
(* What the next declaration of the innermost block may be.                *)
Here(far, outside, within, bodies) ==
  /\ InPlace(program, outside, within, bodies, far)
  /\ Stack(frames, outside, within, bodies)

LEMMA NextInPlace ==
  ASSUME NEW far, far \subseteq {"continue"}, NEW outside, NEW within, NEW bodies,
         Here(far, outside, within, bodies),
         Depth > 0, Top.kind = "block", Top.code # <<>>
  PROVE  LET s == Head(Top.code)
             in == InLoop(frames, Depth)
         IN  /\ Tail(Top.code) \in Place(frames, Depth, outside, within, bodies)
             /\ s.kind = "break" => in
             /\ s.kind = "continue" => in /\ (far = {} => frames[Depth - 1].kind = "loop")
             /\ s.kind # "expression" => s.callee = NoCall
             /\ s.callee # NoCall => program[s.callee] \in outside
             /\ s.kind = "while" => s.blocks[1] \in bodies
             /\ s.kind = "if" => \A i \in DOMAIN s.blocks :
                                    s.blocks[i] \in IF in THEN within ELSE outside
  <1> DEFINE code == Top.code
             s == Head(code)
             in == InLoop(frames, Depth)
             looped == frames[Depth - 1].kind = "loop"
  <1>1. Depth \in 1..Len(frames)
    BY DEF Here, Stack, Depth
  <1>2. code \in Place(frames, Depth, outside, within, bodies) /\ code # <<>>
    BY <1>1 DEF Here, Stack, Fits, Top, Depth
  <1>3. /\ ClosedUnder(program, outside, {}, outside, bodies, outside)
        /\ ClosedUnder(program, within, {"break"} \cup far, within, bodies, outside)
        /\ ClosedUnder(program, bodies, {"break", "continue"}, within, bodies, outside)
    BY DEF Here, InPlace
  <1> HIDE DEF code
  <1>4. CASE ~in
    <2>1. code \in outside \ {<<>>}
      BY <1>2, <1>4 DEF Place
    <2> QED
      BY <2>1, <1>3, <1>4 DEF ClosedUnder, Place, code
  <1>5. CASE in /\ looped
    <2>1. code \in bodies \ {<<>>}
      BY <1>2, <1>5 DEF Place
    <2> QED
      BY <2>1, <1>3, <1>5 DEF ClosedUnder, Place, code
  <1>6. CASE in /\ ~looped
    <2>1. code \in within \ {<<>>}
      BY <1>2, <1>6 DEF Place
    <2>2. s.kind \in {"variable", "pass", "expression", "return", "if", "while"} \cup ({"break"} \cup far)
      BY <2>1, <1>3 DEF ClosedUnder
    <2>3. s.kind = "continue" => far # {}
      BY <2>2
    <2> QED
      BY <2>1, <2>3, <1>3, <1>6 DEF ClosedUnder, Place, code
  <1> QED
    BY <1>4, <1>5, <1>6

LEMMA AdvancedIs ==
  ASSUME NEW far, far \subseteq {"continue"}, NEW outside, NEW within, NEW bodies,
         Here(far, outside, within, bodies),
         Depth > 0, Top.kind = "block", Top.code # <<>>
  PROVE  /\ Stack(Advanced, outside, within, bodies)
         /\ Depth \in Nat \ {0}
         /\ Len(Advanced) = Depth
         /\ Advanced[Depth] = Block(Tail(Top.code))
         /\ \A i \in 1..(Depth - 1) : Advanced[i] = frames[i]
         /\ \A i \in 1..Depth : Advanced[i].kind = frames[i].kind
         /\ InLoop(Advanced, Depth) <=> InLoop(frames, Depth)
  <1>1. Tail(Top.code) \in Place(frames, Depth, outside, within, bodies)
    BY NextInPlace
  <1>2. Depth \in Nat \ {0}
    BY DEF Here, Stack, Depth
  <1>3. /\ Stack(Advanced, outside, within, bodies)
        /\ Len(Advanced) = Depth
        /\ Advanced[Depth] = Block(Tail(Top.code))
        /\ \A i \in 1..(Depth - 1) : Advanced[i] = frames[i]
        /\ \A i \in 1..Depth : Advanced[i].kind = frames[i].kind
    BY <1>1, StackReplace DEF Here, Advanced, Pop, Top, Depth
  <1>4. InLoop(Advanced, Depth) <=> InLoop(frames, Depth)
    BY <1>2, <1>3 DEF InLoop
  <1> QED
    BY <1>2, <1>3, <1>4

-----------------------------------------------------------------------------
(* The inductive invariant: the stack is one of blocks in place, and a flag*)
(* is set only on the way from its statement to the loop it is meant for,  *)
(* while no result is returned.                                            *)
FlagsOnTheWay(far) ==
  /\ pc \in {"next", "after"} /\ res \in BOOLEAN
  /\ breakLoop \in BOOLEAN /\ continueLoop \in BOOLEAN
  /\ pc = "next" =>
       ~breakLoop /\ ~continueLoop /\ Depth > 0 /\ Top.kind = "block"
  /\ continueLoop =>
       /\ ~res /\ ~breakLoop
       /\ Depth > 0 /\ Top.kind = "block" /\ InLoop(frames, Depth)
       /\ far = {} => frames[Depth - 1].kind = "loop"
  /\ breakLoop =>
       /\ ~res
       /\ Depth > 0
       /\ Top.kind = "loop" \/ (Top.kind = "block" /\ InLoop(frames, Depth))

FlowInv(far) ==
  /\ program \in Programs
  /\ \E outside, within, bodies : Here(far, outside, within, bodies)
  /\ FlagsOnTheWay(far)

(* A step that leaves the flags down, with a stack in place.               *)
LEMMA FlagsDown ==
  ASSUME NEW far, NEW outside, NEW within, NEW bodies,
         InPlace(program, outside, within, bodies, far), program \in Programs,
         UNCHANGED program,
         Stack(frames', outside, within, bodies),
         pc' \in {"next", "after"}, res' \in BOOLEAN,
         breakLoop' = FALSE, continueLoop' = FALSE,
         pc' = "next" => Len(frames') > 0 /\ frames'[Len(frames')].kind = "block"
  PROVE  FlowInv(far)'
  BY DEF FlowInv, Here, FlagsOnTheWay, Depth, Top

-----------------------------------------------------------------------------
(* Every step keeps the invariant.                                         *)
LEMMA FlowInvInit ==
  ASSUME NEW far, \A p \in Programs : WellPlaced(p, far), Init
  PROVE  FlowInv(far)
  <1>1. PICK outside, within, bodies : InPlace(program, outside, within, bodies, far)
    BY DEF WellPlaced, Init
  <1> DEFINE S == Frames(outside, within, bodies)
             body == Block(program[Main])
  <1>2. program[Main] \in outside
    BY <1>1 DEF InPlace
  <1>3. Call \in S /\ body \in S
    BY <1>2 DEF Call, Block, Frames
  <1>4. frames = <<Call, body>>
    BY DEF Init
  <1> HIDE DEF S
  <1>5. frames \in Seq(S) /\ Len(frames) = 2
    BY <1>3, <1>4
  <1>6. frames[1] = Call /\ frames[2] = body
    BY <1>4
  <1>7. ~InLoop(frames, 2)
    BY <1>6 DEF InLoop, Call
  <1>8. Fits(frames, 1, outside, within, bodies)
    BY <1>6 DEF Fits, Call
  <1>9. Fits(frames, 2, outside, within, bodies)
    BY <1>2, <1>6, <1>7 DEF Fits, Block, Place
  <1>10. Stack(frames, outside, within, bodies)
    <2>1. \A i \in 1..2 : i = 1 \/ i = 2
      OBVIOUS
    <2> QED
      BY <2>1, <1>5, <1>8, <1>9 DEF Stack, S
  <1>11. FlagsOnTheWay(far)
    <2>1. Depth = 2 /\ Top = body
      BY <1>5, <1>6 DEF Depth, Top
    <2>2. Depth > 0 /\ Top.kind = "block"
      BY <2>1 DEF Block
    <2> QED
      BY <2>2 DEF Init, FlagsOnTheWay
  <1> QED
    BY <1>1, <1>10, <1>11 DEF FlowInv, Here, Init

LEMMA FlowInvSimple ==
  ASSUME NEW far, far \subseteq {"continue"}, FlowInv(far), UNCHANGED program,
         Variable \/ Pass \/ Return
  PROVE  FlowInv(far)'
  <1>1. PICK outside, within, bodies : Here(far, outside, within, bodies)
    BY DEF FlowInv
  <1>2. /\ pc = "next" /\ Depth > 0 /\ Top.kind = "block" /\ Top.code # <<>>
        /\ frames' = Advanced /\ pc' \in {"next", "after"} /\ res' \in BOOLEAN
        /\ UNCHANGED flags
    BY DEF Variable, Pass, Return, At, Enter, Back, FlowInv, FlagsOnTheWay
  <1>3. /\ Stack(Advanced, outside, within, bodies)
        /\ Depth \in Nat \ {0}
        /\ Len(Advanced) = Depth
        /\ Advanced[Depth] = Block(Tail(Top.code))
    BY <1>1, <1>2, AdvancedIs
  <1>4. breakLoop' = FALSE /\ continueLoop' = FALSE
    BY <1>2 DEF FlowInv, FlagsOnTheWay, flags
  <1>5. InPlace(program, outside, within, bodies, far) /\ program \in Programs
    BY <1>1 DEF FlowInv, Here
  <1>6. Len(frames') > 0 /\ frames'[Len(frames')].kind = "block"
    BY <1>2, <1>3 DEF Block
  <1> QED
    BY <1>2, <1>3, <1>4, <1>5, <1>6, FlagsDown

LEMMA FlowInvExpression ==
  ASSUME NEW far, far \subseteq {"continue"}, FlowInv(far), UNCHANGED program, Expression
  PROVE  FlowInv(far)'
  <1> DEFINE callee == Head(Top.code).callee
             entered == Append(Append(Advanced, Call), Block(program[callee]))
  <1>1. PICK outside, within, bodies : Here(far, outside, within, bodies)
    BY DEF FlowInv
  <1>2. /\ pc = "next" /\ Depth > 0 /\ Top.kind = "block" /\ Top.code # <<>>
        /\ pc' \in {"next", "after"} /\ res' \in BOOLEAN
        /\ UNCHANGED flags
    BY DEF Expression, At, Enter, Back, FlowInv, FlagsOnTheWay
  <1>3. /\ Stack(Advanced, outside, within, bodies)
        /\ Depth \in Nat \ {0}
        /\ Len(Advanced) = Depth
        /\ Advanced[Depth] = Block(Tail(Top.code))
    BY <1>1, <1>2, AdvancedIs
  <1>4. breakLoop' = FALSE /\ continueLoop' = FALSE
    BY <1>2 DEF FlowInv, FlagsOnTheWay, flags
  <1>5. InPlace(program, outside, within, bodies, far) /\ program \in Programs
    BY <1>1 DEF FlowInv, Here
  <1>6. CASE callee = NoCall
    <2>1. frames' = Advanced
      BY <1>6 DEF Expression, Back
    <2>2. Len(frames') > 0 /\ frames'[Len(frames')].kind = "block"
      BY <1>2, <1>3, <2>1 DEF Block
    <2> QED
      BY <1>2, <1>3, <1>4, <1>5, <2>1, <2>2, FlagsDown
  <1>7. CASE callee # NoCall
    <2>1. program[callee] \in outside
      BY <1>1, <1>2, <1>7, NextInPlace
    <2>2. /\ Stack(Append(Advanced, Call), outside, within, bodies)
          /\ Len(Append(Advanced, Call)) = Depth + 1
          /\ Append(Advanced, Call)[Depth + 1] = Call
      BY <1>2, <1>3, StackEnterCall DEF Block
    <2>3. Len(Append(Advanced, Call)) > 0
      BY <2>2, <1>3 DEF Stack
    <2>4. program[callee] \in Beneath(Append(Advanced, Call), outside, within, bodies)
      BY <2>1, <2>2 DEF Beneath, Call
    <2>5. /\ Stack(entered, outside, within, bodies)
          /\ Len(entered) = Depth + 2
          /\ entered[Depth + 2] = Block(program[callee])
      <3> DEFINE called == Append(Advanced, Call)
      <3>1. /\ Stack(called, outside, within, bodies) /\ Len(called) > 0
            /\ program[callee] \in Beneath(called, outside, within, bodies)
        BY <2>2, <2>3, <2>4
      <3>2. Len(called) + 1 = Depth + 2
        BY <1>3, <2>2
      <3> HIDE DEF called
      <3>3. /\ Stack(Append(called, Block(program[callee])), outside, within, bodies)
            /\ Len(Append(called, Block(program[callee]))) = Len(called) + 1
            /\ Append(called, Block(program[callee]))[Len(called) + 1] = Block(program[callee])
        BY <3>1, StackEnterBlock
      <3> QED
        BY <3>2, <3>3 DEF called
    <2>6. frames' = entered
      <3>1. frames' = Advanced \o <<Call, Block(program[callee])>>
        BY <1>7 DEF Expression, Enter
      <3>2. Advanced \in Seq(Frames(outside, within, bodies))
        BY <1>3 DEF Stack
      <3>3. Call \in Frames(outside, within, bodies)
        BY DEF Call, Frames
      <3>4. Block(program[callee]) \in Frames(outside, within, bodies)
        BY <2>1 DEF Block, Frames
      <3> QED
        BY <3>1, <3>2, <3>3, <3>4, AppendTwo
    <2>7. Len(frames') > 0 /\ frames'[Len(frames')].kind = "block"
      BY <1>2, <1>3, <2>5, <2>6 DEF Block
    <2> QED
      BY <1>2, <1>4, <1>5, <2>5, <2>6, <2>7, FlagsDown
  <1> QED
    BY <1>6, <1>7

LEMMA FlowInvBranch ==
  ASSUME NEW far, far \subseteq {"continue"}, FlowInv(far), UNCHANGED program, If
  PROVE  FlowInv(far)'
  <1> DEFINE s == Head(Top.code)
  <1>1. PICK outside, within, bodies : Here(far, outside, within, bodies)
    BY DEF FlowInv
  <1>2. /\ pc = "next" /\ Depth > 0 /\ Top.kind = "block" /\ Top.code # <<>>
        /\ pc' \in {"next", "after"} /\ res' \in BOOLEAN
        /\ s.kind = "if" /\ UNCHANGED flags
    BY DEF If, At, Enter, Back, FlowInv, FlagsOnTheWay
  <1>3. /\ Stack(Advanced, outside, within, bodies)
        /\ Depth \in Nat \ {0}
        /\ Len(Advanced) = Depth
        /\ Advanced[Depth] = Block(Tail(Top.code))
        /\ InLoop(Advanced, Depth) <=> InLoop(frames, Depth)
    BY <1>1, <1>2, AdvancedIs
  <1>4. breakLoop' = FALSE /\ continueLoop' = FALSE
    BY <1>2 DEF FlowInv, FlagsOnTheWay, flags
  <1>5. InPlace(program, outside, within, bodies, far) /\ program \in Programs
    BY <1>1 DEF FlowInv, Here
  <1>6. CASE frames' = Advanced
    <2>1. Len(frames') > 0 /\ frames'[Len(frames')].kind = "block"
      BY <1>2, <1>3, <1>6 DEF Block
    <2> QED
      BY <1>2, <1>3, <1>4, <1>5, <1>6, <2>1, FlagsDown
  <1>7. ASSUME NEW i \in DOMAIN s.blocks, frames' = Append(Advanced, Block(s.blocks[i]))
        PROVE  FlowInv(far)'
    <2>1. s.blocks[i] \in IF InLoop(frames, Depth) THEN within ELSE outside
      BY <1>1, <1>2, NextInPlace
    <2>2. s.blocks[i] \in Beneath(Advanced, outside, within, bodies)
      BY <1>3, <2>1 DEF Beneath, Block
    <2>3. Stack(frames', outside, within, bodies)
      BY <1>2, <1>3, <1>7, <2>2, StackEnterBlock
    <2>4. Len(frames') = Depth + 1 /\ frames'[Depth + 1] = Block(s.blocks[i])
      BY <1>2, <1>3, <1>7, <2>2, StackEnterBlock
    <2>5. Len(frames') > 0 /\ frames'[Len(frames')].kind = "block"
      BY <1>3, <2>4 DEF Block
    <2> QED
      BY <1>2, <1>4, <1>5, <2>3, <2>5, FlagsDown
  <1> QED
    BY <1>6, <1>7 DEF If, Enter, Back

LEMMA FlowInvWhile ==
  ASSUME NEW far, far \subseteq {"continue"}, FlowInv(far), UNCHANGED program, While
  PROVE  FlowInv(far)'
  <1> DEFINE body == Head(Top.code).blocks[1]
             looped == Append(Advanced, Loop(body))
             entered == Append(looped, Block(body))
  <1>1. PICK outside, within, bodies : Here(far, outside, within, bodies)
    BY DEF FlowInv
  <1>2. /\ pc = "next" /\ Depth > 0 /\ Top.kind = "block" /\ Top.code # <<>>
        /\ pc' \in {"next", "after"} /\ res' \in BOOLEAN
        /\ Head(Top.code).kind = "while" /\ UNCHANGED flags
    BY DEF While, At, Enter, Back, FlowInv, FlagsOnTheWay
  <1>3. /\ Stack(Advanced, outside, within, bodies)
        /\ Depth \in Nat \ {0}
        /\ Len(Advanced) = Depth
        /\ Advanced[Depth] = Block(Tail(Top.code))
    BY <1>1, <1>2, AdvancedIs
  <1>4. breakLoop' = FALSE /\ continueLoop' = FALSE
    BY <1>2 DEF FlowInv, FlagsOnTheWay, flags
  <1>5. InPlace(program, outside, within, bodies, far) /\ program \in Programs
    BY <1>1 DEF FlowInv, Here
  <1>6. CASE frames' = Advanced
    <2>1. Len(frames') > 0 /\ frames'[Len(frames')].kind = "block"
      BY <1>2, <1>3, <1>6 DEF Block
    <2> QED
      BY <1>2, <1>3, <1>4, <1>5, <1>6, <2>1, FlagsDown
  <1>7. CASE frames' = Advanced \o <<Loop(body), Block(body)>>
    <2>1. body \in bodies
      BY <1>1, <1>2, NextInPlace
    <2>2. /\ Stack(looped, outside, within, bodies)
          /\ Len(looped) = Depth + 1
          /\ looped[Depth + 1] = Loop(body)
      BY <1>2, <1>3, <2>1, StackEnterLoop DEF Block
    <2>3. Len(looped) > 0
      BY <2>2, <1>3
    <2>4. body \in Beneath(looped, outside, within, bodies)
      BY <2>1, <2>2 DEF Beneath, Loop
    <2>8. Len(looped) + 1 = Depth + 2
      BY <1>3, <2>2
    <2> HIDE DEF looped
    <2>5. /\ Stack(entered, outside, within, bodies)
          /\ Len(entered) = Len(looped) + 1
          /\ entered[Len(looped) + 1] = Block(body)
      BY <2>2, <2>3, <2>4, StackEnterBlock
    <2>6. frames' = entered
      <3>1. Advanced \in Seq(Frames(outside, within, bodies))
        BY <1>3 DEF Stack
      <3>2. Loop(body) \in Frames(outside, within, bodies)
        BY <2>1 DEF Loop, Frames
      <3>3. Block(body) \in Frames(outside, within, bodies)
        BY <2>1 DEF Block, Frames
      <3> QED
        BY <1>7, <3>1, <3>2, <3>3, AppendTwo DEF looped
    <2>7. Len(frames') > 0 /\ frames'[Len(frames')].kind = "block"
      BY <1>3, <2>5, <2>6, <2>8 DEF Block
    <2> QED
      BY <1>2, <1>4, <1>5, <2>5, <2>6, <2>7, FlagsDown
  <1> QED
    BY <1>6, <1>7 DEF While, Enter, Back

(* Break and continue raise a flag within a loop.                          *)
LEMMA FlowInvJump ==
  ASSUME NEW far, far \subseteq {"continue"}, FlowInv(far), UNCHANGED program,
         Break \/ Continue
  PROVE  FlowInv(far)'
  <1>1. PICK outside, within, bodies : Here(far, outside, within, bodies)
    BY DEF FlowInv
  <1>2. /\ pc = "next" /\ Depth > 0 /\ Top.kind = "block" /\ Top.code # <<>>
        /\ pc' = "after" /\ res' = FALSE /\ frames' = Advanced
        /\ ~breakLoop /\ ~continueLoop
    BY DEF Break, Continue, At, Back, FlowInv, FlagsOnTheWay
  <1>3. /\ Stack(Advanced, outside, within, bodies)
        /\ Depth \in Nat \ {0}
        /\ Len(Advanced) = Depth
        /\ Advanced[Depth] = Block(Tail(Top.code))
        /\ \A i \in 1..Depth : Advanced[i].kind = frames[i].kind
        /\ InLoop(Advanced, Depth) <=> InLoop(frames, Depth)
    BY <1>1, <1>2, AdvancedIs
  <1>4. InLoop(frames, Depth)
    BY <1>1, <1>2, NextInPlace DEF Break, Continue, At
  <1>5. Continue => (far = {} => frames[Depth - 1].kind = "loop")
    BY <1>1, <1>2, NextInPlace DEF Continue, At
  <1>6. Depth - 1 \in 1..Depth
    BY <1>3, <1>4 DEF InLoop
  <1>7. Continue => (far = {} => Advanced[Depth - 1].kind = "loop")
    BY <1>3, <1>5, <1>6
  <1>8. Depth' = Depth /\ Top' = Block(Tail(Top.code)) /\ InLoop(frames', Depth)
    BY <1>2, <1>3, <1>4 DEF Depth, Top
  <1>9. Top'.kind = "block" /\ Depth' > 0
    BY <1>3, <1>8 DEF Block
  <1>10. FlagsOnTheWay(far)'
    <2>3. InLoop(frames, Depth)'
      BY <1>8
    <2>1. CASE Break
      <3>1. breakLoop' = TRUE /\ continueLoop' = FALSE
        BY <2>1, <1>2 DEF Break, FlowInv, FlagsOnTheWay
      <3> QED
        BY <3>1, <2>3, <1>2, <1>9 DEF FlagsOnTheWay
    <2>2. CASE Continue
      <3>1. breakLoop' = FALSE /\ continueLoop' = TRUE
        BY <2>2, <1>2 DEF Continue, FlowInv, FlagsOnTheWay
      <3>2. far = {} => frames'[Depth' - 1].kind = "loop"
        BY <2>2, <1>2, <1>7, <1>8
      <3> QED
        BY <3>1, <3>2, <2>3, <1>2, <1>9 DEF FlagsOnTheWay
    <2> QED
      BY <2>1, <2>2
  <1>11. InPlace(program, outside, within, bodies, far) /\ program \in Programs
    BY <1>1 DEF FlowInv, Here
  <1> QED
    BY <1>2, <1>3, <1>10, <1>11 DEF FlowInv, Here

LEMMA PopIs ==
  ASSUME NEW far, NEW outside, NEW within, NEW bodies,
         Here(far, outside, within, bodies), Depth > 0
  PROVE  /\ Stack(Pop, outside, within, bodies)
         /\ Depth \in Nat \ {0}
         /\ Len(Pop) = Depth - 1
         /\ \A i \in 1..(Depth - 1) : Pop[i] = frames[i]
         /\ \A i \in 1..(Depth - 1) : InLoop(Pop, i) <=> InLoop(frames, i)
         /\ Top.kind \in {"block", "loop", "call"}
  <1> DEFINE S == Frames(outside, within, bodies)
  <1>1. frames \in Seq(S) /\ Depth \in Nat \ {0} /\ Depth - 1 \in 0..Len(frames)
    BY DEF Here, Stack, Depth
  <1>2. Stack(Pop, outside, within, bodies)
    BY <1>1, StackInitial DEF Here, Pop
  <1>3. Len(Pop) = Depth - 1 /\ \A i \in 1..(Depth - 1) : Pop[i] = frames[i]
    BY <1>1, InitialIs DEF Pop
  <1>4. \A i \in 1..(Depth - 1) : InLoop(Pop, i) <=> InLoop(frames, i)
    BY <1>1, <1>3 DEF InLoop
  <1>5. frames[Depth] \in S
    BY <1>1 DEF Depth
  <1>6. Top.kind \in {"block", "loop", "call"}
    BY <1>5 DEF Frames, Top
  <1> QED
    BY <1>1, <1>2, <1>3, <1>4, <1>6

(* Below a frame in a loop lies the loop, or a block in it.                *)
LEMMA InLoopBelow ==
  ASSUME NEW fs, NEW i \in Nat \ {0}, InLoop(fs, i)
  PROVE  /\ i - 1 \in Nat \ {0}
         /\ fs[i - 1].kind # "call"
         /\ fs[i - 1].kind = "loop" \/ InLoop(fs, i - 1)
  <1>1. PICK j \in 1..(i - 1) : fs[j].kind = "loop" /\ \A k \in (j + 1)..(i - 1) : fs[k].kind # "call"
    BY DEF InLoop
  <1>2. i - 1 \in Nat \ {0}
    BY <1>1
  <1>3. CASE j = i - 1
    BY <1>1, <1>2, <1>3
  <1>4. CASE j # i - 1
    <2>1. j \in 1..((i - 1) - 1) /\ i - 1 \in (j + 1)..(i - 1)
      BY <1>1, <1>4
    <2>2. \A k \in (j + 1)..((i - 1) - 1) : fs[k].kind # "call"
      BY <1>1
    <2> QED
      BY <1>1, <1>2, <2>1, <2>2 DEF InLoop
  <1> QED
    BY <1>3, <1>4

LEMMA FlowInvEndBlock ==
  ASSUME NEW far, FlowInv(far), UNCHANGED program, EndBlock
  PROVE  FlowInv(far)'
  <1>1. PICK outside, within, bodies : Here(far, outside, within, bodies)
    BY DEF FlowInv
  <1>2. /\ frames' = Pop /\ pc' = "after" /\ res' = FALSE
        /\ breakLoop' = FALSE /\ continueLoop' = FALSE /\ Depth > 0
    BY DEF EndBlock, Back, flags, FlowInv, FlagsOnTheWay
  <1>3. Stack(Pop, outside, within, bodies)
    BY <1>1, <1>2, PopIs
  <1> QED
    BY <1>1, <1>2, <1>3, FlagsDown DEF FlowInv, Here

LEMMA FlowInvCallAfter ==
  ASSUME NEW far, FlowInv(far), UNCHANGED program, CallAfter
  PROVE  FlowInv(far)'
  <1>1. PICK outside, within, bodies : Here(far, outside, within, bodies)
    BY DEF FlowInv
  <1>2. /\ frames' = Pop /\ pc' = "after" /\ res' = FALSE
        /\ breakLoop' = FALSE /\ continueLoop' = FALSE /\ Depth > 0
    BY DEF CallAfter, Returned, Back, flags, FlowInv, FlagsOnTheWay
  <1>3. Stack(Pop, outside, within, bodies)
    BY <1>1, <1>2, PopIs
  <1> QED
    BY <1>1, <1>2, <1>3, FlagsDown DEF FlowInv, Here

LEMMA FlowInvLoopAfter ==
  ASSUME NEW far, FlowInv(far), UNCHANGED program, LoopAfter
  PROVE  FlowInv(far)'
  <1>1. PICK outside, within, bodies : Here(far, outside, within, bodies)
    BY DEF FlowInv
  <1>2. /\ Depth > 0 /\ Top.kind = "loop"
        /\ pc' \in {"next", "after"} /\ res' \in BOOLEAN
        /\ (frames' = Pop /\ pc' = "after") \/ frames' = Append(frames, Block(Top.code))
    BY DEF LoopAfter, Returned, Back, Enter, FlowInv, FlagsOnTheWay
  <1>3. breakLoop' = FALSE /\ continueLoop' = FALSE
    BY <1>2 DEF LoopAfter, Returned, Back, Enter, FlowInv, FlagsOnTheWay
  <1>4. CASE frames' = Pop /\ pc' = "after"
    <2>1. Stack(Pop, outside, within, bodies)
      BY <1>1, <1>2, PopIs
    <2> QED
      BY <1>1, <1>2, <1>3, <1>4, <2>1, FlagsDown DEF FlowInv, Here
  <1>5. CASE frames' = Append(frames, Block(Top.code))
    <2>1. Stack(frames, outside, within, bodies) /\ Depth \in Nat \ {0} /\ Len(frames) > 0
      BY <1>1, <1>2, PopIs DEF Here, Depth
    <2>2. Top.code \in bodies
      BY <1>2, <2>1 DEF Stack, Fits, Top, Depth
    <2>3. Top.code \in Beneath(frames, outside, within, bodies)
      BY <1>2, <2>2 DEF Beneath, Top, Depth
    <2>4. /\ Stack(frames', outside, within, bodies)
          /\ Len(frames') = Depth + 1
          /\ frames'[Depth + 1] = Block(Top.code)
      BY <1>5, <2>1, <2>3, StackEnterBlock DEF Depth
    <2>5. Len(frames') > 0 /\ frames'[Len(frames')].kind = "block"
      BY <2>1, <2>4 DEF Block
    <2> QED
      BY <1>1, <1>2, <1>3, <2>4, <2>5, FlagsDown DEF FlowInv, Here
  <1> QED
    BY <1>2, <1>4, <1>5

LEMMA FlowInvBlockAfter ==
  ASSUME NEW far, FlowInv(far), UNCHANGED program, BlockAfter
  PROVE  FlowInv(far)'
  <1>1. PICK outside, within, bodies : Here(far, outside, within, bodies)
    BY DEF FlowInv
  <1>2. Depth > 0 /\ Top.kind = "block" /\ pc = "after"
    BY DEF BlockAfter, Returned
  <1>3. /\ Stack(Pop, outside, within, bodies)
        /\ Depth \in Nat \ {0}
        /\ Len(Pop) = Depth - 1
        /\ \A i \in 1..(Depth - 1) : Pop[i] = frames[i]
        /\ \A i \in 1..(Depth - 1) : InLoop(Pop, i) <=> InLoop(frames, i)
    BY <1>1, <1>2, PopIs
  <1>4. InPlace(program, outside, within, bodies, far) /\ program \in Programs
        /\ Stack(frames, outside, within, bodies)
    BY <1>1 DEF FlowInv, Here
  <1>5. CASE ~breakLoop
    <2>1. breakLoop' = FALSE /\ continueLoop' = FALSE
      BY <1>5, <1>2 DEF BlockAfter, FlowInv, FlagsOnTheWay
    <2>2. CASE frames' = Pop /\ pc' = "after" /\ res' \in BOOLEAN
      BY <1>3, <1>4, <2>1, <2>2, FlagsDown
    <2>3. CASE frames' = frames /\ pc' = "next" /\ res' = res
      BY <1>2, <1>4, <2>1, <2>3, FlagsDown DEF FlowInv, FlagsOnTheWay, Depth, Top
    <2> QED
      BY <1>5, <2>2, <2>3 DEF BlockAfter, Back, Enter
  <1>6. CASE breakLoop
    <2>1. /\ frames' = Pop /\ pc' = "after" /\ res' = FALSE
          /\ breakLoop' = TRUE /\ continueLoop' = FALSE
          /\ InLoop(frames, Depth)
      BY <1>2, <1>6 DEF BlockAfter, Back, FlowInv, FlagsOnTheWay
    <2>2. /\ Depth - 1 \in Nat \ {0}
          /\ frames[Depth - 1].kind # "call"
          /\ frames[Depth - 1].kind = "loop" \/ InLoop(frames, Depth - 1)
      BY <1>3, <2>1, InLoopBelow
    <2>3. Depth' = Depth - 1 /\ Depth - 1 \in 1..(Depth - 1)
      BY <1>3, <2>1, <2>2 DEF Depth
    <2>9. InLoop(Pop, Depth - 1) <=> InLoop(frames, Depth - 1)
      BY <1>3, <2>3
    <2>4. Top' = frames[Depth - 1] /\ (InLoop(frames, Depth)' <=> InLoop(frames, Depth - 1))
      BY <1>3, <2>1, <2>3, <2>9 DEF Top
    <2>5. frames[Depth - 1].kind \in {"block", "loop", "call"}
      <3>1. frames[Depth - 1] \in Frames(outside, within, bodies)
        BY <1>3, <1>4, <2>2 DEF Stack, Depth
      <3> QED
        BY <3>1 DEF Frames
    <2>6. Top'.kind = "loop" \/ (Top'.kind = "block" /\ InLoop(frames, Depth)')
      BY <2>2, <2>4, <2>5
    <2>7. Depth' > 0
      BY <2>2, <2>3
    <2>8. FlagsOnTheWay(far)'
      BY <2>1, <2>6, <2>7 DEF FlagsOnTheWay
    <2> QED
      BY <1>3, <1>4, <2>1, <2>8 DEF FlowInv, Here
  <1> QED
    BY <1>5, <1>6 DEF FlowInv, FlagsOnTheWay

LEMMA FlowInvStep ==
  ASSUME NEW far, far \subseteq {"continue"}, FlowInv(far), [Next]_vars
  PROVE  FlowInv(far)'
  <1>1. CASE UNCHANGED vars
    BY <1>1 DEF vars, flags, FlowInv, FlagsOnTheWay, Here, Depth, Top
  <1>2. CASE Next
    BY <1>2, FlowInvSimple, FlowInvExpression, FlowInvBranch, FlowInvWhile, FlowInvJump,
       FlowInvEndBlock, FlowInvBlockAfter, FlowInvLoopAfter, FlowInvCallAfter
       DEF Next, Step
  <1> QED
    BY <1>1, <1>2

LEMMA FlowInvFlags ==
  ASSUME NEW far, FlowInv(far)
  PROVE  FlagsSpent
  BY DEF FlowInv, FlagsOnTheWay, FlagsSpent

(* Where break stands only in loops, and continue too, however deep the   *)
(* conditionals around them, no flag outlives the loop it was raised for:  *)
(* none is set when a declaration is taken, when a call ends or when the   *)
(* program does.                                                           *)
THEOREM FlagsAlwaysSpent ==
  ASSUME \A p \in Programs : WellPlaced(p, {"continue"})
  PROVE  Spec => []FlagsSpent
  <1>1. Init => FlowInv({"continue"})
    BY FlowInvInit
  <1>2. FlowInv({"continue"}) /\ [Next]_vars => FlowInv({"continue"})'
    BY FlowInvStep
  <1>3. FlowInv({"continue"}) => FlagsSpent
    BY FlowInvFlags
  <1> QED
    BY <1>1, <1>2, <1>3, PTL DEF Spec

-----------------------------------------------------------------------------
(* The innermost frame of a kind, and the frames up to it.                 *)
Marks(fs, kind, i) ==
  /\ i = 0 \/ fs[i].kind = kind
  /\ \A j \in i+1..Len(fs) : fs[j].kind # kind

Innermost(fs, kind) == CHOOSE i \in 0..Len(fs) : Marks(fs, kind, i)

UpTo(fs, kind) == SubSeq(fs, 1, Innermost(fs, kind))
Below(fs, kind) == SubSeq(fs, 1, Innermost(fs, kind) - 1)

LEMMA InnermostMarks ==
  ASSUME NEW S, NEW fs \in Seq(S), NEW kind
  PROVE  Innermost(fs, kind) \in 0..Len(fs) /\ Marks(fs, kind, Innermost(fs, kind))
  <1> DEFINE n == Len(fs)
             T == {m \in 0..n : m = n \/ fs[n - m].kind = kind}
  <1>1. n \in Nat /\ n \in T /\ T \subseteq Nat
    OBVIOUS
  <1>2. PICK m \in T : \A k \in Nat : k < m => k \notin T
    <2>1. PICK m \in T : \A k \in T : ~(<<k, m>> \in OpToRel(<, Nat))
      BY <1>1, NatLessThanWellFounded, WFMin, Zenon
    <2>2. \A k \in Nat : k < m => k \notin T
      <3>1. ASSUME NEW k \in Nat, k < m, k \in T
            PROVE  FALSE
        <4>1. <<k, m>> \in OpToRel(<, Nat)
          BY <1>1, <3>1 DEF OpToRel
        <4> QED
          BY <2>1, <3>1, <4>1
      <3> QED
        BY <3>1
    <2> QED
      BY <2>2
  <1>3. n - m \in 0..n
    BY <1>1
  <1>4. n - m = 0 \/ fs[n - m].kind = kind
    BY <1>1
  <1>5. \A j \in (n - m) + 1..n : fs[j].kind # kind
    <2>1. ASSUME NEW j \in (n - m) + 1..n
          PROVE  fs[j].kind # kind
      <3>1. n - j \in 0..n /\ n - j < m /\ n - (n - j) = j
        BY <1>1, <1>3
      <3>2. n - j \notin T
        BY <1>2, <3>1
      <3> QED
        BY <3>1, <3>2
    <2> QED
      BY <2>1
  <1>6. Marks(fs, kind, n - m)
    BY <1>4, <1>5 DEF Marks
  <1> QED
    BY <1>3, <1>6 DEF Innermost

LEMMA InnermostIs ==
  ASSUME NEW S, NEW fs \in Seq(S), NEW kind, NEW i \in 0..Len(fs), Marks(fs, kind, i)
  PROVE  Innermost(fs, kind) = i
  <1> DEFINE m == Innermost(fs, kind)
  <1>1. m \in 0..Len(fs) /\ Marks(fs, kind, m)
    BY InnermostMarks
  <1> HIDE DEF m
  <1>2. Len(fs) \in Nat
    OBVIOUS
  <1>3. ~(m < i)
    BY <1>1, <1>2 DEF Marks
  <1>4. ~(i < m)
    BY <1>1, <1>2 DEF Marks
  <1> QED
    BY <1>1, <1>2, <1>3, <1>4 DEF m

LEMMA InnermostTop ==
  ASSUME NEW S, NEW fs \in Seq(S), Len(fs) > 0
  PROVE  Innermost(fs, fs[Len(fs)].kind) = Len(fs)
  <1> DEFINE n == Len(fs)
  <1>1. n \in Nat /\ n \in 0..Len(fs)
    OBVIOUS
  <1>2. Marks(fs, fs[n].kind, n)
    BY <1>1 DEF Marks
  <1> QED
    BY <1>1, <1>2, InnermostIs

(* Frames of the same kinds on top of the same stack, of another kind.     *)
LEMMA InnermostBelow ==
  ASSUME NEW S, NEW fs \in Seq(S), NEW gs \in Seq(S), NEW kind,
         NEW n \in Nat, n <= Len(fs), n <= Len(gs),
         \A i \in 1..n : gs[i] = fs[i],
         \A i \in (n + 1)..Len(fs) : fs[i].kind # kind,
         \A i \in (n + 1)..Len(gs) : gs[i].kind # kind
  PROVE  /\ Innermost(gs, kind) = Innermost(fs, kind)
         /\ UpTo(gs, kind) = UpTo(fs, kind)
         /\ Innermost(fs, kind) > 0 => Below(gs, kind) = Below(fs, kind)
  <1> DEFINE m == Innermost(fs, kind)
  <1>1. m \in 0..Len(fs) /\ Marks(fs, kind, m) /\ Len(fs) \in Nat /\ Len(gs) \in Nat
    BY InnermostMarks
  <1> HIDE DEF m
  <1>2. m <= n
    BY <1>1 DEF Marks
  <1>3. Marks(gs, kind, m)
    <2>1. m = 0 \/ gs[m].kind = kind
      BY <1>1, <1>2 DEF Marks
    <2>2. \A j \in m + 1..Len(gs) : gs[j].kind # kind
      <3>1. ASSUME NEW j \in m + 1..Len(gs)
            PROVE  gs[j].kind # kind
        <4>1. CASE j <= n
          BY <1>1, <4>1 DEF Marks
        <4>2. CASE j > n
          BY <1>1, <4>2
        <4> QED
          BY <1>1, <4>1, <4>2
      <3> QED
        BY <3>1
    <2> QED
      BY <2>1, <2>2 DEF Marks
  <1>4. Innermost(gs, kind) = m
    BY <1>1, <1>2, <1>3, InnermostIs
  <1>5. SubSeq(gs, 1, m) = SubSeq(fs, 1, m)
    BY <1>1, <1>2, InitialAgree
  <1>6. m > 0 => SubSeq(gs, 1, m - 1) = SubSeq(fs, 1, m - 1)
    <2>1. ASSUME m > 0
          PROVE  SubSeq(gs, 1, m - 1) = SubSeq(fs, 1, m - 1)
      <3>1. m - 1 \in Nat /\ m - 1 <= Len(fs) /\ m - 1 <= Len(gs)
            /\ \A i \in 1..(m - 1) : gs[i] = fs[i]
        BY <1>1, <1>2, <2>1
      <3> QED
        BY <3>1, InitialAgree
    <2> QED
      BY <2>1
  <1> QED
    BY <1>4, <1>5, <1>6 DEF m, UpTo, Below

-----------------------------------------------------------------------------
(* The steps of the interpreter as steps of the statements' promises.      *)
LEMMA SettledIs ==
  /\ Settled = IF pc = "next" \/ Depth = 0 THEN frames
               ELSE IF res THEN UpTo(frames, "call")
               ELSE IF continueLoop THEN UpTo(frames, "loop")
               ELSE IF breakLoop THEN Below(frames, "loop")
               ELSE frames
  /\ Settled' = IF pc' = "next" \/ Len(frames') = 0 THEN frames'
                ELSE IF res' THEN UpTo(frames', "call")
                ELSE IF continueLoop' THEN UpTo(frames', "loop")
                ELSE IF breakLoop' THEN Below(frames', "loop")
                ELSE frames'
  BY DEF Settled, InnermostOf, UpTo, Below, Innermost, Marks, Depth

LEMMA SettledFrames ==
  /\ pc = "next" \/ (~res /\ ~continueLoop /\ ~breakLoop) => Settled = frames
  /\ pc' = "next" \/ (~res' /\ ~continueLoop' /\ ~breakLoop') => Settled' = frames'
  BY SettledIs

LEMMA StartsStructured ==
  ASSUME Init
  PROVE  Structured!Init
  BY SettledFrames DEF Init, Structured!Init, Call, Block, Structured!Call, Structured!Block

(* What is common to the steps that take a declaration.                    *)
LEMMA Taken ==
  ASSUME FlowInv({}), pc = "next", Depth > 0, Top.kind = "block", Top.code # <<>>
  PROVE  /\ Settled = frames
         /\ Structured!Depth = Depth /\ Structured!Top = Top
         /\ Structured!Advanced = Advanced
         /\ \A kind : Structured!At(kind) <=> Head(Top.code).kind = kind
         /\ Structured!From("loop") = UpTo(frames, "loop")
         /\ Structured!From("call") = UpTo(frames, "call")
         /\ Structured!Beyond("loop") = Below(frames, "loop")
  <1>1. Settled = frames
    BY SettledFrames
  <1>2. Structured!Depth = Depth /\ Structured!Top = Top
    BY <1>1 DEF Structured!Depth, Structured!Top, Depth, Top
  <1>3. Structured!Pop = Pop
    BY <1>1, <1>2 DEF Structured!Pop, Pop
  <1>4. Structured!Advanced = Advanced
    BY <1>2, <1>3 DEF Structured!Advanced, Structured!Block, Advanced, Block
  <1>5. \A kind : Structured!At(kind) <=> Head(Top.code).kind = kind
    BY <1>2 DEF Structured!At
  <1>6. \A kind : Structured!Innermost(kind) = Innermost(frames, kind)
    BY <1>1 DEF Structured!Innermost, Structured!Depth, Innermost, Marks
  <1>7. /\ Structured!From("loop") = UpTo(frames, "loop")
        /\ Structured!From("call") = UpTo(frames, "call")
        /\ Structured!Beyond("loop") = Below(frames, "loop")
    BY <1>1, <1>6 DEF Structured!From, Structured!Beyond, UpTo, Below
  <1> QED
    BY <1>1, <1>2, <1>4, <1>5, <1>7

(* The steps that move the frames and leave the flags down.                *)
LEMMA TakesStructured ==
  ASSUME FlowInv({}), UNCHANGED program, Variable \/ Pass \/ Expression \/ If \/ While
  PROVE  Structured!Next
  <1>1. PICK outside, within, bodies : Here({}, outside, within, bodies)
    BY DEF FlowInv
  <1>2. pc = "next" /\ Depth > 0 /\ Top.kind = "block" /\ Top.code # <<>>
    BY DEF Variable, Pass, Expression, If, While, At
  <1>3. breakLoop' = FALSE /\ continueLoop' = FALSE
    BY <1>2 DEF Variable, Pass, Expression, If, While, FlowInv, FlagsOnTheWay, flags
  <1>4. pc' = "next" \/ res' = FALSE
    BY DEF Variable, Pass, Expression, If, While, Enter, Back
  <1>5. Settled' = frames'
    BY <1>3, <1>4, SettledFrames
  <1>6. Head(Top.code).kind # "expression" => Head(Top.code).callee = NoCall
    BY <1>1, <1>2, NextInPlace
  <1>7. CASE Variable \/ Pass
    <2>1. Structured!Simple
      BY <1>2, <1>5, <1>6, <1>7, Taken DEF Variable, Pass, At, Enter, Back, Structured!Simple
    <2> QED
      BY <2>1 DEF Structured!Next
  <1>8. CASE Expression
    <2>1. Structured!Simple \/ Structured!Invoke
      BY <1>2, <1>5, <1>8, Taken
         DEF Expression, At, Enter, Back, Structured!Simple, Structured!Invoke,
             Call, Block, Structured!Call, Structured!Block
    <2> QED
      BY <2>1 DEF Structured!Next
  <1>9. CASE If
    <2>1. Structured!If
      BY <1>2, <1>5, <1>9, Taken
         DEF If, At, Enter, Back, Structured!If, Block, Structured!Block
    <2> QED
      BY <2>1 DEF Structured!Next
  <1>10. CASE While
    <2>1. Structured!While
      BY <1>2, <1>5, <1>10, Taken
         DEF While, At, Enter, Back, Structured!While, Block, Structured!Block, Loop, Structured!Loop
    <2> QED
      BY <2>1 DEF Structured!Next
  <1> QED
    BY <1>7, <1>8, <1>9, <1>10

(* The jumps: the frames that the flag or the result will leave are those  *)
(* that the statement promises.                                            *)
LEMMA JumpsStructured ==
  ASSUME FlowInv({}), FlowInv({})', UNCHANGED program, Break \/ Continue \/ Return
  PROVE  Structured!Next
  <1>1. PICK outside, within, bodies : Here({}, outside, within, bodies)
    BY DEF FlowInv
  <1> DEFINE S == Frames(outside, within, bodies)
  <1>2. /\ pc = "next" /\ Depth > 0 /\ Top.kind = "block" /\ Top.code # <<>>
        /\ pc' = "after" /\ frames' = Advanced /\ ~breakLoop /\ ~continueLoop
    BY DEF Break, Continue, Return, At, Back, FlowInv, FlagsOnTheWay
  <1>3. /\ Stack(Advanced, outside, within, bodies)
        /\ Depth \in Nat \ {0}
        /\ Len(Advanced) = Depth
        /\ Advanced[Depth] = Block(Tail(Top.code))
        /\ \A i \in 1..(Depth - 1) : Advanced[i] = frames[i]
    BY <1>1, <1>2, AdvancedIs
  <1>4. frames \in Seq(S) /\ Advanced \in Seq(S) /\ Len(frames) = Depth
    BY <1>1, <1>3 DEF Here, Stack, Depth
  <1>5. ASSUME NEW kind, kind # "block"
        PROVE  /\ Innermost(Advanced, kind) = Innermost(frames, kind)
               /\ UpTo(Advanced, kind) = UpTo(frames, kind)
               /\ Innermost(frames, kind) > 0 => Below(Advanced, kind) = Below(frames, kind)
    <2>1. /\ Depth - 1 \in Nat
          /\ Depth - 1 <= Len(frames)
          /\ Depth - 1 <= Len(Advanced)
      BY <1>3, <1>4
    <2>2. \A i \in (Depth - 1 + 1)..Len(frames) : frames[i].kind # kind
      BY <1>2, <1>3, <1>4, <1>5 DEF Top
    <2>3. \A i \in (Depth - 1 + 1)..Len(Advanced) : Advanced[i].kind # kind
      BY <1>3, <1>5 DEF Block
    <2> HIDE DEF S
    <2> QED
      BY <2>1, <2>2, <2>3, <1>3, <1>4, InnermostBelow
  <1>6. Len(frames') # 0 /\ pc' # "next"
    BY <1>2, <1>3
  <1>7. CASE Break
    <2>1. res' = FALSE /\ continueLoop' = FALSE /\ breakLoop' = TRUE
      BY <1>2, <1>7 DEF Break, Back, FlowInv, FlagsOnTheWay
    <2>2. Settled' = Below(Advanced, "loop")
      BY <1>2, <1>6, <2>1, SettledIs
    <2>3. InLoop(frames, Depth)
      BY <1>1, <1>2, <1>7, NextInPlace DEF Break, At
    <2>4. Innermost(frames, "loop") > 0
      <3>1. PICK j \in 1..(Depth - 1) : frames[j].kind = "loop"
        BY <2>3 DEF InLoop
      <3>2. Innermost(frames, "loop") \in 0..Depth /\ Marks(frames, "loop", Innermost(frames, "loop"))
        BY <1>4, InnermostMarks
      <3> QED
        BY <1>3, <1>4, <3>1, <3>2 DEF Marks
    <2>5. Settled' = Below(frames, "loop")
      BY <1>5, <2>2, <2>4
    <2>6. Structured!Break
      BY <1>2, <1>7, <2>5, Taken DEF Break, At, Structured!Break
    <2> QED
      BY <2>6 DEF Structured!Next
  <1>8. CASE Continue
    <2>1. res' = FALSE /\ continueLoop' = TRUE
      BY <1>2, <1>8 DEF Continue, Back
    <2>2. Settled' = UpTo(Advanced, "loop")
      BY <1>2, <1>6, <2>1, SettledIs
    <2>3. Structured!Continue
      BY <1>2, <1>5, <1>8, <2>2, Taken DEF Continue, At, Structured!Continue
    <2> QED
      BY <2>3 DEF Structured!Next
  <1>9. CASE Return
    <2>1. res' = TRUE
      BY <1>9 DEF Return, Back
    <2>2. Settled' = UpTo(Advanced, "call")
      BY <1>2, <1>6, <2>1, SettledIs
    <2>3. Structured!Return
      BY <1>2, <1>5, <1>9, <2>2, Taken DEF Return, At, Structured!Return
    <2> QED
      BY <2>3 DEF Structured!Next
  <1> QED
    BY <1>7, <1>8, <1>9

LEMMA EndsStructured ==
  ASSUME FlowInv({}), UNCHANGED program, EndBlock \/ CallAfter
  PROVE  Structured!Next
  <1>1. PICK outside, within, bodies : Here({}, outside, within, bodies)
    BY DEF FlowInv
  <1> DEFINE S == Frames(outside, within, bodies)
  <1>2. /\ frames' = Pop /\ res' = FALSE /\ Depth > 0
        /\ breakLoop' = FALSE /\ continueLoop' = FALSE
    BY DEF EndBlock, CallAfter, Returned, Back, flags, FlowInv, FlagsOnTheWay
  <1>3. Settled' = Pop
    BY <1>2, SettledFrames
  <1>4. frames \in Seq(S) /\ Depth = Len(frames) /\ Depth \in Nat \ {0}
    BY <1>1, <1>2 DEF Here, Stack, Depth
  <1>5. Settled = frames
    <2>1. CASE EndBlock
      BY <2>1, SettledFrames DEF EndBlock
    <2>2. CASE CallAfter /\ ~res
      BY <2>2, SettledFrames DEF CallAfter, Returned, FlowInv, FlagsOnTheWay
    <2>3. CASE CallAfter /\ res
      <3>1. pc # "next" /\ Depth # 0 /\ Top.kind = "call"
        BY <2>3 DEF CallAfter, Returned
      <3>2. Settled = UpTo(frames, "call")
        BY <2>3, <3>1, SettledIs
      <3>3. Innermost(frames, "call") = Len(frames)
        BY <1>4, <3>1, InnermostTop DEF Top
      <3> QED
        BY <1>4, <3>2, <3>3, InitialAll DEF UpTo
    <2> QED
      BY <2>1, <2>2, <2>3
  <1>6. /\ Structured!Depth = Depth /\ Structured!Top = Top /\ Structured!Pop = Pop
    BY <1>5 DEF Structured!Depth, Structured!Top, Structured!Pop, Depth, Top, Pop
  <1>7. CASE EndBlock
    <2>1. Structured!EndBlock
      BY <1>2, <1>3, <1>6, <1>7 DEF EndBlock, Structured!EndBlock, Block, Structured!Block
    <2> QED
      BY <2>1 DEF Structured!Next
  <1>8. CASE CallAfter
    <2>1. Top = Call
      BY <1>1, <1>4, <1>8 DEF CallAfter, Returned, Here, Stack, Fits, Top
    <2>2. Structured!EndCall
      BY <1>2, <1>3, <1>6, <2>1 DEF Call, Structured!Call, Structured!EndCall
    <2> QED
      BY <2>2 DEF Structured!Next
  <1> QED
    BY <1>7, <1>8

(* What leaving one more block or loop does to the frames still to leave.  *)
LEMMA PopUpTo ==
  ASSUME NEW outside, NEW within, NEW bodies, Here({}, outside, within, bodies),
         Depth > 0, NEW kind, Top.kind # kind
  PROVE  /\ Innermost(Pop, kind) = Innermost(frames, kind)
         /\ UpTo(Pop, kind) = UpTo(frames, kind)
         /\ Innermost(frames, kind) > 0 => Below(Pop, kind) = Below(frames, kind)
  <1> DEFINE S == Frames(outside, within, bodies)
  <1>1. /\ Stack(Pop, outside, within, bodies)
        /\ Depth \in Nat \ {0}
        /\ Len(Pop) = Depth - 1
        /\ \A i \in 1..(Depth - 1) : Pop[i] = frames[i]
    BY PopIs
  <1>2. frames \in Seq(S) /\ Pop \in Seq(S) /\ Len(frames) = Depth
    BY <1>1 DEF Here, Stack, Depth
  <1>3. /\ Depth - 1 \in Nat
        /\ Depth - 1 <= Len(frames)
        /\ Depth - 1 <= Len(Pop)
    BY <1>1, <1>2
  <1>4. \A i \in (Depth - 1 + 1)..Len(frames) : frames[i].kind # kind
    BY <1>1, <1>2 DEF Top
  <1>5. \A i \in (Depth - 1 + 1)..Len(Pop) : Pop[i].kind # kind
    BY <1>1
  <1> HIDE DEF S
  <1> QED
    BY <1>1, <1>2, <1>3, <1>4, <1>5, InnermostBelow

(* A result goes on through a block or a loop to the call.                 *)
LEMMA ResultStutters ==
  ASSUME FlowInv({}), pc = "after", Depth > 0, Top.kind # "call", res,
         frames' = Pop, pc' = "after", res' = TRUE
  PROVE  UNCHANGED Settled
  <1>1. PICK outside, within, bodies : Here({}, outside, within, bodies)
    BY DEF FlowInv
  <1>2. Settled = UpTo(frames, "call")
    <2>1. pc # "next" /\ Depth # 0
      OBVIOUS
    <2> QED
      BY <2>1, SettledIs
  <1>3. UpTo(Pop, "call") = UpTo(frames, "call")
    BY <1>1, PopUpTo
  <1>4. Settled' = UpTo(Pop, "call")
    <2>1. CASE Len(Pop) = 0
      <3>1. Settled' = Pop
        BY <2>1, SettledIs
      <3>2. Pop \in Seq(Frames(outside, within, bodies))
        BY <1>1, PopIs DEF Stack
      <3>5. Innermost(Pop, "call") \in 0..Len(Pop)
        BY <3>2, InnermostMarks
      <3>3. Innermost(Pop, "call") = 0
        BY <2>1, <3>5
      <3>4. UpTo(Pop, "call") = Pop
        BY <2>1, <3>2, <3>3, InitialAll DEF UpTo
      <3> QED
        BY <3>1, <3>4
    <2>2. CASE Len(Pop) # 0
      BY <2>2, SettledIs
    <2> QED
      BY <2>1, <2>2
  <1> QED
    BY <1>2, <1>3, <1>4

LEMMA BlockStructured ==
  ASSUME FlowInv({}), FlowInv({})', UNCHANGED program, BlockAfter
  PROVE  UNCHANGED Settled
  <1>1. PICK outside, within, bodies : Here({}, outside, within, bodies)
    BY DEF FlowInv
  <1> DEFINE S == Frames(outside, within, bodies)
  <1>2. pc = "after" /\ Depth > 0 /\ Top.kind = "block"
    BY DEF BlockAfter, Returned
  <1>3. pc # "next" /\ Depth # 0 /\ Top.kind # "call" /\ Top.kind # "loop"
    BY <1>2
  <1>4. frames \in Seq(S) /\ Depth = Len(frames) /\ Depth \in Nat \ {0}
    BY <1>1, <1>2 DEF Here, Stack, Depth
  <1>5. CASE res
    <2>1. frames' = Pop /\ pc' = "after" /\ res' = TRUE
      BY <1>5 DEF BlockAfter, Back
    <2> QED
      BY <1>2, <1>3, <1>5, <2>1, ResultStutters
  <1>6. CASE ~res /\ continueLoop
    <2>1. frames' = Pop /\ res' = FALSE /\ continueLoop' = FALSE /\ breakLoop' = FALSE
      BY <1>6 DEF BlockAfter, Back, FlowInv, FlagsOnTheWay
    <2>2. Settled' = Pop
      BY <2>1, SettledFrames
    <2>3. Settled = UpTo(frames, "loop")
      BY <1>3, <1>6, SettledIs
    <2>4. InLoop(frames, Depth) /\ frames[Depth - 1].kind = "loop"
      BY <1>6 DEF FlowInv, FlagsOnTheWay
    <2>5. Depth - 1 \in 1..Len(frames)
      BY <1>4, <2>4 DEF InLoop
    <2>6. Marks(frames, "loop", Depth - 1)
      BY <1>3, <1>4, <2>4, <2>5 DEF Marks, Top
    <2>7. Depth - 1 \in 0..Len(frames)
      BY <2>5
    <2> HIDE DEF S
    <2>8. Innermost(frames, "loop") = Depth - 1
      BY <1>4, <2>6, <2>7, InnermostIs
    <2> QED
      BY <2>2, <2>3, <2>8 DEF UpTo, Pop
  <1>7. CASE ~res /\ ~continueLoop /\ breakLoop
    <2>1. frames' = Pop /\ res' = FALSE /\ continueLoop' = FALSE /\ breakLoop' = TRUE /\ pc' = "after"
      BY <1>7 DEF BlockAfter, Back, FlowInv, FlagsOnTheWay
    <2>2. Len(frames') # 0
      BY <2>1 DEF FlowInv, FlagsOnTheWay, Depth
    <2>3. Settled' = Below(Pop, "loop")
      BY <2>1, <2>2, SettledIs
    <2>4. Settled = Below(frames, "loop")
      BY <1>3, <1>7, SettledIs
    <2>5. InLoop(frames, Depth)
      BY <1>3, <1>7 DEF FlowInv, FlagsOnTheWay
    <2>6. Innermost(frames, "loop") > 0
      <3>1. PICK j \in 1..(Depth - 1) : frames[j].kind = "loop"
        BY <2>5 DEF InLoop
      <3>2. Innermost(frames, "loop") \in 0..Depth /\ Marks(frames, "loop", Innermost(frames, "loop"))
        BY <1>4, InnermostMarks
      <3> QED
        BY <1>4, <3>1, <3>2 DEF Marks
    <2> QED
      BY <1>1, <1>2, <1>3, <2>3, <2>4, <2>6, PopUpTo
  <1>8. CASE ~res /\ ~continueLoop /\ ~breakLoop
    <2>1. frames' = frames /\ pc' = "next"
      BY <1>8 DEF BlockAfter, Enter
    <2> QED
      BY <1>8, <2>1, SettledFrames
  <1> QED
    BY <1>5, <1>6, <1>7, <1>8 DEF FlowInv, FlagsOnTheWay

LEMMA LoopStructured ==
  ASSUME FlowInv({}), FlowInv({})', UNCHANGED program, LoopAfter
  PROVE  Structured!Next \/ UNCHANGED Settled
  <1>1. PICK outside, within, bodies : Here({}, outside, within, bodies)
    BY DEF FlowInv
  <1> DEFINE S == Frames(outside, within, bodies)
  <1>2. pc = "after" /\ Depth > 0 /\ Top.kind = "loop"
    BY DEF LoopAfter, Returned
  <1>3. pc # "next" /\ Depth # 0 /\ Top.kind # "call" /\ ~continueLoop
    BY <1>2 DEF FlowInv, FlagsOnTheWay
  <1>4. frames \in Seq(S) /\ Depth = Len(frames) /\ Depth \in Nat \ {0}
    BY <1>1, <1>2 DEF Here, Stack, Depth
  <1>5. CASE res
    <2>1. frames' = Pop /\ pc' = "after" /\ res' = TRUE
      BY <1>5 DEF LoopAfter, Back
    <2> QED
      BY <1>2, <1>3, <1>5, <2>1, ResultStutters
  <1>6. CASE ~res /\ breakLoop
    <2>1. frames' = Pop /\ res' = FALSE /\ continueLoop' = FALSE /\ breakLoop' = FALSE
      BY <1>3, <1>6 DEF LoopAfter, Back, FlowInv, FlagsOnTheWay
    <2>2. Settled' = Pop
      BY <2>1, SettledFrames
    <2>3. Settled = Below(frames, "loop")
      BY <1>3, <1>6, SettledIs
    <2>4. Innermost(frames, "loop") = Depth
      BY <1>2, <1>4, InnermostTop DEF Top
    <2> QED
      BY <2>2, <2>3, <2>4 DEF Below, Pop
  <1>7. CASE ~res /\ ~breakLoop
    <2>1. Settled = frames
      BY <1>3, <1>7, SettledFrames
    <2>2. /\ \/ frames' = Append(frames, Block(Top.code)) /\ pc' = "next"
             \/ frames' = Pop /\ pc' = "after" /\ res' = FALSE
          /\ breakLoop' = FALSE /\ continueLoop' = FALSE
      BY <1>3, <1>7 DEF LoopAfter, Enter, Back, FlowInv, FlagsOnTheWay
    <2>3. Settled' = frames'
      BY <2>2, SettledFrames
    <2>4. /\ Structured!Depth = Depth /\ Structured!Top = Top /\ Structured!Pop = Pop
      BY <2>1 DEF Structured!Depth, Structured!Top, Structured!Pop, Depth, Top, Pop
    <2>5. Structured!Again
      BY <1>2, <2>1, <2>2, <2>3, <2>4 DEF Structured!Again, Structured!Block, Block
    <2> QED
      BY <2>5 DEF Structured!Next
  <1> QED
    BY <1>5, <1>6, <1>7 DEF FlowInv, FlagsOnTheWay

(* Where besides every continue stands in the body of its loop itself, the *)
(* two flags and the returned pairs together do what the statements        *)
(* promise: break leaves the innermost loop, continue goes back to its     *)
(* condition and return ends the call, through any number of blocks.       *)
THEOREM RunsAsStructured ==
  ASSUME \A p \in Programs : WellPlaced(p, {})
  PROVE  Spec => ImplementsStructured
  <1>1. Init => FlowInv({}) /\ Structured!Init
    BY FlowInvInit, StartsStructured
  <1>2. FlowInv({}) /\ [Next]_vars => FlowInv({})'
    BY FlowInvStep
  <1>3. FlowInv({}) /\ FlowInv({})' /\ [Next]_vars => [Structured!Next]_Structured!vars
    <2>1. ASSUME UNCHANGED vars
          PROVE  UNCHANGED Structured!vars
      BY <2>1, SettledIs DEF vars, flags, Structured!vars, Depth
    <2>2. ASSUME FlowInv({}), FlowInv({})', Next
          PROVE  Structured!Next \/ UNCHANGED Structured!vars
      BY <2>2, TakesStructured, JumpsStructured, EndsStructured, BlockStructured, LoopStructured
         DEF Next, Step, Structured!vars
    <2> QED
      BY <2>1, <2>2
  <1> QED
    BY <1>1, <1>2, <1>3, PTL DEF Spec, ImplementsStructured, Structured!Spec
=============================================================================
