-------------------------- MODULE JtagStreamProofs --------------------------
(***************************************************************************)
(* The driver of the JTAG UART carries each direction as a stream: nothing *)
(* is lost, doubled or reordered, whatever the sizes, the calls, the host  *)
(* and the moments of the interrupts.                                      *)
(***************************************************************************)
EXTENDS JtagUartProofs

USE SizesAssumption DEF SizesAssumption

(* A sequence is a concatenation if its two pieces are. *)
LEMMA ConcatIs ==
  ASSUME NEW S, NEW s \in Seq(S), NEW t \in Seq(S), NEW u \in Seq(S),
         Len(u) = Len(s) + Len(t),
         \A i \in 1 .. Len(s) : u[i] = s[i],
         \A i \in 1 .. Len(t) : u[Len(s) + i] = t[i]
  PROVE  u = s \o t
<1>1. /\ s \o t \in Seq(S) /\ Len(s \o t) = Len(s) + Len(t)
      /\ \A i \in 1 .. Len(s) + Len(t) : (s \o t)[i] = IF i <= Len(s) THEN s[i] ELSE t[i - Len(s)]
  BY ConcatProperties
<1>2. Len(s) \in Nat /\ Len(t) \in Nat
  BY LenProperties
<1>3. \A i \in 1 .. Len(u) : u[i] = (s \o t)[i]
  <2> TAKE i \in 1 .. Len(u)
  <2>1. CASE i <= Len(s)
    BY <2>1, <1>1, <1>2
  <2>2. CASE i > Len(s)
    <3>1. i - Len(s) \in 1 .. Len(t) /\ Len(s) + (i - Len(s)) = i
      BY <2>2, <1>2
    <3>2. u[Len(s) + (i - Len(s))] = t[i - Len(s)]
      BY <3>1
    <3> QED
      BY <2>2, <3>1, <3>2, <1>1, <1>2
  <2> QED
    BY <2>1, <2>2, <1>2
<1> QED
  BY <1>1, <1>3, SeqEqual

(* Characters in three pieces can be put together in either order. *)
LEMMA Regroup ==
  ASSUME NEW s \in Seq(Char), NEW t \in Seq(Char), NEW u \in Seq(Char)
  PROVE  (s \o t) \o u = s \o (t \o u)
BY ConcatAssociative

-----------------------------------------------------------------------------
(* What is in a ring *)

(* How many characters, and where the next ones are, without division.     *)
Count(out, in) == IF in >= out THEN in - out ELSE in + BufLen - out
Onward(out, i) == IF out + i < BufLen THEN out + i ELSE out + i - BufLen

(* One turn at most is a subtraction. *)
LEMMA ModOnce ==
  ASSUME NEW x \in Nat, x < 2 * BufLen
  PROVE  x % BufLen = IF x < BufLen THEN x ELSE x - BufLen
<1>1. BufLen \in Nat /\ BufLen > 1
  OBVIOUS
<1>2. CASE x < BufLen
  BY <1>1, <1>2
<1>3. CASE x >= BufLen
  <2> DEFINE y == x - BufLen
  <2>1. y \in 0 .. BufLen - 1 /\ x = BufLen * 1 + y
    BY <1>1, <1>3
  <2> QED
    BY <2>1, <1>1
<1> QED
  BY <1>1, <1>2, <1>3

(* What a ring holds, as a sequence of Count characters. *)
LEMMA HeldIs ==
  ASSUME NEW in \in Index, NEW out \in Index, NEW buf \in [Index -> Char]
  PROVE  /\ Count(out, in) \in 0 .. BufLen - 1
         /\ \A i \in 1 .. Count(out, in) : Onward(out, i - 1) \in Index
         /\ Held(buf, out, in) \in Seq(Char)
         /\ Len(Held(buf, out, in)) = Count(out, in)
         /\ \A i \in 1 .. Count(out, in) : Held(buf, out, in)[i] = buf[Onward(out, i - 1)]
<1>1. (in + BufLen - out) % BufLen = Count(out, in) /\ Count(out, in) \in 0 .. BufLen - 1
  <2> DEFINE x == in + BufLen - out
  <2>1. x \in Nat /\ x < 2 * BufLen
    BY DEF Index
  <2> HIDE DEF x
  <2>2. x % BufLen = IF x < BufLen THEN x ELSE x - BufLen
    BY <2>1, ModOnce
  <2>3. x % BufLen = Count(out, in)
    BY <2>2 DEF Index, Count, x
  <2> QED
    BY <2>3 DEF Index, Count, x
<1>2. \A i \in 1 .. Count(out, in) : (out + i - 1) % BufLen = Onward(out, i - 1) /\ Onward(out, i - 1) \in Index
  <2> TAKE i \in 1 .. Count(out, in)
  <2> DEFINE x == out + i - 1
  <2>1. x \in Nat /\ x < 2 * BufLen
    BY <1>1 DEF Index
  <2> HIDE DEF x
  <2>2. x % BufLen = IF x < BufLen THEN x ELSE x - BufLen
    BY <2>1, ModOnce
  <2>3. x % BufLen = Onward(out, i - 1)
    BY <1>1, <2>2 DEF Index, Onward, x
  <2> QED
    BY <1>1, <2>1, <2>3 DEF Index, Onward, x
<1>3. Held(buf, out, in) = [i \in 1 .. Count(out, in) |-> buf[(out + i - 1) % BufLen]]
  BY <1>1 DEF Held
<1>4. Held(buf, out, in) \in [1 .. Count(out, in) -> Char]
  BY <1>2, <1>3
<1>5. Held(buf, out, in) \in Seq(Char)
  BY <1>1, <1>4
<1>6. Len(Held(buf, out, in)) = Count(out, in)
  BY <1>1, <1>4, <1>5, LenProperties
<1> QED
  BY <1>1, <1>2, <1>3, <1>5, <1>6

(* A write publishes what it has copied to the room it found. *)
LEMMA HeldPublished ==
  ASSUME NEW in \in Index, NEW out \in Index, NEW buf \in [Index -> Char],
         NEW chars \in Seq(Char), NEW k \in 1 .. Len(chars), k <= Space(in, out),
         \A i \in 1 .. k : buf[in + i - 1] = chars[i]
  PROVE  Held(buf, out, (in + k) % BufLen) = Held(buf, out, in) \o SubSeq(chars, 1, k)
<1> DEFINE next == (in + k) % BufLen
           new == SubSeq(chars, 1, k)
<1>1. k \in Nat /\ in + k <= BufLen
  <2>1. Space(in, out) \in Int /\ in + Space(in, out) <= BufLen
    BY SpaceUpToTheEnd
  <2>2. k \in Nat
    BY LenProperties
  <2> QED
    BY <2>1, <2>2 DEF Index
<1>2. next \in Index /\ next = (IF in + k = BufLen THEN 0 ELSE in + k)
  BY <1>1, Advance
<1>3. new \in Seq(Char) /\ Len(new) = k /\ \A i \in 1 .. k : new[i] = chars[i]
  <2>1. \A i \in 1 .. k : chars[i] \in Char
    BY ElementOfSeq, LenProperties
  <2>2. 1 \in Int /\ k \in Int
    BY <1>1
  <2>3. /\ new \in Seq(Char)
        /\ Len(new) = IF 1 <= k THEN k - 1 + 1 ELSE 0
        /\ \A i \in 1 .. k - 1 + 1 : new[i] = chars[1 + i - 1]
    BY <2>1, <2>2, SubSeqProperties
  <2>4. 1 <= k /\ k - 1 + 1 = k
    BY <1>1
  <2>5. \A i \in 1 .. k : 1 + i - 1 = i
    BY <1>1
  <2> QED
    BY <2>3, <2>4, <2>5
<1> HIDE DEF next, new
<1>4. Count(out, next) = Count(out, in) + k
  BY <1>1, <1>2 DEF Count, Space, Index
<1>5. \A i \in 1 .. k : Onward(out, Count(out, in) + i - 1) = in + i - 1
  BY <1>1 DEF Count, Onward, Space, Index
<1> DEFINE old == Held(buf, out, in)
           now == Held(buf, out, next)
<1>6. /\ old \in Seq(Char) /\ Len(old) = Count(out, in) /\ Count(out, in) \in Nat
      /\ \A i \in 1 .. Count(out, in) : old[i] = buf[Onward(out, i - 1)]
  BY HeldIs
<1>7. /\ now \in Seq(Char) /\ Len(now) = Count(out, in) + k
      /\ \A i \in 1 .. Count(out, in) + k : now[i] = buf[Onward(out, i - 1)]
  <2>1. /\ now \in Seq(Char) /\ Len(now) = Count(out, next)
        /\ \A i \in 1 .. Count(out, next) : now[i] = buf[Onward(out, i - 1)]
    BY <1>2, HeldIs
  <2> QED
    BY <2>1, <1>4
<1> HIDE DEF old, now
<1>8. \A i \in 1 .. Len(old) : now[i] = old[i]
  BY <1>1, <1>6, <1>7
<1>9. \A i \in 1 .. Len(new) : now[Len(old) + i] = new[i]
  <2> TAKE i \in 1 .. Len(new)
  <2>1. i \in 1 .. k /\ Count(out, in) + i \in 1 .. Count(out, in) + k
    BY <1>1, <1>3, <1>6
  <2>2. now[Count(out, in) + i] = buf[Onward(out, Count(out, in) + i - 1)]
    <3> DEFINE j == Count(out, in) + i
    <3>1. now[j] = buf[Onward(out, j - 1)]
      BY <2>1, <1>7
    <3>2. j - 1 = Count(out, in) + i - 1
      BY <2>1, <1>6
    <3> QED
      BY <3>1, <3>2
  <2>3. buf[Onward(out, Count(out, in) + i - 1)] = chars[i]
    BY <2>1, <1>5
  <2> QED
    BY <2>1, <2>2, <2>3, <1>3, <1>6
<1>10. now = old \o new
  <2>1. Len(now) = Len(old) + Len(new)
    BY <1>3, <1>6, <1>7
  <2> QED
    BY <2>1, <1>3, <1>6, <1>7, <1>8, <1>9, ConcatIs, Zenon
<1> QED
  BY <1>10 DEF next, new, old, now

(* Nothing that is held is written over by a copy to the room found.       *)
LEMMA HeldBesideCopy ==
  ASSUME NEW in \in Index, NEW out \in Index, NEW buf \in [Index -> Char], NEW new \in [Index -> Char],
         NEW k \in Nat, k <= Space(in, out),
         \A i \in Index : i \notin in .. in + k - 1 => new[i] = buf[i]
  PROVE  Held(new, out, in) = Held(buf, out, in)
<1>1. in + k <= BufLen
  <2>1. Space(in, out) \in Int /\ in + Space(in, out) <= BufLen
    BY SpaceUpToTheEnd
  <2> QED
    BY <2>1 DEF Index
<1>2. \A i \in 1 .. Count(out, in) : Onward(out, i - 1) \in Index /\ Onward(out, i - 1) \notin in .. in + k - 1
  BY <1>1, HeldIs DEF Count, Onward, Space, Index
<1>3. \A i \in 1 .. Count(out, in) : Held(new, out, in)[i] = Held(buf, out, in)[i]
  BY <1>2, HeldIs
<1> QED
  BY <1>3, HeldIs, SeqEqual

(* What is taken out in one piece is what was first in the ring.           *)
LEMMA HeldTaken ==
  ASSUME NEW in \in Index, NEW out \in Index, NEW buf \in [Index -> Char],
         NEW k \in 1 .. BufLen, k <= Avail(in, out)
  PROVE  /\ (out + k) % BufLen \in Index
         /\ [i \in 1 .. k |-> buf[out + i - 1]] \in Seq(Char)
         /\ Len([i \in 1 .. k |-> buf[out + i - 1]]) = k
         /\ Held(buf, out, in) = [i \in 1 .. k |-> buf[out + i - 1]] \o Held(buf, (out + k) % BufLen, in)
<1> DEFINE on == (out + k) % BufLen
           piece == [i \in 1 .. k |-> buf[out + i - 1]]
           all == Held(buf, out, in)
           rest == Held(buf, on, in)
<1>1. k \in Nat /\ out + k <= BufLen
  <2>1. Avail(in, out) \in Int /\ out + Avail(in, out) <= BufLen
    BY AvailUpToTheEnd
  <2> QED
    BY <2>1 DEF Index
<1>2. on \in Index /\ on = (IF out + k = BufLen THEN 0 ELSE out + k)
  BY <1>1, Advance
<1>3. \A i \in 1 .. k : Onward(out, i - 1) = out + i - 1 /\ out + i - 1 \in Index
  BY <1>1 DEF Onward, Index
<1>4. piece \in [1 .. k -> Char]
  BY <1>3
<1>5. piece \in Seq(Char)
  BY <1>1, <1>4
<1>6. Len(piece) = k /\ \A i \in 1 .. k : piece[i] = buf[out + i - 1]
  BY <1>1, <1>4, <1>5, LenProperties
<1> HIDE DEF piece, on
<1>7. Count(out, in) = k + Count(on, in) /\ Count(on, in) \in Nat
  BY <1>1, <1>2 DEF Count, Avail, Index
<1>8. \A i \in 1 .. Count(on, in) : Onward(out, k + i - 1) = Onward(on, i - 1)
  BY <1>1, <1>2 DEF Count, Onward, Avail, Index
<1>9. /\ all \in Seq(Char) /\ Len(all) = Count(out, in)
      /\ \A i \in 1 .. Count(out, in) : all[i] = buf[Onward(out, i - 1)]
  BY HeldIs
<1>10. /\ rest \in Seq(Char) /\ Len(rest) = Count(on, in)
       /\ \A i \in 1 .. Count(on, in) : rest[i] = buf[Onward(on, i - 1)]
  BY <1>2, HeldIs
<1> HIDE DEF all, rest
<1>11. \A i \in 1 .. Len(piece) : all[i] = piece[i]
  BY <1>1, <1>3, <1>6, <1>7, <1>9
<1>12. \A i \in 1 .. Len(rest) : all[Len(piece) + i] = rest[i]
  <2> TAKE i \in 1 .. Len(rest)
  <2>1. i \in 1 .. Count(on, in) /\ k + i \in 1 .. Count(out, in)
    BY <1>1, <1>7, <1>10
  <2> QED
    BY <2>1, <1>6, <1>8, <1>9, <1>10
<1>13. all = piece \o rest
  <2>1. Len(all) = Len(piece) + Len(rest)
    BY <1>6, <1>7, <1>9, <1>10
  <2> QED
    BY <2>1, <1>5, <1>9, <1>10, <1>11, <1>12, ConcatIs, Zenon
<1> QED
  BY <1>2, <1>5, <1>6, <1>13 DEF on, piece, all, rest

(* A character that comes in is the last. *)
LEMMA HeldGrown ==
  ASSUME NEW in \in Index, NEW out \in Index, NEW buf \in [Index -> Char], NEW c \in Char,
         Count(out, in) < BufLen - 1
  PROVE  Held([buf EXCEPT ![in] = c], out, (in + 1) % BufLen) = Held(buf, out, in) \o << c >>
<1> DEFINE new == [buf EXCEPT ![in] = c]
           one == << c >>
<1>1. new \in [Index -> Char] /\ new[in] = c /\ one \in Seq(Char) /\ Len(one) = 1 /\ one[1] = c
  OBVIOUS
<1>2. 1 <= Space(in, out)
  BY DEF Space, Count, Index
<1>3. Held(new, out, in) = Held(buf, out, in)
  <2>1. \A i \in Index : i \notin in .. in + 1 - 1 => new[i] = buf[i]
    BY DEF Index
  <2> HIDE DEF new
  <2> QED
    BY <1>1, <1>2, <2>1, HeldBesideCopy
<1>4. SubSeq(one, 1, 1) = one
  BY <1>1, SubSeqFull
<1>5. \A i \in 1 .. 1 : new[in + i - 1] = one[i]
  BY <1>1 DEF Index
<1> HIDE DEF new, one
<1>6. 1 \in 1 .. Len(one)
  BY <1>1
<1>7. Held(new, out, (in + 1) % BufLen) = Held(new, out, in) \o SubSeq(one, 1, 1)
  BY <1>1, <1>2, <1>5, <1>6, HeldPublished
<1> QED
  BY <1>3, <1>4, <1>7 DEF new, one
-----------------------------------------------------------------------------
(* Pieces of sequences *)

(* Taking off the first piece leaves the second.                           *)
LEMMA Dropped ==
  ASSUME NEW S, NEW s \in Seq(S), NEW t \in Seq(S)
  PROVE  /\ SubSeq(s \o t, 1, Len(s)) = s
         /\ SubSeq(s \o t, Len(s) + 1, Len(s \o t)) = t
<1> DEFINE u == s \o t
           front == SubSeq(u, 1, Len(s))
           back == SubSeq(u, Len(s) + 1, Len(u))
<1>1. Len(s) \in Nat /\ Len(t) \in Nat
  BY LenProperties
<1>2. /\ u \in Seq(S) /\ Len(u) = Len(s) + Len(t)
      /\ \A i \in 1 .. Len(s) + Len(t) : u[i] = IF i <= Len(s) THEN s[i] ELSE t[i - Len(s)]
  BY ConcatProperties
<1> HIDE DEF u
<1>3. \A i \in 1 .. Len(u) : u[i] \in S
  BY <1>2, ElementOfSeq
<1>4. /\ front \in Seq(S) /\ Len(front) = Len(s)
      /\ \A i \in 1 .. Len(s) : front[i] = u[i]
  <2>1. \A i \in 1 .. Len(s) : u[i] \in S
    BY <1>1, <1>2, <1>3
  <2>2. /\ front \in Seq(S) /\ Len(front) = IF 1 <= Len(s) THEN Len(s) - 1 + 1 ELSE 0
        /\ \A i \in 1 .. Len(s) - 1 + 1 : front[i] = u[1 + i - 1]
    BY <1>1, <2>1, SubSeqProperties
  <2> HIDE DEF front
  <2>3. Len(s) - 1 + 1 = Len(s) /\ \A i \in 1 .. Len(s) : 1 + i - 1 = i
    BY <1>1
  <2> QED
    BY <1>1, <2>2, <2>3
<1>5. /\ back \in Seq(S) /\ Len(back) = Len(t)
      /\ \A i \in 1 .. Len(t) : back[i] = u[Len(s) + i]
  <2>1. \A i \in Len(s) + 1 .. Len(u) : u[i] \in S
    BY <1>1, <1>2, <1>3
  <2>2. Len(s) + 1 \in Int /\ Len(u) \in Int
    BY <1>1, <1>2
  <2>3. /\ back \in Seq(S)
        /\ Len(back) = IF Len(s) + 1 <= Len(u) THEN Len(u) - (Len(s) + 1) + 1 ELSE 0
        /\ \A i \in 1 .. Len(u) - (Len(s) + 1) + 1 : back[i] = u[Len(s) + 1 + i - 1]
    BY <2>1, <2>2, SubSeqProperties
  <2> HIDE DEF back
  <2>4. Len(u) - (Len(s) + 1) + 1 = Len(t) /\ \A i \in 1 .. Len(t) : Len(s) + 1 + i - 1 = Len(s) + i
    BY <1>1, <1>2
  <2>5. Len(back) = Len(t)
    <3>1. Len(u) = Len(s) + Len(t)
      BY <1>2
    <3>2. Len(s) + 1 <= Len(u) \/ (Len(t) = 0 /\ ~(Len(s) + 1 <= Len(u)))
      <4> DEFINE ls == Len(s)
                 lt == Len(t)
                 lu == Len(u)
      <4>1. ls \in Nat /\ lt \in Nat /\ lu = ls + lt
        BY <1>1, <3>1
      <4> HIDE DEF ls, lt, lu
      <4>2. ls + 1 <= lu \/ (lt = 0 /\ ~(ls + 1 <= lu))
        BY <4>1
      <4> QED
        BY <4>2 DEF ls, lt, lu
    <3>3. CASE Len(s) + 1 <= Len(u)
      BY <2>3, <2>4, <3>3, Zenon
    <3>4. CASE Len(t) = 0 /\ ~(Len(s) + 1 <= Len(u))
      BY <2>3, <3>4, Zenon
    <3> QED
      BY <3>2, <3>3, <3>4
  <2>6. ASSUME NEW i \in 1 .. Len(t) PROVE back[i] = u[Len(s) + i]
    <3>1. i \in 1 .. Len(u) - (Len(s) + 1) + 1
      BY <2>4, Zenon
    <3>2. back[i] = u[Len(s) + 1 + i - 1]
      BY <2>3, <3>1, Zenon
    <3>3. Len(s) + 1 + i - 1 = Len(s) + i
      BY <2>4
    <3> QED
      BY <3>2, <3>3, Zenon
  <2> QED
    BY <2>3, <2>5, <2>6, Zenon
<1> HIDE DEF front, back
<1>6. \A i \in 1 .. Len(front) : front[i] = s[i]
  BY <1>1, <1>2, <1>4
<1>7. \A i \in 1 .. Len(back) : back[i] = t[i]
  <2> TAKE i \in 1 .. Len(back)
  <2>1. i \in 1 .. Len(t) /\ Len(s) + i \in 1 .. Len(s) + Len(t) /\ ~(Len(s) + i <= Len(s))
    BY <1>1, <1>5
  <2>2. u[Len(s) + i] = t[(Len(s) + i) - Len(s)]
    BY <2>1, <1>2
  <2>3. (Len(s) + i) - Len(s) = i
    BY <1>1, <2>1
  <2> QED
    BY <2>1, <2>2, <2>3, <1>5
<1>8. front = s
  BY <1>4, <1>6, SeqEqual
<1>9. back = t
  BY <1>5, <1>7, SeqEqual
<1> QED
  BY <1>8, <1>9 DEF u, front, back

(* A sequence is its first element and the rest. *)
LEMMA FirstAndRest ==
  ASSUME NEW S, NEW s \in Seq(S), s # <<>>
  PROVE  /\ Head(s) \in S /\ Tail(s) \in Seq(S)
         /\ << Head(s) >> \in Seq(S) /\ Len(<< Head(s) >>) = 1
         /\ s = << Head(s) >> \o Tail(s)
<1>1. Len(s) \in Nat /\ 1 \in 1 .. Len(s) /\ Len(s) \in 1 .. Len(s)
  BY EmptySeq, LenProperties
<1>2. SubSeq(s, 1, Len(s)) = << s[1] >> \o SubSeq(s, 1 + 1, Len(s))
  BY <1>1, SubSeqRecursiveFirst
<1>3. SubSeq(s, 1, Len(s)) = s /\ Tail(s) = SubSeq(s, 2, Len(s))
  BY SubSeqFull, TailIsSubSeq
<1>4. Head(s) = s[1]
  BY <1>1, <1>3, HeadTailOfSubSeq
<1>5. Head(s) \in S /\ Tail(s) \in Seq(S)
  BY HeadTailProperties
<1>6. 1 + 1 = 2
  OBVIOUS
<1>7. s = << Head(s) >> \o Tail(s)
  BY <1>2, <1>3, <1>4, <1>6
<1> QED
  BY <1>5, <1>7
-----------------------------------------------------------------------------
(* What a write sends *)

(* What is copied to the ring is what is published next. *)
CopyInv == pc = "wPublish" => \A i \in 1 .. n : tx_buf[tx_in + i - 1] = src[i]

(* Nothing is copied at first. *)
LEMMA CopyInvInit == Init => CopyInv
  BY DEF Init, CopyInv

(* The steps that move characters from a caller to the host. *)
LEMMA TransmitMoves ==
  ASSUME Next
  PROVE  \/ WriteCopy \/ WritePublish \/ SendChar \/ HostTakes
         \/ UNCHANGED <<tx_in, tx_out, tx_buf, wfifo, printed>>
<1>1. CASE NewCall
  BY <1>1, Zenon DEF NewCall, WriteCall, ReadCall, CloseCall, SetTimeout, GetConnected, txRing, uart
<1>2. CASE CallStep
  BY <1>2, Zenon DEF CallStep, altera_avalon_jtag_uart_init, WriteSpace, WriteKick,
     WriteWait, WriteActive, ReadAvail, ReadCopy, ReadPublish, ReadWait, ReadActive, ReadEnable,
     altera_avalon_jtag_uart_close, txRing, uart
<1>3. CASE Interrupt \/ Routine
  BY <1>3, Zenon DEF Interrupt, Routine, ReadControl, ReceiveChar, ReceiveNothing, ReceiveMissed, ReceiveLater, SendDone, txRing, uart
<1>4. CASE Tick \/ Host
  BY <1>4, Zenon DEF Tick, Host, HostPauses, HostComesOrGoes, HostSends, txRing
<1> QED
  BY <1>1, <1>2, <1>3, <1>4 DEF Next

(* A call that is between copy and publication does not move.              *)
LEMMA PublishIsNext ==
  ASSUME Next, pc' = "wPublish", ~WriteCopy
  PROVE  pc = "wPublish" /\ UNCHANGED <<src, n, tx_in, tx_buf>>
<1>1. CASE NewCall
  BY <1>1 DEF NewCall, WriteCall, ReadCall, CloseCall, SetTimeout, GetConnected, Return
<1>2. CASE CallStep
  BY <1>2 DEF CallStep, altera_avalon_jtag_uart_init, WriteSpace, WritePublish, WriteKick,
     WriteWait, WriteActive, ReadAvail, ReadCopy, ReadPublish, ReadWait, ReadActive, ReadEnable,
     altera_avalon_jtag_uart_close, Return, Goto
<1>3. CASE Interrupt \/ Routine
  BY <1>3 DEF Interrupt, Routine, ReadControl, ReceiveChar, ReceiveNothing, ReceiveMissed, ReceiveLater, SendChar, SendDone, txRing, call
<1>4. CASE Tick \/ Host
  BY <1>4 DEF Tick, Host, HostTakes, HostPauses, HostComesOrGoes, HostSends, txRing, call
<1> QED
  BY <1>1, <1>2, <1>3, <1>4 DEF Next

(* The room found is at the end of the ring, so that what is copied is in  *)
(* it, one place after the other.                                          *)
LEMMA Copied ==
  ASSUME DriverInv, WriteCopy
  PROVE  /\ \A i \in 1 .. n : tx_in + i - 1 \in Index /\ tx_buf'[tx_in + i - 1] = src[i]
         /\ \A i \in Index : i \notin tx_in .. tx_in + n - 1 => tx_buf'[i] = tx_buf[i]
         /\ tx_buf' \in [Index -> Char]
<1>1. n \in Nat /\ n <= Space(tx_in, tx_out) /\ tx_in \in Index /\ tx_out \in Index
  BY DEF DriverInv, Typing, TxType, CallType, WriteInv, WriteCopy, At
<1>2. tx_in + n <= BufLen
  <2>1. Space(tx_in, tx_out) \in Int /\ tx_in + Space(tx_in, tx_out) <= BufLen
    BY <1>1, SpaceUpToTheEnd
  <2> QED
    BY <1>1, <2>1 DEF Index
<1>3. tx_buf' = [i \in Index |-> IF i \in tx_in .. tx_in + n - 1 THEN src[i - tx_in + 1] ELSE tx_buf[i]]
  BY DEF WriteCopy
<1>4. ASSUME NEW i \in 1 .. n
      PROVE  tx_in + i - 1 \in Index /\ tx_buf'[tx_in + i - 1] = src[i]
  <2> DEFINE j == tx_in + i - 1
  <2>1. j \in Index /\ j \in tx_in .. tx_in + n - 1 /\ j - tx_in + 1 = i
    BY <1>1, <1>2, <1>4 DEF Index
  <2> HIDE DEF j
  <2>2. tx_buf'[j] = src[i]
    BY <1>3, <2>1
  <2> QED
    BY <2>1, <2>2 DEF j
<1>5. tx_buf' \in [Index -> Char]
  BY TxTypeNext DEF TxType, Next, CallStep
<1> QED
  BY <1>3, <1>4, <1>5

(* Until it is published, the copy stays what the caller gave. *)
LEMMA CopyInvNext == DriverInv /\ CopyInv /\ [Next]_vars => CopyInv'
<1> SUFFICES ASSUME DriverInv, CopyInv, [Next]_vars, pc' = "wPublish"
             PROVE  (\A i \in 1 .. n : tx_buf[tx_in + i - 1] = src[i])'
  BY DEF CopyInv
<1>1. CASE WriteCopy
  BY <1>1, Copied DEF WriteCopy, Goto, Locals
<1>2. CASE ~WriteCopy /\ Next
  BY <1>2, PublishIsNext DEF CopyInv
<1>3. CASE UNCHANGED vars
  BY <1>3 DEF vars, call, txRing, CopyInv
<1> QED
  BY <1>1, <1>2, <1>3

(* What has been accepted and not been taken by the host. *)
Pipe == wfifo \o Held(tx_buf, tx_out, tx_in)

(* Both pieces of the pipe are sequences of characters. *)
LEMMA PipeType ==
  ASSUME TxType, UartType
  PROVE  Pipe \in Seq(Char) /\ Held(tx_buf, tx_out, tx_in) \in Seq(Char) /\ wfifo \in Seq(Char)
  BY HeldIs, ConcatProperties DEF TxType, UartType, Pipe

(* The interrupt routine moves the next character from the ring to the     *)
(* FIFO, where there is room for it.                                       *)
LEMMA SendCharKeepsPipe ==
  ASSUME DriverInv, SendChar
  PROVE  Pipe' = Pipe
<1> DEFINE next == (tx_out + 1) % BufLen
           c == tx_buf[tx_out]
           piece == [i \in 1 .. 1 |-> tx_buf[tx_out + i - 1]]
           rest == Held(tx_buf, next, tx_in)
<1>1. /\ tx_in \in Index /\ tx_out \in Index /\ tx_buf \in [Index -> Char] /\ wfifo \in Seq(Char)
      /\ Len(wfifo) < FifoDepth
  <2>1. Len(wfifo) \in Nat /\ space \in Nat /\ space > 0 /\ space <= FifoDepth - Len(wfifo)
    BY LenProperties DEF DriverInv, Typing, UartType, IrqType, IrqInv, SendChar
  <2> QED
    BY <2>1 DEF DriverInv, Typing, TxType, UartType
<1>2. c \in Char
  BY <1>1
<1>3. wfifo' = Append(wfifo, c) /\ Pipe' = wfifo' \o Held(tx_buf', tx_out', tx_in')
  BY <1>1 DEF SendChar, Push, Pipe, Held
<1>4. tx_buf' = tx_buf /\ tx_in' = tx_in /\ tx_out' = next
  BY DEF SendChar
<1>5. 1 \in 1 .. BufLen /\ 1 <= Avail(tx_in, tx_out)
  BY <1>1 DEF Avail, Index, SendChar
<1>6. next \in Index /\ piece \in Seq(Char) /\ Len(piece) = 1 /\ Held(tx_buf, tx_out, tx_in) = piece \o rest
  <2>1. ASSUME NEW k \in 1 .. BufLen, k <= Avail(tx_in, tx_out)
        PROVE  /\ (tx_out + k) % BufLen \in Index
               /\ [i \in 1 .. k |-> tx_buf[tx_out + i - 1]] \in Seq(Char)
               /\ Len([i \in 1 .. k |-> tx_buf[tx_out + i - 1]]) = k
               /\ Held(tx_buf, tx_out, tx_in) =
                    [i \in 1 .. k |-> tx_buf[tx_out + i - 1]] \o Held(tx_buf, (tx_out + k) % BufLen, tx_in)
    BY <1>1, <2>1, HeldTaken, Zenon
  <2> QED
    BY <1>5, <2>1, Zenon
<1>7. piece = << c >>
  <2>1. << c >> \in Seq(Char) /\ Len(<< c >>) = 1
    BY <1>2
  <2>2. \A i \in 1 .. Len(piece) : piece[i] = << c >>[i]
    BY <1>1, <1>6 DEF Index
  <2> QED
    BY <1>6, <2>1, <2>2, SeqEqual
<1>8. rest \in Seq(Char)
  BY <1>1, <1>6, HeldIs
<1> HIDE DEF next, c, piece, rest
<1>9. Append(wfifo, c) = wfifo \o << c >> /\ << c >> \in Seq(Char)
  BY <1>1, <1>2, AppendIsConcat
<1>10. (wfifo \o << c >>) \o rest = wfifo \o (<< c >> \o rest)
  BY <1>1, <1>8, <1>9, Regroup
<1>11. Pipe' = (wfifo \o << c >>) \o rest
  BY <1>3, <1>4, <1>9 DEF rest
<1>12. Pipe = wfifo \o (<< c >> \o rest)
  BY <1>6, <1>7 DEF Pipe
<1> QED
  BY <1>10, <1>11, <1>12

(* A write gives over what it has copied. *)
LEMMA WritePublishAccepts ==
  ASSUME DriverInv, CopyInv, WritePublish
  PROVE  /\ n \in 1 .. Len(src) /\ src' = SubSeq(src, n + 1, Len(src))
         /\ Pipe' = Pipe \o SubSeq(src, 1, n)
<1> DEFINE held == Held(tx_buf, tx_out, tx_in)
           new == SubSeq(src, 1, n)
<1>1. /\ tx_in \in Index /\ tx_out \in Index /\ tx_buf \in [Index -> Char] /\ wfifo \in Seq(Char)
      /\ src \in Seq(Char) /\ n \in 1 .. Len(src) /\ n <= Space(tx_in, tx_out)
      /\ \A i \in 1 .. n : tx_buf[tx_in + i - 1] = src[i]
  BY DEF DriverInv, Typing, TxType, UartType, CallType, WriteInv, CopyInv, WritePublish, At
<1>2. Held(tx_buf, tx_out, (tx_in + n) % BufLen) = held \o new
  BY <1>1, HeldPublished
<1>3. Pipe' = wfifo' \o Held(tx_buf', tx_out', tx_in')
  BY DEF Pipe, Held
<1>4. tx_buf' = tx_buf /\ tx_out' = tx_out /\ tx_in' = (tx_in + n) % BufLen /\ wfifo' = wfifo
  BY DEF WritePublish, uart
<1>5. held \in Seq(Char)
  BY <1>1, HeldIs
<1>6. new \in Seq(Char)
  <2>1. Len(src) \in Nat /\ n \in Int /\ 1 \in Int
    BY <1>1, LenProperties
  <2>2. \A i \in 1 .. n : src[i] \in Char
    BY <1>1, <2>1, ElementOfSeq
  <2> QED
    BY <2>1, <2>2, SubSeqProperties
<1> HIDE DEF held, new
<1>7. (wfifo \o held) \o new = wfifo \o (held \o new)
  <2>1. wfifo \in Seq(Char)
    BY <1>1
  <2> QED
    BY <2>1, <1>5, <1>6, Regroup
<1>8. Pipe' = wfifo \o (held \o new)
  BY <1>2, <1>3, <1>4
<1>9. Pipe = wfifo \o held
  BY DEF Pipe, held
<1>10. src' = SubSeq(src, n + 1, Len(src))
  BY DEF WritePublish
<1> QED
  BY <1>1, <1>7, <1>8, <1>9, <1>10 DEF new

(* The host takes the first character of all. *)
LEMMA HostTakesFirst ==
  ASSUME DriverInv, HostTakes
  PROVE  /\ 1 \in 1 .. Len(Pipe) /\ Pipe' = SubSeq(Pipe, 1 + 1, Len(Pipe))
         /\ printed' = <<>> \o SubSeq(Pipe, 1, 1)
<1> DEFINE held == Held(tx_buf, tx_out, tx_in)
           one == << Head(wfifo) >>
<1>1. tx_in \in Index /\ tx_out \in Index /\ tx_buf \in [Index -> Char] /\ wfifo \in Seq(Char)
  BY DEF DriverInv, Typing, TxType, UartType
<1>2. wfifo # <<>> /\ printed' = one /\ wfifo' = Tail(wfifo) /\ UNCHANGED <<tx_in, tx_out, tx_buf>>
  BY DEF HostTakes, txRing
<1>3. held \in Seq(Char)
  BY <1>1, HeldIs
<1>4. Tail(wfifo) \in Seq(Char) /\ one \in Seq(Char) /\ Len(one) = 1 /\ wfifo = one \o Tail(wfifo)
  BY <1>1, <1>2, FirstAndRest
<1>5. Pipe' = Tail(wfifo) \o held
  <2>1. Pipe' = wfifo' \o Held(tx_buf', tx_out', tx_in')
    BY DEF Pipe, Held
  <2> QED
    BY <1>2, <2>1
<1> HIDE DEF held, one
<1>6. Tail(wfifo) \o held \in Seq(Char)
  BY <1>3, <1>4, ConcatProperties
<1>7. Pipe = one \o (Tail(wfifo) \o held)
  <2>1. (one \o Tail(wfifo)) \o held = one \o (Tail(wfifo) \o held)
    BY <1>3, <1>4, Regroup
  <2>2. Pipe = wfifo \o held
    BY DEF Pipe, held
  <2> QED
    BY <2>1, <2>2, <1>4
<1> DEFINE rest == Tail(wfifo) \o held
<1> HIDE DEF rest
<1>8. rest \in Seq(Char) /\ Pipe = one \o rest /\ Pipe' = rest
  BY <1>5, <1>6, <1>7 DEF rest
<1>9. SubSeq(Pipe, 1, Len(one)) = one /\ SubSeq(Pipe, Len(one) + 1, Len(Pipe)) = rest
  BY <1>4, <1>8, Dropped
<1>10. Len(Pipe) = 1 + Len(rest) /\ Len(rest) \in Nat
  BY <1>4, <1>8, ConcatProperties, LenProperties
<1>11. <<>> \o one = one
  BY <1>4, ConcatEmptySeq
<1> QED
  BY <1>2, <1>4, <1>8, <1>9, <1>10, <1>11

(* The driver and the UART carry what is written to the host as a stream.  *)
THEOREM TransmitStream == Spec => TransmitsStream
<1> USE DEF Transmit!stream
<1>1. Init => Transmit!Init
  <2> SUFFICES ASSUME Init PROVE Transmit!Init
    OBVIOUS
  <2>1. tx_in \in Index /\ tx_out \in Index /\ tx_buf \in [Index -> Char] /\ wfifo = <<>> /\ src = <<>>
        /\ printed = <<>> /\ <<>> \in Seq(Char)
    BY EmptySeq DEF Init, Index
  <2>2. LET held == Held(tx_buf, tx_out, tx_in) IN held \in Seq(Char) /\ Len(held) = 0
    BY <2>1, HeldIs DEF Init, Count
  <2>3. Held(tx_buf, tx_out, tx_in) = <<>>
    BY <2>2, EmptySeq
  <2>4. wfifo \o Held(tx_buf, tx_out, tx_in) = <<>>
    BY <2>1, <2>3
  <2> QED
    BY <2>1, <2>4 DEF Transmit!Init
<1>2. DriverInv /\ CopyInv /\ [Next]_vars => [Transmit!Next]_(Transmit!stream)
  <2> SUFFICES ASSUME DriverInv, CopyInv, [Next]_vars
               PROVE  Transmit!Next \/ UNCHANGED <<src, Pipe, printed>>
    BY DEF Pipe
  <2>1. CASE WritePublish
    <3>1. UNCHANGED printed
      BY <2>1 DEF WritePublish, uart
    <3> QED
      BY <2>1, <3>1, WritePublishAccepts DEF Transmit!Next, Transmit!Accept, Pipe
  <2>2. CASE HostTakes
    <3>1. UNCHANGED src
      BY <2>2 DEF HostTakes, call
    <3> QED
      BY <2>2, <3>1, HostTakesFirst DEF Transmit!Next, Transmit!Deliver, Pipe
  <2>3. CASE SendChar
    <3>1. UNCHANGED <<src, printed>>
      BY <2>3 DEF SendChar, call
    <3> QED
      BY <2>3, <3>1, SendCharKeepsPipe
  <2>4. CASE WriteCopy
    <3>1. /\ tx_in \in Index /\ tx_out \in Index /\ tx_buf \in [Index -> Char]
          /\ n \in Nat /\ n <= Space(tx_in, tx_out)
      BY <2>4 DEF DriverInv, Typing, TxType, CallType, WriteInv, WriteCopy, At
    <3>2. Held(tx_buf', tx_out, tx_in) = Held(tx_buf, tx_out, tx_in)
      BY <2>4, <3>1, Copied, HeldBesideCopy
    <3>3. UNCHANGED <<src, tx_in, tx_out, wfifo, printed>>
      BY <2>4 DEF WriteCopy, Goto, Locals, uart
    <3>4. Pipe' = wfifo' \o Held(tx_buf', tx_out', tx_in')
      BY DEF Pipe, Held
    <3> QED
      BY <3>2, <3>3, <3>4 DEF Pipe
  <2>5. CASE UNCHANGED <<tx_in, tx_out, tx_buf, wfifo, printed>> /\ Next
    <3>1. UNCHANGED <<Pipe, printed>>
      BY <2>5 DEF Pipe, Held
    <3>2. src' \in Seq(Char)
      BY <2>5, CallTypeNext DEF CallType
    <3> QED
      BY <3>1, <3>2 DEF Transmit!Next, Transmit!Offer, Pipe
  <2>6. CASE UNCHANGED vars
    BY <2>6 DEF vars, txRing, call, uart, Pipe, Held
  <2> QED
    BY <2>1, <2>2, <2>3, <2>4, <2>5, <2>6, TransmitMoves
<1> QED
  BY <1>1, <1>2, DriverInvariant, CopyInvInit, CopyInvNext, PTL DEF Spec, TransmitsStream, Transmit!Spec

-----------------------------------------------------------------------------
(* What a read receives *)

(* The steps that move characters from the host to a caller. *)
LEMMA ReceiveMoves ==
  ASSUME Next
  PROVE  \/ ReadCopy \/ ReadPublish \/ ReceiveChar
         \/ \E c \in FromHost : HostSends(c) \/ ReceiveMissed(c)
         \/ /\ UNCHANGED <<rx_in, rx_out, rx_buf, rfifo>> /\ dst' \in {dst, <<>>}
            /\ pc' = "rPublish" <=> pc = "rPublish"
            /\ pc = "rPublish" => n' = n
<1>1. CASE NewCall
  BY <1>1 DEF NewCall, WriteCall, ReadCall, CloseCall, SetTimeout, GetConnected, At, Return, rxRing, uart
<1>2. CASE CallStep
  BY <1>2 DEF CallStep, altera_avalon_jtag_uart_init, WriteSpace, WriteCopy, WritePublish, WriteKick,
     WriteWait, WriteActive, ReadAvail, ReadWait, ReadActive, ReadEnable,
     altera_avalon_jtag_uart_close, At, Return, Goto, Locals, rxRing, uart
<1>3. CASE Interrupt \/ Routine
  BY <1>3 DEF Interrupt, Routine, ReadControl, ReceiveNothing, ReceiveLater, SendChar, SendDone, call, rxRing, uart
<1>4. CASE Tick \/ Host
  BY <1>4 DEF Tick, Host, HostTakes, HostPauses, HostComesOrGoes, call, rxRing
<1> QED
  BY <1>1, <1>2, <1>3, <1>4 DEF Next

(* What the host has sent and no read has copied. *)
Inbox == Held(rx_buf, ReadOut, rx_in) \o rfifo

(* What a read has copied and not moved over yet is in the ring. *)
LEMMA ReadOutIs ==
  ASSUME DriverInv
  PROVE  /\ ReadOut \in Index /\ rx_in \in Index /\ rx_out \in Index /\ rx_buf \in [Index -> Char]
         /\ rfifo \in Seq(Char) /\ Held(rx_buf, ReadOut, rx_in) \in Seq(Char)
         /\ Count(ReadOut, rx_in) <= Count(rx_out, rx_in)
<1>1. /\ rx_in \in Index /\ rx_out \in Index /\ rx_buf \in [Index -> Char] /\ rfifo \in Seq(Char)
      /\ pc = "rPublish" => n \in Nat /\ n <= Avail(rx_in, rx_out)
  BY DEF DriverInv, Typing, RxType, UartType, CallType, ReadInv
<1>2. CASE pc = "rPublish"
  <2>1. rx_out + n <= BufLen
    <3>1. Avail(rx_in, rx_out) \in Int /\ rx_out + Avail(rx_in, rx_out) <= BufLen
      BY <1>1, AvailUpToTheEnd
    <3> QED
      BY <1>1, <1>2, <3>1 DEF Index
  <2> DEFINE on == (rx_out + n) % BufLen
  <2>2. on \in Index /\ on = (IF rx_out + n = BufLen THEN 0 ELSE rx_out + n)
    BY <1>1, <1>2, <2>1, Advance
  <2>3. ReadOut = on
    BY <1>2 DEF ReadOut
  <2> HIDE DEF on
  <2>4. Count(on, rx_in) <= Count(rx_out, rx_in)
    BY <1>1, <1>2, <2>1, <2>2 DEF Count, Avail, Index
  <2> QED
    BY <1>1, <2>2, <2>3, <2>4, HeldIs
<1>3. CASE pc # "rPublish"
  <2>1. ReadOut = rx_out
    BY <1>3 DEF ReadOut
  <2>2. Count(rx_out, rx_in) \in Nat
    BY <1>1, HeldIs
  <2> QED
    BY <1>1, <2>1, <2>2, HeldIs
<1> QED
  BY <1>2, <1>3

(* The interrupt routine moves the next character from the FIFO to the     *)
(* ring, behind all the others.                                            *)
LEMMA ReceiveCharKeepsInbox ==
  ASSUME DriverInv, ReceiveChar
  PROVE  Inbox' = Inbox
<1> DEFINE c == Head(rfifo)
           held == Held(rx_buf, ReadOut, rx_in)
<1>1. /\ ReadOut \in Index /\ rx_in \in Index /\ rx_out \in Index /\ rx_buf \in [Index -> Char]
      /\ rfifo \in Seq(Char) /\ held \in Seq(Char)
      /\ Count(ReadOut, rx_in) <= Count(rx_out, rx_in)
  BY ReadOutIs
<1>2. rfifo # <<>> /\ rx_buf' = [rx_buf EXCEPT ![rx_in] = c] /\ rx_in' = (rx_in + 1) % BufLen
      /\ rfifo' = Tail(rfifo) /\ UNCHANGED <<rx_out, pc, n>>
  BY DEF ReceiveChar, call
<1>3. c \in Char /\ Tail(rfifo) \in Seq(Char) /\ << c >> \in Seq(Char) /\ rfifo = << c >> \o Tail(rfifo)
  BY <1>1, <1>2, FirstAndRest
<1>4. Count(ReadOut, rx_in) < BufLen - 1
  <2>1. (rx_in + 1) % BufLen # rx_out
    BY DEF ReceiveChar, RxFull
  <2>2. Count(rx_out, rx_in) < BufLen - 1
    BY <1>1, <2>1, AdvanceOne DEF Count, Index
  <2>3. Count(ReadOut, rx_in) \in Int /\ Count(rx_out, rx_in) \in Int
    BY <1>1 DEF Count, Index
  <2> QED
    BY <1>1, <2>2, <2>3
<1> HIDE DEF c, held
<1>5. Held(rx_buf', ReadOut, rx_in') = held \o << c >>
  BY <1>1, <1>2, <1>3, <1>4, HeldGrown DEF held
<1>6. Inbox' = Held(rx_buf', ReadOut', rx_in') \o rfifo'
  BY DEF Inbox, Held
<1>7. ReadOut' = ReadOut
  BY <1>2 DEF ReadOut
<1>8. (held \o << c >>) \o Tail(rfifo) = held \o (<< c >> \o Tail(rfifo))
  BY <1>1, <1>3, Regroup
<1>9. Inbox = held \o rfifo
  BY DEF Inbox, held
<1> QED
  BY <1>2, <1>3, <1>5, <1>6, <1>7, <1>8, <1>9

(* A read copies what is first in the ring. *)
LEMMA ReadCopyDelivers ==
  ASSUME DriverInv, ReadCopy
  PROVE  /\ n \in 1 .. Len(Inbox) /\ Inbox' = SubSeq(Inbox, n + 1, Len(Inbox))
         /\ dst' = dst \o SubSeq(Inbox, 1, n)
<1> DEFINE on == (rx_out + n) % BufLen
           piece == [i \in 1 .. n |-> rx_buf[rx_out + i - 1]]
           rest == Held(rx_buf, on, rx_in)
<1>1. /\ rx_in \in Index /\ rx_out \in Index /\ rx_buf \in [Index -> Char] /\ rfifo \in Seq(Char)
      /\ pc = "rCopy" /\ n \in 1 .. room /\ room \in Nat /\ n <= Avail(rx_in, rx_out)
  BY DEF DriverInv, Typing, RxType, UartType, CallType, ReadInv, ReadCopy, At
<1>2. n \in 1 .. BufLen
  BY <1>1, AvailUpToTheEnd
<1>3. on \in Index /\ piece \in Seq(Char) /\ Len(piece) = n /\ Held(rx_buf, rx_out, rx_in) = piece \o rest
  <2>1. ASSUME NEW k \in 1 .. BufLen, k <= Avail(rx_in, rx_out)
        PROVE  /\ (rx_out + k) % BufLen \in Index
               /\ [i \in 1 .. k |-> rx_buf[rx_out + i - 1]] \in Seq(Char)
               /\ Len([i \in 1 .. k |-> rx_buf[rx_out + i - 1]]) = k
               /\ Held(rx_buf, rx_out, rx_in) =
                    [i \in 1 .. k |-> rx_buf[rx_out + i - 1]] \o Held(rx_buf, (rx_out + k) % BufLen, rx_in)
    BY <1>1, <2>1, HeldTaken, Zenon
  <2> QED
    BY <1>1, <1>2, <2>1, Zenon
<1>4. rest \in Seq(Char)
  BY <1>1, <1>3, HeldIs
<1>5. dst' = dst \o piece /\ pc' = "rPublish" /\ UNCHANGED <<rx_in, rx_out, rx_buf, rfifo, n>>
  BY DEF ReadCopy, rxRing, uart
<1>6. ReadOut = rx_out /\ ReadOut' = on
  BY <1>1, <1>5 DEF ReadOut
<1>7. Inbox' = Held(rx_buf', ReadOut', rx_in') \o rfifo'
  BY DEF Inbox, Held
<1>8. Inbox = Held(rx_buf, rx_out, rx_in) \o rfifo
  BY <1>6 DEF Inbox
<1>9. Inbox' = rest \o rfifo
  BY <1>5, <1>6, <1>7
<1> HIDE DEF on, piece, rest
<1> DEFINE later == rest \o rfifo
<1>10. later \in Seq(Char)
  BY <1>1, <1>4, ConcatProperties
<1>11. Inbox = piece \o later
  <2>1. (piece \o rest) \o rfifo = piece \o (rest \o rfifo)
    BY <1>1, <1>3, <1>4, Regroup
  <2> QED
    BY <2>1, <1>3, <1>8
<1>12. Inbox' = later
  BY <1>9
<1> HIDE DEF later
<1>13. SubSeq(Inbox, 1, Len(piece)) = piece /\ SubSeq(Inbox, Len(piece) + 1, Len(Inbox)) = later
  BY <1>3, <1>10, <1>11, Dropped
<1>14. Len(Inbox) = n + Len(later) /\ Len(later) \in Nat
  BY <1>3, <1>10, <1>11, ConcatProperties, LenProperties
<1>15. n \in 1 .. Len(Inbox)
  BY <1>2, <1>14
<1>16. SubSeq(Inbox, 1, n) = piece /\ SubSeq(Inbox, n + 1, Len(Inbox)) = later
  BY <1>3, <1>13, Zenon
<1>17. dst' = dst \o SubSeq(Inbox, 1, n)
  BY <1>5, <1>16, Zenon
<1> QED
  BY <1>12, <1>15, <1>16, <1>17, Zenon

(* The driver and the UART carry what the host sends to the reads as a     *)
(* stream.                                                                 *)
THEOREM ReceiveStream == Spec => ReceivesStream
<1> USE DEF Receive!stream
<1>1. Init => Receive!Init
  <2> SUFFICES ASSUME Init PROVE Receive!Init
    OBVIOUS
  <2>1. rx_in \in Index /\ ReadOut = rx_in /\ rx_buf \in [Index -> Char] /\ rfifo = <<>> /\ dst = <<>>
        /\ <<>> \in Seq(Char)
    BY EmptySeq DEF Init, Index, ReadOut
  <2>2. LET held == Held(rx_buf, ReadOut, rx_in) IN held \in Seq(Char) /\ Len(held) = 0
    <3>1. Count(rx_in, rx_in) = 0
      BY <2>1 DEF Count, Index
    <3>2. /\ Held(rx_buf, rx_in, rx_in) \in Seq(Char)
          /\ Len(Held(rx_buf, rx_in, rx_in)) = Count(rx_in, rx_in)
      BY <2>1, HeldIs
    <3> QED
      BY <2>1, <3>1, <3>2
  <2>3. Held(rx_buf, ReadOut, rx_in) = <<>>
    BY <2>2, EmptySeq
  <2>4. Held(rx_buf, ReadOut, rx_in) \o rfifo = <<>>
    BY <2>1, <2>3
  <2> QED
    BY <2>1, <2>4 DEF Receive!Init
<1>2. DriverInv /\ [Next]_vars => [Receive!Next \/ Receive!Send]_(Receive!stream)
  <2> SUFFICES ASSUME DriverInv, [Next]_vars
               PROVE  Receive!Next \/ Receive!Send \/ UNCHANGED <<Inbox, dst>>
    BY DEF Inbox
  <2>0. Inbox' = Held(rx_buf', ReadOut', rx_in') \o rfifo'
    BY DEF Inbox, Held
  <2>1. CASE ReadCopy
    BY <2>1, ReadCopyDelivers DEF Receive!Next, Receive!Deliver, Inbox
  <2>2. CASE ReadPublish
    <3>1. pc = "rPublish" /\ pc' # "rPublish" /\ rx_out' = (rx_out + n) % BufLen
          /\ UNCHANGED <<rx_in, rx_buf, rfifo, dst>>
      BY <2>2 DEF ReadPublish, At, uart
    <3>2. ReadOut' = ReadOut
      BY <3>1 DEF ReadOut
    <3> QED
      BY <2>0, <3>1, <3>2 DEF Inbox
  <2>3. CASE ReceiveChar
    <3>1. UNCHANGED dst
      BY <2>3 DEF ReceiveChar, call
    <3> QED
      BY <2>3, <3>1, ReceiveCharKeepsInbox
  <2>4. CASE \E c \in FromHost : HostSends(c) \/ ReceiveMissed(c)
    <3> PICK c \in FromHost : HostSends(c) \/ ReceiveMissed(c)
      BY <2>4
    <3> DEFINE held == Held(rx_buf, ReadOut, rx_in)
    <3>1. c \in Char /\ rfifo' = Append(rfifo, c) /\ UNCHANGED <<rx_in, rx_out, rx_buf, pc, n, dst>>
      <4>1. c \in Char /\ UNCHANGED <<rx_in, rx_out, rx_buf, pc, n, dst>>
        BY DEF HostSends, ReceiveMissed, rxRing, call
      <4>2. CASE HostSends(c)
        BY <4>1, <4>2 DEF HostSends
      <4>3. CASE ReceiveMissed(c)
        <5>1. rfifo' = << c >> /\ rfifo = <<>>
          BY <4>3, Zenon DEF ReceiveMissed
        <5>2. Append(<<>>, c) = << c >>
          BY <4>1
        <5> QED
          BY <4>1, <5>1, <5>2
      <4> QED
        BY <4>2, <4>3
    <3>2. rfifo \in Seq(Char) /\ held \in Seq(Char)
      BY ReadOutIs
    <3>3. ReadOut' = ReadOut
      BY <3>1 DEF ReadOut
    <3>4. Inbox' = held \o Append(rfifo, c) /\ Inbox = held \o rfifo
      BY <2>0, <3>1, <3>3 DEF Inbox
    <3> HIDE DEF held
    <3>5. held \o rfifo \in Seq(Char) /\ << c >> \in Seq(Char)
      BY <3>1, <3>2, ConcatProperties
    <3>6. /\ Append(rfifo, c) = rfifo \o << c >>
          /\ Append(held \o rfifo, c) = (held \o rfifo) \o << c >>
      BY <3>1, <3>2, <3>5, AppendIsConcat
    <3>7. (held \o rfifo) \o << c >> = held \o (rfifo \o << c >>)
      BY <3>2, <3>5, Regroup
    <3>8. Inbox' = Append(Inbox, c)
      BY <3>4, <3>6, <3>7
    <3> QED
      BY <3>1, <3>8 DEF Receive!Send, Inbox
  <2>5. CASE /\ UNCHANGED <<rx_in, rx_out, rx_buf, rfifo>> /\ dst' \in {dst, <<>>}
             /\ pc' = "rPublish" <=> pc = "rPublish"
             /\ pc = "rPublish" => n' = n
    <3>1. ReadOut' = ReadOut
      BY <2>5 DEF ReadOut
    <3>2. UNCHANGED Inbox
      BY <2>0, <2>5, <3>1 DEF Inbox
    <3> QED
      BY <2>5, <3>2 DEF Receive!Next, Receive!Request, Inbox
  <2>6. CASE UNCHANGED vars
    <3>1. UNCHANGED <<rx_in, rx_out, rx_buf, rfifo, dst, pc, n>>
      BY <2>6 DEF vars, rxRing, call, uart
    <3>2. ReadOut' = ReadOut
      BY <3>1 DEF ReadOut
    <3> QED
      BY <2>0, <3>1, <3>2 DEF Inbox
  <2> QED
    BY <2>1, <2>2, <2>3, <2>4, <2>5, <2>6, ReceiveMoves
<1> QED
  BY <1>1, <1>2, DriverInvariant, PTL DEF Spec, ReceivesStream, Receive!OpenSpec
=============================================================================
